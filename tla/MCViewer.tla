------------------------------ MODULE MCViewer ------------------------------
(* Viewer for TLC: two users with a profile each, one title, a query that  *)
(* finds nothing.                                                          *)
EXTENDS Viewer, TLC

CONSTANTS u1, u2, p1, p2, t1, none, miss, empty, all, movies

MCOwnerOf == p1 :> u1 @@ p2 :> u2
MCHits == t1 :> <<t1>> @@ miss :> <<>> @@ empty :> <<>>
MCPagesOf == "Movies" :> 2 @@ "Series" :> 1
MCCategoryAt == "home" :> "Movies" @@ "series" :> "Series"
MCFirstPage == "Movies" :> {t1} @@ "Series" :> {}
=============================================================================
