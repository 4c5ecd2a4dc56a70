---------------------------- MODULE MCAdminPages ----------------------------
(* AdminPages for TLC: two files, one of them a trailer, and two polls in  *)
(* flight.                                                                 *)
EXTENDS AdminPages

MoviesThenAnime == <<"Movies", "Anime">>
=============================================================================
