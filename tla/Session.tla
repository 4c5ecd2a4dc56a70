------------------------------ MODULE Session ------------------------------
(***************************************************************************)
(* Who is signed in, in the browser: the AuthContext of the viewer front   *)
(* end and that of the admin dashboard, which share the localStorage of    *)
(* their origin ("Check for existing token from main app"), the sign-in,   *)
(* registration and profile pages, and the routes they guard.              *)
(*                                                                         *)
(* One tab runs the viewer, another may run the admin dashboard.  Storage  *)
(* is shared, React state is not: a tab learns what another one did only   *)
(* when it is loaded again.  A token stands for the user it names.         *)
(***************************************************************************)
EXTENDS ViewerData

CONSTANTS
    User,
    OwnerOf,                  \* OwnerOf[p]: the user a profile belongs to
    MaxInputs                 \* bound on what the viewer does, in all

ASSUME SessionAssumption ==
    /\ OwnerOf \in [Profile -> User]
    /\ None \notin User \cup Profile
    /\ MaxInputs \in Nat

VARIABLES
    storage,    \* localStorage: token, userId (with username), activeProfile
    auth,       \* AuthContext of the viewer tab: user, activeProfile
    admin,      \* user of the admin tab's AuthContext, None: not open
    accounts,   \* users auth-service knows
    logins,     \* sign-in requests in flight
    registers,  \* registration requests in flight, by name
    form,       \* whose request the form now shown waits for, or None
    route,      \* "login", "register", "profiles" or a page of MainApp
    orderly,    \* history: every session but the last was signed out of
    inputs      \* number of things the viewer did

browser == <<storage, auth, admin>>
server == <<accounts, logins, registers, form>>
sessionVars == <<browser, server, route, orderly, inputs>>

MainPage == {"home", "series", "search", "mylist", "plans"}
Nobody == [user |-> None, profile |-> None]

(* Types; a tab without a user has no profile.                             *)
SessionTypeOK ==
    /\ storage \in [token : User \cup {None}, userId : User \cup {None},
                    profile : Profile \cup {None}]
    /\ auth \in [user : User \cup {None}, profile : Profile \cup {None}]
    /\ auth.user = None => auth.profile = None
    /\ admin \in User \cup {None}
    /\ accounts \subseteq User /\ logins \subseteq User /\ registers \subseteq User
    /\ form \in User \cup {None}
    /\ route \in MainPage \cup {"login", "register", "profiles"}
    /\ orderly \in BOOLEAN /\ inputs \in 0..MaxInputs

(* The two ProtectedRoutes: where a visit to r ends for this user.         *)
Landing(a, r) ==
    IF r \in {"login", "register"} THEN r
    ELSE IF a.user = None THEN "login"
    ELSE IF r # "profiles" /\ a.profile = None THEN "profiles"
    ELSE r

(* AuthProvider on load: user and profile come back only with a token.     *)
Restored ==
    IF storage.token = None THEN Nobody
    ELSE [user |-> storage.userId, profile |-> storage.profile]

(* The tab is opened, by somebody new or with a session that was left.     *)
SessionInit ==
    /\ accounts \in SUBSET User
    /\ storage \in [token : accounts \cup {None}, userId : accounts \cup {None},
                    profile : Profile \cup {None}]
    /\ storage.userId = storage.token
    /\ storage.profile # None => OwnerOf[storage.profile] = storage.token
    /\ auth = Restored /\ admin = None
    /\ logins = {} /\ registers = {} /\ form = None
    /\ route = Landing(auth, "home") /\ orderly = TRUE /\ inputs = 0

Input == inputs < MaxInputs /\ inputs' = inputs + 1

-----------------------------------------------------------------------------
(* The address changes: the page shown before, with its form, is gone.     *)
GoTo(r) ==
    /\ route' = r
    /\ form' = IF r = route THEN form ELSE None

(* Sign-in and registration pages: the button is disabled while a request  *)
(* of this form is in flight; one of an earlier visit may be, too.         *)
SubmitLogin(u) ==
    /\ route = "login" /\ form = None /\ u \notin logins
    /\ Input
    /\ logins' = logins \cup {u} /\ form' = u
    /\ UNCHANGED <<browser, accounts, registers, route, orderly>>

(* login: token, user id and name are stored, activeProfile is left as it  *)
(* is; then the page navigates home, even if it is no longer shown.        *)
LoginSucceeds(u) ==
    /\ u \in logins /\ u \in accounts
    /\ logins' = logins \ {u}
    /\ storage' = [storage EXCEPT !.token = u, !.userId = u]
    /\ auth' = [auth EXCEPT !.user = u]
    /\ GoTo(Landing(auth', "home"))
    /\ orderly' = (orderly /\ {storage.token, auth.user} \subseteq {None, u})
    /\ UNCHANGED <<admin, accounts, registers, inputs>>

(* "User not found", a wrong password or a lost answer: an error message.  *)
LoginFails(u) ==
    /\ u \in logins
    /\ logins' = logins \ {u}
    /\ form' = IF form = u THEN None ELSE form
    /\ UNCHANGED <<browser, accounts, registers, route, orderly, inputs>>

SubmitRegister(u) ==
    /\ route = "register" /\ form = None /\ u \notin registers
    /\ Input
    /\ registers' = registers \cup {u} /\ form' = u
    /\ UNCHANGED <<browser, accounts, logins, route, orderly>>

(* Created, and the page moves to /login.                                  *)
RegisterSucceeds(u) ==
    /\ u \in registers \ accounts
    /\ registers' = registers \ {u}
    /\ accounts' = accounts \cup {u}
    /\ GoTo("login")
    /\ UNCHANGED <<browser, logins, orderly, inputs>>

(* "User already exists", or the request or its answer is lost.            *)
RegisterFails(u) ==
    /\ u \in registers
    /\ registers' = registers \ {u}
    /\ accounts' \in {accounts, accounts \cup {u}}
    /\ form' = IF form = u THEN None ELSE form
    /\ UNCHANGED <<browser, logins, route, orderly, inputs>>

(* ProfileSelection: pick one of the profiles of the user.                 *)
SelectProfile(p) ==
    /\ route = "profiles" /\ OwnerOf[p] = auth.user
    /\ Input
    /\ auth' = [auth EXCEPT !.profile = p]
    /\ storage' = [storage EXCEPT !.profile = p]
    /\ GoTo(Landing(auth', "home"))
    /\ UNCHANGED <<admin, accounts, logins, registers, orderly>>

(* Faulty: the profile outlives the session in storage.                    *)
LogoutKeepsProfile ==
    /\ route \in MainPage
    /\ Input
    /\ storage' = [storage EXCEPT !.token = None, !.userId = None]
    /\ auth' = Nobody
    /\ GoTo(Landing(auth', route))
    /\ UNCHANGED <<admin, accounts, logins, registers, orderly>>

(* "Sign Out" in the header.                                               *)
Logout ==
    /\ route \in MainPage
    /\ Input
    /\ storage' = [token |-> None, userId |-> None, profile |-> None]
    /\ auth' = Nobody
    /\ GoTo(Landing(auth', route))
    /\ UNCHANGED <<admin, accounts, logins, registers, orderly>>

(* A link of the header or an address without a reload; MainApp has links  *)
(* everywhere, the other pages to each other only.                         *)
Navigate(r) ==
    /\ r # route
    /\ \/ route \in MainPage /\ r \in MainPage \cup {"profiles"}
       \/ {route, r} = {"login", "register"}
    /\ Input
    /\ GoTo(Landing(auth, r))
    /\ UNCHANGED <<browser, accounts, logins, registers, orderly>>

(* The tab is loaded again, at any address; requests in flight are gone.   *)
Reload(r) ==
    /\ Input
    /\ auth' = Restored
    /\ route' = Landing(auth', r)
    /\ logins' = {} /\ registers' = {} /\ form' = None
    /\ UNCHANGED <<storage, admin, accounts, orderly>>

-----------------------------------------------------------------------------
(* "Admin Dashboard" opens with whatever token is stored.                  *)
OpenAdmin ==
    /\ admin = None /\ storage.token # None
    /\ Input
    /\ admin' = storage.userId
    /\ UNCHANGED <<storage, auth, server, route, orderly>>

(* Logout of the admin dashboard: storage is cleared, the viewer tab shows *)
(* its user until it is loaded again.                                      *)
AdminLogout ==
    /\ admin # None
    /\ Input
    /\ storage' = [token |-> None, userId |-> None, profile |-> None]
    /\ admin' = None
    /\ orderly' = (orderly /\ auth.user = None)
    /\ UNCHANGED <<auth, server, route>>

(* A request of the admin dashboard is answered 401, because the token has *)
(* expired or another tab removed it: the token alone is removed.          *)
AdminUnauthorized ==
    /\ admin # None
    /\ Input
    /\ storage' = [storage EXCEPT !.token = None]
    /\ admin' = None
    /\ orderly' = FALSE
    /\ UNCHANGED <<auth, server, route>>

SignInPages ==
    \E u \in User :
       \/ SubmitLogin(u) \/ LoginSucceeds(u) \/ LoginFails(u)
       \/ SubmitRegister(u) \/ RegisterSucceeds(u) \/ RegisterFails(u)
AdminTab == OpenAdmin \/ AdminLogout \/ AdminUnauthorized

-----------------------------------------------------------------------------
(* Nobody watches with the profile of another user: as long as every       *)
(* session is signed out of in the viewer tab before the next one starts,  *)
(* profile and user agree, in the tab and in storage, whatever was in      *)
(* flight or reloaded (AuthContext.jsx:60-67; login, lines 31-53, does not *)
(* clear the profile that another session has left).                       *)
ProfileOfUser ==
    orderly =>
       /\ auth.profile # None => OwnerOf[auth.profile] = auth.user
       /\ storage.profile # None => OwnerOf[storage.profile] = storage.userId
=============================================================================
