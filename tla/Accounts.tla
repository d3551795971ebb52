------------------------------ MODULE Accounts ------------------------------
(***************************************************************************)
(* internal/auth with the repository internal/user under it, and the token *)
(* check of internal/middleware: who there is, and whom a request acts     *)
(* for.  Registrations and logins run concurrently over table users; the   *)
(* tokens they hand out are kept by the clients and name a user and a role *)
(* for as long as they last, whatever the table says by then.              *)
(*                                                                         *)
(* A step is one SQL statement with the local code around it.  The user a  *)
(* registration makes carries a fresh UUID, so the request is its name.    *)
(* The two dummy users have the ids of the configuration.                  *)
(***************************************************************************)
EXTENDS Integers

CONSTANTS
    Requests,     \* the HTTP calls, and the user ids that registrations make
    Addresses,    \* email addresses, in any spelling a body may give them
    NormalEmail,  \* normalizeEmail: lower case, no blanks around
    Passwords,    \* a stored hash is told from another by its password
    Hashable,     \* the passwords of at most 72 bytes
    BcryptKey,    \* the 72 bytes that bcrypt makes of a password and hashes
    DummyId,      \* DUMMY_ADMIN_UUID and DUMMY_USER_UUID
    DummyEmail,   \* dummyUserEmail of the role and that id
    AccessTTL,    \* JWT_ACCESS_TOKEN_TTL
    MaxTime,      \* bound on the clock
    MaxCrashes    \* bound on the exits of the process

Roles    == {"admin", "user"}
DummyIds == {DummyId[role] : role \in Roles}
UserIds  == Requests \cup DummyIds

ASSUME AddressesAssumption ==
    /\ NormalEmail \in [Addresses -> Addresses]
    /\ \A a \in Addresses : NormalEmail[NormalEmail[a]] = NormalEmail[a]
    /\ DummyEmail \in [Roles -> Addresses]
    /\ \A role \in Roles : NormalEmail[DummyEmail[role]] = DummyEmail[role]
    /\ DummyEmail["admin"] # DummyEmail["user"]

ASSUME IdsAssumption ==
    /\ DOMAIN DummyId = Roles
    /\ DummyId["admin"] # DummyId["user"]
    /\ DummyIds \cap Requests = {}

ASSUME PasswordsAssumption ==
    /\ "none" \notin Passwords
    /\ Hashable \subseteq Passwords
    /\ DOMAIN BcryptKey = Passwords

ASSUME BoundsAssumption == AccessTTL \in Nat /\ MaxTime \in Nat /\ MaxCrashes \in Nat

VARIABLES
    now,       \* the clock
    users,     \* table users: one row or NoUser per id
    req,       \* what each request asks for
    pc,        \* the statement it makes next
    result,    \* its answer
    token,     \* the token in that answer
    claims,    \* for a call behind the middleware: whom it acts for
    inflight,  \* requests whose abandoned statement may still be executed
    crashes    \* how often the process has died

vars == <<now, users, req, pc, result, token, claims, inflight, crashes>>

NoUser    == [role |-> "none"]
NoRequest == [op |-> "none"]
NoToken   == [role |-> "none"]
NoClaims  == [role |-> "none"]

(* password_hash is NULL, here "none", for the dummy users.                *)
User   == [email : Addresses, password : Passwords \cup {"none"}, role : Roles]
Token  == [userId : UserIds, role : Roles, exp : Nat]
Claims == [userId : UserIds, role : Roles]

RegisterRequest == [op : {"register"}, email : Addresses, password : Passwords, role : Roles]
LoginRequest    == [op : {"login"}, email : Addresses, password : Passwords]
DummyRequest    == [op : {"dummyLogin"}, role : Roles]
TokenRequest    == [op : {"call"}, from : Requests]

AtService == {"create", "getByEmail", "ensure"}
Refusals  == {"EmailAlreadyExists", "InvalidCredentials", "Unauthorized"}
Results   == Refusals \cup {"none", "Registered", "LoggedIn", "Accepted", "Internal"}

TypeOK ==
    /\ now \in Nat
    /\ users \in [UserIds -> User \cup {NoUser}]
    /\ req \in [Requests -> RegisterRequest \cup LoginRequest \cup DummyRequest
                            \cup TokenRequest \cup {NoRequest}]
    /\ pc \in [Requests -> AtService \cup {"idle", "done", "lost"}]
    /\ result \in [Requests -> Results]
    /\ token \in [Requests -> Token \cup {NoToken}]
    /\ claims \in [Requests -> Claims \cup {NoClaims}]
    /\ inflight \subseteq Requests
    /\ crashes \in Nat

Init ==
    /\ now = 0
    /\ users = [id \in UserIds |-> NoUser]
    /\ req = [r \in Requests |-> NoRequest]
    /\ pc = [r \in Requests |-> "idle"]
    /\ result = [r \in Requests |-> "none"]
    /\ token = [r \in Requests |-> NoToken]
    /\ claims = [r \in Requests |-> NoClaims]
    /\ inflight = {}
    /\ crashes = 0

-----------------------------------------------------------------------------
(* Helpers.                                                                *)

Begin(r, request, next) ==
    /\ pc[r] = "idle"
    /\ req' = [req EXCEPT ![r] = request]
    /\ pc' = [pc EXCEPT ![r] = next]

Answer(r, res) ==
    /\ pc' = [pc EXCEPT ![r] = "done"]
    /\ result' = [result EXCEPT ![r] = res]

(* The client is told 500; the statement may have run, or may run later.   *)
Abandon(r) ==
    /\ inflight' = inflight \cup {r}
    /\ Answer(r, "Internal")

Known(id) == users[id] # NoUser

(* users_email_key.                                                        *)
EmailTaken(email, id) == \E other \in UserIds \ {id} : Known(other) /\ users[other].email = email

(* normalizeEmail.                                                         *)
NormalizedAsGiven(email) == email                                \* defect
Normalized(email) == NormalEmail[email]

(* signToken.                                                              *)
Sign(r, id, role) ==
    token' = [token EXCEPT ![r] = [userId |-> id, role |-> role, exp |-> now + AccessTTL]]

-----------------------------------------------------------------------------
(* POST /register                                                          *)

(* Decoding, normalizing and hashing; bcrypt.GenerateFromPassword refuses  *)
(* passwords that are too long for it.                                     *)
RegisterHandler(r, email, password, role) ==
    /\ password \in Hashable
    /\ Begin(r, [op |-> "register", email |-> Normalized(email), password |-> password,
                 role |-> role], "create")
    /\ UNCHANGED <<now, users, result, token, claims, inflight, crashes>>

RegisterUnhashable(r, email, password, role) ==
    /\ password \notin Hashable
    /\ Begin(r, [op |-> "register", email |-> Normalized(email), password |-> password,
                 role |-> role], "done")
    /\ result' = [result EXCEPT ![r] = "Internal"]
    /\ UNCHANGED <<now, users, token, claims, inflight, crashes>>

NewUser(r) == [email |-> req[r].email, password |-> req[r].password, role |-> req[r].role]

(* Repository.Create: INSERT INTO users.                                   *)
StoreUser(r) == users' = [users EXCEPT ![r] = NewUser(r)]

Create(r) ==
    /\ pc[r] = "create"
    /\ IF EmailTaken(req[r].email, r)
       THEN Answer(r, "EmailAlreadyExists") /\ UNCHANGED users
       ELSE Answer(r, "Registered") /\ StoreUser(r)
    /\ UNCHANGED <<now, req, token, claims, inflight, crashes>>

CreateAbandonedAsConflict(r) ==                                  \* defect
    /\ pc[r] = "create"
    /\ inflight' = inflight \cup {r}
    /\ Answer(r, "EmailAlreadyExists")
    /\ UNCHANGED <<now, users, req, token, claims, crashes>>

CreateAbandoned(r) ==
    /\ pc[r] = "create"
    /\ Abandon(r)
    /\ UNCHANGED <<now, users, req, token, claims, crashes>>

-----------------------------------------------------------------------------
(* POST /login                                                             *)

LoginHandlerAsGiven(r, email, password) ==                       \* defect
    /\ Begin(r, [op |-> "login", email |-> email, password |-> password], "getByEmail")
    /\ UNCHANGED <<now, users, result, token, claims, inflight, crashes>>

LoginHandler(r, email, password) ==
    /\ Begin(r, [op |-> "login", email |-> Normalized(email), password |-> password],
             "getByEmail")
    /\ UNCHANGED <<now, users, result, token, claims, inflight, crashes>>

(* bcrypt.CompareHashAndPassword takes a password of any length and looks  *)
(* at its key only.  A NULL hash matches no password.                      *)
SameHash(stored, password) == BcryptKey[stored] = BcryptKey[password]

MatchesOrEmpty(id, password) ==                                  \* defect
    users[id].password # "none" => SameHash(users[id].password, password)

Matches(id, password) ==
    users[id].password # "none" /\ SameHash(users[id].password, password)

(* Repository.GetByEmail.                                                  *)
ByEmail(email) == {id \in UserIds : Known(id) /\ users[id].email = email}

(* Then the comparison with the hash, and the signature.                   *)
GetByEmail(r) ==
    LET found == ByEmail(req[r].email) IN
    /\ pc[r] = "getByEmail"
    /\ \/ \E id \in found :
             /\ Matches(id, req[r].password)
             /\ Sign(r, id, users[id].role) /\ Answer(r, "LoggedIn")
       \/ /\ \A id \in found : ~Matches(id, req[r].password)
          /\ Answer(r, "InvalidCredentials") /\ UNCHANGED token
       \/ Answer(r, "Internal") /\ UNCHANGED token
    /\ UNCHANGED <<now, users, req, claims, inflight, crashes>>

-----------------------------------------------------------------------------
(* POST /dummyLogin                                                        *)

DummyHandler(r, role) ==
    /\ Begin(r, [op |-> "dummyLogin", role |-> role], "ensure")
    /\ UNCHANGED <<now, users, result, token, claims, inflight, crashes>>

DummyUserWithoutEmail(role) ==                                   \* defect
    [email |-> "", password |-> "none", role |-> role]

DummyUser(role) == [email |-> DummyEmail[role], password |-> "none", role |-> role]

(* Repository.Ensure: INSERT ... ON CONFLICT (id) DO UPDATE.  A row of     *)
(* another id that has the email makes it fail.                            *)
Ensurable(role) == ~EmailTaken(DummyEmail[role], DummyId[role])

StoreDummyUnderOneId(role) ==                                    \* defect
    users' = [users EXCEPT ![DummyId["user"]] = DummyUser(role)]

StoreDummy(role) == users' = [users EXCEPT ![DummyId[role]] = DummyUser(role)]

Ensure(r) ==
    LET role == req[r].role IN
    /\ pc[r] = "ensure"
    /\ \/ /\ Ensurable(role) /\ StoreDummy(role)
          /\ Sign(r, DummyId[role], role) /\ Answer(r, "LoggedIn")
       \/ ~Ensurable(role) /\ Answer(r, "Internal") /\ UNCHANGED <<users, token>>
    /\ UNCHANGED <<now, req, claims, inflight, crashes>>

EnsureAbandonedButSigned(r) ==                                   \* defect
    /\ pc[r] = "ensure"
    /\ inflight' = inflight \cup {r}
    /\ Answer(r, "LoggedIn")
    /\ Sign(r, DummyId[req[r].role], req[r].role)
    /\ UNCHANGED <<now, users, req, claims, crashes>>

EnsureAbandoned(r) ==
    /\ pc[r] = "ensure"
    /\ Abandon(r)
    /\ UNCHANGED <<now, users, req, token, claims, crashes>>

-----------------------------------------------------------------------------
(* middleware.Auth, before any handler of rooms, schedules, slots or       *)
(* bookings: the call brings the token that request t was answered with.   *)

Authenticate(r, t) ==
    /\ token[t] # NoToken
    /\ Begin(r, [op |-> "call", from |-> t], "done")
    /\ IF now < token[t].exp
       THEN /\ result' = [result EXCEPT ![r] = "Accepted"]
            /\ claims' = [claims EXCEPT ![r] = [userId |-> token[t].userId,
                                                role |-> token[t].role]]
       ELSE result' = [result EXCEPT ![r] = "Unauthorized"] /\ UNCHANGED claims
    /\ UNCHANGED <<now, users, token, inflight, crashes>>

-----------------------------------------------------------------------------
(* The surroundings.                                                       *)

(* The server executes a statement whose client is gone.                   *)
ApplyLate(r) ==
    /\ r \in inflight
    /\ inflight' = inflight \ {r}
    /\ \/ /\ req[r].op = "register" /\ ~EmailTaken(req[r].email, r)
          /\ StoreUser(r)
       \/ /\ req[r].op = "dummyLogin" /\ Ensurable(req[r].role)
          /\ StoreDummy(req[r].role)
    /\ UNCHANGED <<now, req, pc, result, token, claims, crashes>>

DropLate(r) ==
    /\ r \in inflight
    /\ inflight' = inflight \ {r}
    /\ UNCHANGED <<now, users, req, pc, result, token, claims, crashes>>

(* The process dies; its successor has the same secret.                    *)
Crash ==
    /\ crashes < MaxCrashes
    /\ \E r \in Requests : pc[r] \in AtService
    /\ crashes' = crashes + 1
    /\ pc' = [r \in Requests |-> IF pc[r] \in AtService THEN "lost" ELSE pc[r]]
    /\ inflight' = inflight \cup {r \in Requests : pc[r] \in {"create", "ensure"}}
    /\ UNCHANGED <<now, users, req, result, token, claims>>

Tick ==
    /\ now < MaxTime
    /\ now' = now + 1
    /\ UNCHANGED <<users, req, pc, result, token, claims, inflight, crashes>>

(* Every bounded input is used up.                                         *)
Quiescent ==
    /\ \A r \in Requests : pc[r] \in {"done", "lost"}
    /\ inflight = {}
    /\ UNCHANGED vars

Next ==
    \/ \E r \in Requests :
          \/ \E email \in Addresses, password \in Passwords, role \in Roles :
                \/ RegisterHandler(r, email, password, role)
                \/ RegisterUnhashable(r, email, password, role)
          \/ \E email \in Addresses, password \in Passwords : LoginHandler(r, email, password)
          \/ \E role \in Roles : DummyHandler(r, role)
          \/ \E t \in Requests : Authenticate(r, t)
          \/ Create(r) \/ CreateAbandoned(r) \/ GetByEmail(r) \/ Ensure(r) \/ EnsureAbandoned(r)
          \/ ApplyLate(r) \/ DropLate(r)
    \/ Crash \/ Tick \/ Quiescent

Spec == Init /\ [][Next]_vars

-----------------------------------------------------------------------------
(* Properties.                                                             *)

(* No two accounts for one mailbox, however its address was spelled:       *)
(* users_email_key decides between registrations, late ones and the dummy  *)
(* users', and works because all of them normalize first.                  *)
OneAccountPerAddress ==
    \A i, j \in UserIds :
        /\ Known(i) /\ Known(j)
        /\ NormalEmail[users[i].email] = NormalEmail[users[j].email]
        => i = j

(* A registration refused because of its email stored nothing and never    *)
(* will, so the client may try another password or go to the login.        *)
RefusedIsNotRegistered ==
    \A r \in Requests : result[r] = "EmailAlreadyExists" => ~Known(r) /\ r \notin inflight

(* A token, and the claims that a handler is given, name a row of users    *)
(* with that role, however old they are: the foreign key of bookings never *)
(* refuses an authenticated caller, and no role is acted in that the       *)
(* account has not.                                                        *)
IdentitiesAreReal ==
    \A r \in Requests : \A id \in {token[r], claims[r]} :
        id.role # "none" => Known(id.userId) /\ users[id.userId].role = id.role

(* A login's token is for the account with that address, and the password  *)
(* it gave is the account's as far as bcrypt hashes it; an account without *)
(* a password, a dummy user's, is reached by /dummyLogin only.             *)
LoginNeedsPassword ==
    \A r \in Requests : req[r].op = "login" /\ result[r] = "LoggedIn" =>
        /\ users[token[r].userId].email = req[r].email
        /\ users[token[r].userId].password # "none"
        /\ BcryptKey[users[token[r].userId].password] = BcryptKey[req[r].password]

(* Whoever was answered 201 can log in from then on, in any spelling of    *)
(* the address: the login is not refused.                                  *)
RegisteredCanLogIn ==
    [][\A r, l \in Requests :
         /\ result[r] = "Registered" /\ pc[l] = "getByEmail"
         /\ req[l].password = req[r].password
         /\ NormalEmail[req[l].email] = NormalEmail[req[r].email]
         => result'[l] # "InvalidCredentials"]_vars

(* An account keeps its email, password and role; the upsert of a dummy    *)
(* user finds the row as it will leave it.                                 *)
AccountsAreStable ==
    [][\A id \in UserIds : Known(id) => users'[id] = users[id]]_vars
=============================================================================
