--------------------------- MODULE AccountsProofs ---------------------------
(***************************************************************************)
(* Proofs about Accounts, for any number of requests, addresses and        *)
(* passwords, any lifetime of tokens, any number of crashes and a clock of *)
(* any range.                                                              *)
(***************************************************************************)
EXTENDS Accounts, TLAPS

-----------------------------------------------------------------------------
(* The inductive invariant.                                                *)

(* What a request asks for goes with where its handler is; only statements *)
(* without an answer are on their way.                                     *)
ControlInv ==
    \A r \in Requests :
        /\ pc[r] = "idle" <=> req[r].op = "none"
        /\ pc[r] = "create" => req[r].op = "register"
        /\ pc[r] = "getByEmail" => req[r].op = "login"
        /\ pc[r] = "ensure" => req[r].op = "dummyLogin"
        /\ pc[r] # "done" => result[r] = "none"
        /\ result[r] \in {"Registered", "EmailAlreadyExists"} => req[r].op = "register"
        /\ r \in inflight => /\ req[r].op \in {"register", "dummyLogin"}
                             /\ pc[r] \in {"done", "lost"}
                             /\ result[r] \in {"none", "Internal"}

(* The addresses that reach a statement are normalized.                    *)
NormalInv ==
    \A r \in Requests :
        req[r].op \in {"register", "login"} => NormalEmail[req[r].email] = req[r].email

(* Every row is what the registration of its id, or the configuration,     *)
(* says; a registration has one from its INSERT on and not before.         *)
RowInv ==
    /\ \A r \in Requests : Known(r) =>
           /\ req[r].op = "register" /\ users[r] = NewUser(r)
           /\ pc[r] \in {"done", "lost"} /\ r \notin inflight
           /\ result[r] # "EmailAlreadyExists"
    /\ \A r \in Requests : result[r] = "Registered" => Known(r)
    /\ \A role \in Roles : Known(DummyId[role]) => users[DummyId[role]] = DummyUser(role)

(* Who logged in has a token.                                              *)
TokenInv ==
    \A r \in Requests : result[r] = "LoggedIn" <=> token[r].role # "none"

Inv ==
    /\ TypeOK
    /\ ControlInv
    /\ TokenInv
    /\ NormalInv
    /\ RowInv
    /\ OneAccountPerAddress
    /\ IdentitiesAreReal
    /\ LoginNeedsPassword

-----------------------------------------------------------------------------
(* The ids of the dummy users and of the registrations are apart.          *)
LEMMA Ids ==
    /\ \A role \in Roles : DummyId[role] \in UserIds /\ DummyId[role] \notin Requests
    /\ Requests \subseteq UserIds
    /\ \A id \in UserIds : id \in Requests \/ \E role \in Roles : id = DummyId[role]
    /\ \A a, b \in Roles : DummyId[a] = DummyId[b] => a = b
  BY IdsAssumption DEF UserIds, DummyIds, Roles

(* The fields that a request has, by its kind.                             *)
LEMMA Fields ==
    ASSUME TypeOK, NEW r \in Requests
    PROVE  /\ req[r].op \in {"register", "login", "dummyLogin", "call", "none"}
           /\ req[r].op = "register" => req[r] \in RegisterRequest
           /\ req[r].op = "login" => req[r] \in LoginRequest
           /\ req[r].op = "dummyLogin" => req[r] \in DummyRequest
  BY DEF TypeOK, RegisterRequest, LoginRequest, DummyRequest, TokenRequest, NoRequest

(* The rows that the two INSERTs write.                                    *)
LEMMA RowTypes ==
    ASSUME TypeOK
    PROVE  /\ \A r \in Requests : req[r].op = "register" => NewUser(r) \in User
           /\ \A role \in Roles : DummyUser(role) \in User
  <1>1. ASSUME NEW r \in Requests, req[r].op = "register" PROVE NewUser(r) \in User
    BY <1>1, Fields DEF NewUser, User, RegisterRequest
  <1>2. ASSUME NEW role \in Roles PROVE DummyUser(role) \in User
    BY AddressesAssumption DEF DummyUser, User
  <1> QED BY <1>1, <1>2

(* Whoever is stored has all the columns of a row.                         *)
LEMMA KnownIsUser ==
    ASSUME TypeOK, NEW id \in UserIds
    PROVE  Known(id) <=> users[id] \in User
  BY DEF TypeOK, Known, User, NoUser, Roles

-----------------------------------------------------------------------------
(* Types and control.                                                      *)

(* Each action moves one request along its path.                          *)
LEMMA ControlStep ==
    ASSUME Inv, [Next]_vars
    PROVE  ControlInv'
  <1> USE DEF Inv, TypeOK, ControlInv, AtService
  <1>1. ASSUME NEW r \in Requests, NEW email \in Addresses, NEW password \in Passwords, NEW role \in Roles,
               RegisterHandler(r, email, password, role)
        PROVE  ControlInv'
    BY <1>1 DEF RegisterHandler, Begin, Normalized
  <1>2. ASSUME NEW r \in Requests, NEW email \in Addresses, NEW password \in Passwords, NEW role \in Roles,
               RegisterUnhashable(r, email, password, role)
        PROVE  ControlInv'
    BY <1>2 DEF RegisterUnhashable, Begin, Normalized
  <1>3. ASSUME NEW r \in Requests, NEW email \in Addresses, NEW password \in Passwords,
               LoginHandler(r, email, password)
        PROVE  ControlInv'
    BY <1>3 DEF LoginHandler, Begin, Normalized
  <1>4. ASSUME NEW r \in Requests, NEW role \in Roles, DummyHandler(r, role)
        PROVE  ControlInv'
    BY <1>4 DEF DummyHandler, Begin
  <1>5. ASSUME NEW r \in Requests, NEW t \in Requests, Authenticate(r, t)
        PROVE  ControlInv'
    BY <1>5 DEF Authenticate, Begin
  <1>6. ASSUME NEW r \in Requests, Create(r)
        PROVE  ControlInv'
    BY <1>6 DEF Create, Answer, StoreUser, NewUser
  <1>7. ASSUME NEW r \in Requests, CreateAbandoned(r)
        PROVE  ControlInv'
    BY <1>7 DEF CreateAbandoned, Abandon, Answer
  <1>8. ASSUME NEW r \in Requests, GetByEmail(r)
        PROVE  ControlInv'
    BY <1>8 DEF GetByEmail, ByEmail, Answer, Sign
  <1>9. ASSUME NEW r \in Requests, Ensure(r)
        PROVE  ControlInv'
    BY <1>9 DEF Ensure, Answer, Sign, StoreDummy, DummyUser
  <1>10. ASSUME NEW r \in Requests, EnsureAbandoned(r)
        PROVE  ControlInv'
    BY <1>10 DEF EnsureAbandoned, Abandon, Answer
  <1>11. ASSUME NEW r \in Requests, ApplyLate(r)
        PROVE  ControlInv'
    BY <1>11 DEF ApplyLate, StoreUser, NewUser, StoreDummy, DummyUser
  <1>12. ASSUME NEW r \in Requests, DropLate(r)
        PROVE  ControlInv'
    BY <1>12 DEF DropLate
  <1>13. CASE Crash
    BY <1>13 DEF Crash
  <1>14. CASE Tick
    BY <1>14 DEF Tick
  <1>15. CASE UNCHANGED vars
    BY <1>15 DEF vars
  <1> QED
    BY <1>1, <1>2, <1>3, <1>4, <1>5, <1>6, <1>7, <1>8,
       <1>9, <1>10, <1>11, <1>12, <1>13, <1>14, <1>15 DEF Next, Quiescent

(* Both handlers normalize before anything else.                          *)
LEMMA NormalStep ==
    ASSUME Inv, [Next]_vars
    PROVE  NormalInv'
  <1> USE AddressesAssumption DEF Inv, TypeOK, NormalInv, ControlInv
  <1>1. ASSUME NEW r \in Requests, NEW email \in Addresses, NEW password \in Passwords, NEW role \in Roles,
               RegisterHandler(r, email, password, role)
        PROVE  NormalInv'
    BY <1>1 DEF RegisterHandler, Begin, Normalized
  <1>2. ASSUME NEW r \in Requests, NEW email \in Addresses, NEW password \in Passwords, NEW role \in Roles,
               RegisterUnhashable(r, email, password, role)
        PROVE  NormalInv'
    BY <1>2 DEF RegisterUnhashable, Begin, Normalized
  <1>3. ASSUME NEW r \in Requests, NEW email \in Addresses, NEW password \in Passwords,
               LoginHandler(r, email, password)
        PROVE  NormalInv'
    BY <1>3 DEF LoginHandler, Begin, Normalized
  <1>4. ASSUME NEW r \in Requests, NEW role \in Roles, DummyHandler(r, role)
        PROVE  NormalInv'
    BY <1>4 DEF DummyHandler, Begin
  <1>5. ASSUME NEW r \in Requests, NEW t \in Requests, Authenticate(r, t)
        PROVE  NormalInv'
    BY <1>5 DEF Authenticate, Begin
  <1>6. ASSUME NEW r \in Requests, Create(r)
        PROVE  NormalInv'
    BY <1>6 DEF Create, Answer, StoreUser, NewUser
  <1>7. ASSUME NEW r \in Requests, CreateAbandoned(r)
        PROVE  NormalInv'
    BY <1>7 DEF CreateAbandoned, Abandon, Answer
  <1>8. ASSUME NEW r \in Requests, GetByEmail(r)
        PROVE  NormalInv'
    BY <1>8 DEF GetByEmail, ByEmail, Answer, Sign
  <1>9. ASSUME NEW r \in Requests, Ensure(r)
        PROVE  NormalInv'
    BY <1>9 DEF Ensure, Answer, Sign, StoreDummy, DummyUser
  <1>10. ASSUME NEW r \in Requests, EnsureAbandoned(r)
        PROVE  NormalInv'
    BY <1>10 DEF EnsureAbandoned, Abandon, Answer
  <1>11. ASSUME NEW r \in Requests, ApplyLate(r)
        PROVE  NormalInv'
    BY <1>11 DEF ApplyLate, StoreUser, NewUser, StoreDummy, DummyUser
  <1>12. ASSUME NEW r \in Requests, DropLate(r)
        PROVE  NormalInv'
    BY <1>12 DEF DropLate
  <1>13. CASE Crash
    BY <1>13 DEF Crash
  <1>14. CASE Tick
    BY <1>14 DEF Tick
  <1>15. CASE UNCHANGED vars
    BY <1>15 DEF vars
  <1> QED
    BY <1>1, <1>2, <1>3, <1>4, <1>5, <1>6, <1>7, <1>8,
       <1>9, <1>10, <1>11, <1>12, <1>13, <1>14, <1>15 DEF Next, Quiescent

(* A step keeps the types.                                                 *)
LEMMA TypeStep ==
    ASSUME Inv, [Next]_vars
    PROVE  TypeOK'
  <1> USE DEF Inv, TypeOK, AtService, Results, Refusals
  <1>1. ASSUME NEW r \in Requests, NEW email \in Addresses, NEW password \in Passwords,
               NEW role \in Roles,
               RegisterHandler(r, email, password, role) \/ RegisterUnhashable(r, email, password, role)
        PROVE  TypeOK'
    <2>1. [op |-> "register", email |-> Normalized(email), password |-> password, role |-> role]
              \in RegisterRequest
      BY AddressesAssumption DEF Normalized, RegisterRequest
    <2> QED BY <1>1, <2>1 DEF RegisterHandler, RegisterUnhashable, Begin
  <1>2. ASSUME NEW r \in Requests, NEW email \in Addresses, NEW password \in Passwords,
               LoginHandler(r, email, password)
        PROVE  TypeOK'
    <2>1. [op |-> "login", email |-> Normalized(email), password |-> password] \in LoginRequest
      BY AddressesAssumption DEF Normalized, LoginRequest
    <2> QED BY <1>2, <2>1 DEF LoginHandler, Begin
  <1>3. ASSUME NEW r \in Requests, NEW role \in Roles, DummyHandler(r, role)
        PROVE  TypeOK'
    BY <1>3 DEF DummyHandler, Begin, DummyRequest
  <1>4. ASSUME NEW r \in Requests, NEW t \in Requests, Authenticate(r, t)
        PROVE  TypeOK'
    <2>1. token[t] \in Token
      BY <1>4 DEF Authenticate
    <2>2. [userId |-> token[t].userId, role |-> token[t].role] \in Claims
      BY <2>1 DEF Token, Claims
    <2>3. [op |-> "call", from |-> t] \in TokenRequest
      BY DEF TokenRequest
    <2> QED BY <1>4, <2>2, <2>3 DEF Authenticate, Begin
  <1>5. ASSUME NEW r \in Requests, Create(r) PROVE TypeOK'
    <2>1. NewUser(r) \in User
      BY <1>5, RowTypes DEF Create, ControlInv
    <2> QED BY <1>5, <2>1, Ids DEF Create, Answer, StoreUser
  <1>6. ASSUME NEW r \in Requests, CreateAbandoned(r) PROVE TypeOK'
    BY <1>6 DEF CreateAbandoned, Abandon, Answer
  <1>7. ASSUME NEW r \in Requests, GetByEmail(r) PROVE TypeOK'
    <2>1. ASSUME NEW id \in UserIds, Known(id), Sign(r, id, users[id].role)
          PROVE  token' \in [Requests -> Token \cup {NoToken}]
      <3>1. users[id].role \in Roles
        BY <2>1, KnownIsUser DEF User
      <3>2. [userId |-> id, role |-> users[id].role, exp |-> now + AccessTTL] \in Token
        BY <3>1, BoundsAssumption DEF Token
      <3> QED BY <2>1, <3>2 DEF Sign
    <2>2. token' \in [Requests -> Token \cup {NoToken}]
      BY <1>7, <2>1 DEF GetByEmail, ByEmail
    <2> QED BY <1>7, <2>2 DEF GetByEmail, ByEmail, Answer
  <1>8. ASSUME NEW r \in Requests, Ensure(r) PROVE TypeOK'
    <2>1. req[r].role \in Roles
      BY <1>8, Fields DEF Ensure, ControlInv, DummyRequest
    <2>2. DummyUser(req[r].role) \in User
      BY <2>1, RowTypes
    <2>3. [userId |-> DummyId[req[r].role], role |-> req[r].role, exp |-> now + AccessTTL] \in Token
      BY <2>1, Ids, BoundsAssumption DEF Token
    <2> QED BY <1>8, <2>1, <2>2, <2>3 DEF Ensure, Answer, StoreDummy, Sign
  <1>9. ASSUME NEW r \in Requests, EnsureAbandoned(r) PROVE TypeOK'
    BY <1>9 DEF EnsureAbandoned, Abandon, Answer
  <1>10. ASSUME NEW r \in Requests, ApplyLate(r) PROVE TypeOK'
    <2>1. CASE req[r].op = "register"
      BY <1>10, <2>1, RowTypes DEF ApplyLate, StoreUser
    <2>2. CASE req[r].op = "dummyLogin"
      <3>1. req[r].role \in Roles
        BY <2>2, Fields DEF DummyRequest
      <3> QED BY <1>10, <2>2, <3>1, RowTypes DEF ApplyLate, StoreDummy
    <2> QED BY <1>10, <2>1, <2>2 DEF ApplyLate
  <1>11. ASSUME NEW r \in Requests, DropLate(r) PROVE TypeOK'
    BY <1>11 DEF DropLate
  <1>12. CASE Crash
    BY <1>12 DEF Crash
  <1>13. CASE Tick
    BY <1>13 DEF Tick
  <1>14. CASE UNCHANGED vars
    BY <1>14 DEF vars
  <1> QED
    BY <1>1, <1>2, <1>3, <1>4, <1>5, <1>6, <1>7, <1>8, <1>9, <1>10, <1>11,
       <1>12, <1>13, <1>14 DEF Next, Quiescent

-----------------------------------------------------------------------------
(* The table.                                                              *)

(* Registration r stores its row: at once, or by its late INSERT.          *)
Registers(r) ==
    /\ req[r].op = "register" /\ ~EmailTaken(req[r].email, r)
    /\ StoreUser(r)
    /\ \/ pc[r] = "create" /\ result'[r] = "Registered"
       \/ r \in inflight /\ r \notin inflight' /\ result'[r] = result[r]
    /\ req' = req /\ pc'[r] \in {"done", "lost"} /\ r \notin inflight'
    /\ \A s \in Requests \ {r} : pc'[s] = pc[s] /\ result'[s] = result[s]
    /\ inflight' \subseteq inflight

(* The table changes in two ways only, each on an address nobody else has. *)
LEMMA TableStep ==
    ASSUME Inv, [Next]_vars
    PROVE  \/ UNCHANGED users
           \/ \E r \in Requests : Registers(r)
           \/ \E role \in Roles : Ensurable(role) /\ StoreDummy(role)
  <1> USE DEF Inv, TypeOK, ControlInv
  <1>1. ASSUME NEW r \in Requests, Create(r)
        PROVE  UNCHANGED users \/ Registers(r)
    BY <1>1 DEF Create, Answer, Registers
  <1>2. ASSUME NEW r \in Requests, Ensure(r)
        PROVE  UNCHANGED users \/ \E role \in Roles : Ensurable(role) /\ StoreDummy(role)
    BY <1>2, Fields DEF Ensure, DummyRequest
  <1>3. ASSUME NEW r \in Requests, ApplyLate(r)
        PROVE  \/ Registers(r)
               \/ \E role \in Roles : Ensurable(role) /\ StoreDummy(role)
    <2>1. CASE req[r].op = "register"
      BY <1>3, <2>1 DEF ApplyLate, Registers
    <2>2. CASE req[r].op = "dummyLogin"
      BY <1>3, <2>2, Fields DEF ApplyLate, DummyRequest
    <2> QED BY <1>3, <2>1, <2>2 DEF ApplyLate
  <1> QED
    BY <1>1, <1>2, <1>3 DEF Next, Quiescent, vars, RegisterHandler, RegisterUnhashable,
       LoginHandler, DummyHandler, Authenticate, CreateAbandoned, GetByEmail, ByEmail,
       EnsureAbandoned, DropLate, Crash, Tick

(* A stored row is what its own INSERT would write again.                  *)
LEMMA RowsStable ==
    ASSUME Inv, [Next]_vars, NEW id \in UserIds, Known(id)
    PROVE  users'[id] = users[id]
  <1> USE DEF Inv, TypeOK, RowInv
  <1>1. ASSUME NEW r \in Requests, Registers(r) PROVE users'[id] = users[id]
    BY <1>1, Ids DEF Registers, StoreUser
  <1>2. ASSUME NEW role \in Roles, StoreDummy(role) PROVE users'[id] = users[id]
    BY <1>2, Ids DEF StoreDummy
  <1> QED BY <1>1, <1>2, TableStep
(* A request that got its answer, or was lost, is not heard of again, and  *)
(* its late statement is not made twice.                                   *)
LEMMA SettledStep ==
    ASSUME Inv, [Next]_vars, NEW r \in Requests, pc[r] \in {"done", "lost"}
    PROVE  /\ pc'[r] = pc[r] /\ result'[r] = result[r]
           /\ r \notin inflight => r \notin inflight'
  <1> USE DEF Inv, TypeOK, ControlInv, AtService
  <1>1. ASSUME NEW q \in Requests, NEW email \in Addresses, NEW password \in Passwords,
               NEW role \in Roles,
               \/ RegisterHandler(q, email, password, role)
               \/ RegisterUnhashable(q, email, password, role)
        PROVE  pc'[r] = pc[r] /\ result'[r] = result[r] /\ inflight' = inflight
    BY <1>1 DEF RegisterHandler, RegisterUnhashable, Begin
  <1>2. ASSUME NEW q \in Requests, NEW t \in Requests, Authenticate(q, t)
        PROVE  pc'[r] = pc[r] /\ result'[r] = result[r] /\ inflight' = inflight
    BY <1>2 DEF Authenticate, Begin
  <1>3. ASSUME NEW q \in Requests, Create(q) \/ GetByEmail(q) \/ Ensure(q)
        PROVE  pc'[r] = pc[r] /\ result'[r] = result[r] /\ inflight' = inflight
    BY <1>3 DEF Create, GetByEmail, ByEmail, Ensure, Answer
  <1>4. ASSUME NEW q \in Requests, CreateAbandoned(q) \/ EnsureAbandoned(q)
        PROVE  pc'[r] = pc[r] /\ result'[r] = result[r] /\ inflight' = inflight \cup {q} /\ q # r
    BY <1>4 DEF CreateAbandoned, EnsureAbandoned, Abandon, Answer
  <1>5. ASSUME NEW q \in Requests, ApplyLate(q) \/ DropLate(q)
        PROVE  pc'[r] = pc[r] /\ result'[r] = result[r] /\ inflight' \subseteq inflight
    BY <1>5 DEF ApplyLate, DropLate
  <1>6. CASE Crash
    BY <1>6 DEF Crash
  <1>7. CASE Tick \/ UNCHANGED vars
    BY <1>7 DEF Tick, vars
  <1>8. ASSUME NEW q \in Requests, NEW email \in Addresses, NEW password \in Passwords,
               LoginHandler(q, email, password)
        PROVE  pc'[r] = pc[r] /\ result'[r] = result[r] /\ inflight' = inflight
    BY <1>8 DEF LoginHandler, Begin
  <1>9. ASSUME NEW q \in Requests, NEW role \in Roles, DummyHandler(q, role)
        PROVE  pc'[r] = pc[r] /\ result'[r] = result[r] /\ inflight' = inflight
    BY <1>9 DEF DummyHandler, Begin
  <1> QED
    BY <1>1, <1>2, <1>3, <1>4, <1>5, <1>6, <1>7, <1>8, <1>9 DEF Next, Quiescent

(* A request keeps what it asks for.                                       *)
LEMMA RequestKept ==
    ASSUME Inv, [Next]_vars, NEW r \in Requests, pc[r] # "idle"
    PROVE  req'[r] = req[r]
  BY DEF Inv, TypeOK, Next, Quiescent, vars, Begin, RegisterHandler, RegisterUnhashable,
       LoginHandler, DummyHandler, Authenticate, Create, CreateAbandoned, GetByEmail, ByEmail, Ensure,
       EnsureAbandoned, ApplyLate, DropLate, Crash, Tick

(* The answer 201 is that of an INSERT that stored its row.                *)
LEMMA NewlyRegistered ==
    ASSUME Inv, [Next]_vars, NEW r \in Requests,
           result'[r] = "Registered", result[r] # "Registered"
    PROVE  Registers(r)
  BY DEF Inv, TypeOK, ControlInv, Registers, Next, Quiescent, vars, Begin, Answer, Abandon,
       RegisterHandler, RegisterUnhashable, LoginHandler, DummyHandler, Authenticate, Create,
       CreateAbandoned, GetByEmail, ByEmail, Ensure, EnsureAbandoned, ApplyLate, DropLate, Crash, Tick

(* Nobody becomes known but by one of the two INSERTs, and a request that  *)
(* does not register keeps its part of RowInv.                             *)
LEMMA RowStep ==
    ASSUME Inv, [Next]_vars
    PROVE  RowInv'
  <1> USE DEF Inv, TypeOK
  <1>1. ASSUME NEW r \in Requests, Known(r)'
        PROVE  (/\ req[r].op = "register" /\ users[r] = NewUser(r)
                /\ pc[r] \in {"done", "lost"} /\ r \notin inflight
                /\ result[r] # "EmailAlreadyExists")'
    <2>1. CASE Known(r)
      <3>1. users'[r] = users[r]
        BY <2>1, RowsStable, Ids
      <3>2. req'[r] = req[r]
        BY <2>1, RequestKept DEF RowInv, ControlInv
      <3>3. pc'[r] = pc[r] /\ r \notin inflight' /\ result'[r] = result[r]
        BY <2>1, SettledStep DEF RowInv
      <3> QED BY <2>1, <3>1, <3>2, <3>3 DEF RowInv, NewUser
    <2>2. CASE ~Known(r)
      <3>1. ASSUME NEW q \in Requests, Registers(q), q # r PROVE FALSE
        BY <1>1, <2>2, <3>1, Ids DEF Registers, StoreUser, Known
      <3>2. ASSUME NEW role \in Roles, StoreDummy(role) PROVE FALSE
        BY <1>1, <2>2, <3>2, Ids DEF StoreDummy, Known
      <3>3. Registers(r)
        BY <1>1, <2>2, <3>1, <3>2, TableStep DEF Known
      <3> QED BY <3>3, Ids DEF Registers, StoreUser, NewUser, ControlInv
    <2> QED BY <2>1, <2>2
  <1>2. ASSUME NEW r \in Requests, result'[r] = "Registered" PROVE Known(r)'
    <2>1. CASE result[r] = "Registered"
      BY <2>1, RowsStable, Ids DEF RowInv, Known
    <2>2. CASE result[r] # "Registered"
      <3>1. Registers(r)
        BY <1>2, <2>2, NewlyRegistered
      <3>2. users'[r] = NewUser(r) /\ NewUser(r).role \in Roles
        BY <3>1, Ids, Fields DEF Registers, StoreUser, NewUser, RegisterRequest
      <3> QED BY <3>2 DEF Known, NoUser, Roles
    <2> QED BY <2>1, <2>2
  <1>3. ASSUME NEW role \in Roles, Known(DummyId[role])'
        PROVE  users'[DummyId[role]] = DummyUser(role)
    <2>1. CASE Known(DummyId[role])
      BY <2>1, RowsStable, Ids DEF RowInv
    <2>2. CASE ~Known(DummyId[role])
      BY <1>3, <2>2, TableStep, Ids DEF Registers, StoreUser, StoreDummy, Known
    <2> QED BY <2>1, <2>2
  <1> QED BY <1>1, <1>2, <1>3 DEF RowInv, DummyUser

-----------------------------------------------------------------------------
(* Uniqueness.                                                             *)

(* All stored addresses are normalized, so that the unique index, which    *)
(* compares spellings, compares mailboxes.                                 *)
LEMMA StoredNormal ==
    ASSUME Inv, NEW id \in UserIds, Known(id)
    PROVE  NormalEmail[users[id].email] = users[id].email
  <1>1. CASE id \in Requests
    <2>1. req[id].op = "register" /\ users[id] = NewUser(id)
      BY <1>1 DEF Inv, RowInv
    <2>2. users[id].email = req[id].email
      BY <2>1 DEF NewUser
    <2> QED BY <1>1, <2>1, <2>2 DEF Inv, NormalInv
  <1>2. ASSUME NEW role \in Roles, id = DummyId[role]
        PROVE  NormalEmail[users[id].email] = users[id].email
    <2>1. users[id] = DummyUser(role)
      BY <1>2 DEF Inv, RowInv
    <2>2. users[id].email = DummyEmail[role]
      BY <2>1 DEF DummyUser
    <2> QED BY <2>2, AddressesAssumption
  <1> QED BY <1>1, <1>2, Ids

(* A step keeps e-mails unique.                                            *)
LEMMA UniqueStep ==
    ASSUME Inv, [Next]_vars
    PROVE  OneAccountPerAddress'
  <1> SUFFICES ASSUME NEW i \in UserIds, NEW j \in UserIds, Known(i)', Known(j)',
                      NormalEmail[users'[i].email] = NormalEmail[users'[j].email], i # j
               PROVE  FALSE
    BY DEF OneAccountPerAddress, Known
  <1> USE DEF Inv, TypeOK
  <1>1. CASE UNCHANGED users
    BY <1>1 DEF OneAccountPerAddress, Known
  <1>2. ASSUME NEW r \in Requests, Registers(r) PROVE FALSE
    <2>1. \A k \in UserIds \ {r} : users'[k] = users[k] /\ (Known(k)' <=> Known(k))
      BY <1>2, Ids DEF Registers, StoreUser, Known
    <2>2. users'[r].email = req[r].email /\ NormalEmail[req[r].email] = req[r].email
      BY <1>2, Ids DEF Registers, StoreUser, NewUser, NormalInv
    <2>3. \A k \in UserIds \ {r} : Known(k) => users[k].email # req[r].email
      BY <1>2 DEF Registers, EmailTaken
    <2> QED BY <2>1, <2>2, <2>3, StoredNormal DEF OneAccountPerAddress
  <1>3. ASSUME NEW role \in Roles, Ensurable(role), StoreDummy(role) PROVE FALSE
    <2> DEFINE d == DummyId[role]
    <2>1. \A k \in UserIds \ {d} : users'[k] = users[k] /\ (Known(k)' <=> Known(k))
      BY <1>3, Ids DEF StoreDummy, Known
    <2>2. users'[d].email = DummyEmail[role] /\ NormalEmail[DummyEmail[role]] = DummyEmail[role]
      BY <1>3, Ids, AddressesAssumption DEF StoreDummy, DummyUser
    <2>3. \A k \in UserIds \ {d} : Known(k) => users[k].email # DummyEmail[role]
      BY <1>3 DEF Ensurable, EmailTaken
    <2> QED BY <2>1, <2>2, <2>3, StoredNormal DEF OneAccountPerAddress
  <1> QED BY <1>1, <1>2, <1>3, TableStep

-----------------------------------------------------------------------------
(* Tokens and claims.                                                      *)

(* Whoever is known stays known, with the same role.                       *)
LEMMA IdentityKept ==
    ASSUME Inv, [Next]_vars, NEW id \in UserIds, Known(id)
    PROVE  Known(id)' /\ users'[id] = users[id]
  BY RowsStable DEF Known

(* A token is signed for a row that was just read or written.              *)
LEMMA TokenStep ==
    ASSUME Inv, [Next]_vars, NEW r \in Requests
    PROVE  \/ token'[r] = token[r]
           \/ /\ token'[r].userId \in UserIds /\ users'[token'[r].userId] # NoUser
              /\ users'[token'[r].userId].role = token'[r].role
              /\ pc[r] \in {"getByEmail", "ensure"}
  <1> USE DEF Inv, TypeOK
  <1>1. ASSUME NEW q \in Requests, GetByEmail(q), q = r, token'[r] # token[r]
        PROVE  /\ token'[r].userId \in UserIds /\ users'[token'[r].userId] # NoUser
               /\ users'[token'[r].userId].role = token'[r].role
               /\ pc[r] \in {"getByEmail", "ensure"}
    <2>1. PICK id \in UserIds : Known(id) /\ Sign(r, id, users[id].role)
      BY <1>1 DEF GetByEmail, ByEmail
    <2>2. token'[r].userId = id /\ token'[r].role = users[id].role
      BY <2>1 DEF Sign
    <2> QED BY <1>1, <2>1, <2>2 DEF GetByEmail, ByEmail, Known
  <1>2. ASSUME NEW q \in Requests, Ensure(q), q = r, token'[r] # token[r]
        PROVE  /\ token'[r].userId \in UserIds /\ users'[token'[r].userId] # NoUser
               /\ users'[token'[r].userId].role = token'[r].role
               /\ pc[r] \in {"getByEmail", "ensure"}
    <2> DEFINE role == req[r].role
    <2>1. role \in Roles
      BY <1>2, Fields DEF Ensure, ControlInv, DummyRequest
    <2>2. StoreDummy(role) /\ Sign(r, DummyId[role], role)
      BY <1>2 DEF Ensure
    <2>3. token'[r].userId = DummyId[role] /\ token'[r].role = role
      BY <2>2 DEF Sign
    <2>4. users'[DummyId[role]] = DummyUser(role)
      BY <2>1, <2>2, Ids DEF StoreDummy
    <2>5. users'[DummyId[role]].role = role /\ users'[DummyId[role]] # NoUser
      BY <2>1, <2>4 DEF DummyUser, NoUser, Roles
    <2>6. DummyId[role] \in UserIds
      BY <2>1, Ids
    <2> QED BY <1>2, <2>3, <2>5, <2>6 DEF Known, Ensure
  <1>3. ASSUME NEW q \in Requests, GetByEmail(q) \/ Ensure(q), q # r
        PROVE  token'[r] = token[r]
    BY <1>3 DEF GetByEmail, ByEmail, Ensure, Sign
  <1> QED
    BY <1>1, <1>2, <1>3 DEF Next, Quiescent, vars, RegisterHandler, RegisterUnhashable,
       LoginHandler, DummyHandler, Authenticate, Create, CreateAbandoned, EnsureAbandoned,
       ApplyLate, DropLate, Crash, Tick

(* Claims are taken from a token.                                          *)
LEMMA ClaimsStep ==
    ASSUME Inv, [Next]_vars, NEW r \in Requests
    PROVE  \/ claims'[r] = claims[r]
           \/ \E t \in Requests : /\ token[t].role # "none"
                                  /\ claims'[r].userId = token[t].userId
                                  /\ claims'[r].role = token[t].role
  <1> USE DEF Inv, TypeOK
  <1>1. ASSUME NEW q \in Requests, NEW t \in Requests, Authenticate(q, t)
        PROVE  \/ claims'[r] = claims[r]
               \/ /\ token[t].role # "none"
                  /\ claims'[r].userId = token[t].userId
                  /\ claims'[r].role = token[t].role
    BY <1>1 DEF Authenticate, Token, NoToken, Roles
  <1> QED
    BY <1>1 DEF Next, Quiescent, vars, RegisterHandler, RegisterUnhashable,
       LoginHandler, DummyHandler, GetByEmail, ByEmail, Ensure, Create, CreateAbandoned, EnsureAbandoned,
       ApplyLate, DropLate, Crash, Tick

(* The ids in tokens and claims are ids of users.                          *)
LEMMA IdentityTypes ==
    ASSUME TypeOK, NEW r \in Requests, NEW id \in {token[r], claims[r]}, id.role # "none"
    PROVE  id.userId \in UserIds
  BY DEF TypeOK, Token, Claims, NoToken, NoClaims

(* A step keeps who has which row.                                         *)
LEMMA IdentityStep ==
    ASSUME Inv, [Next]_vars
    PROVE  IdentitiesAreReal'
  <1> SUFFICES ASSUME NEW r \in Requests
               PROVE  \A id \in {token'[r], claims'[r]} :
                          id.role # "none" => Known(id.userId)' /\ users'[id.userId].role = id.role
    BY DEF IdentitiesAreReal, Known
  <1> DEFINE Real(id) == id.role # "none" =>
                             users'[id.userId] # NoUser /\ users'[id.userId].role = id.role
  <1>1. ASSUME NEW q \in Requests PROVE Real(token[q]) /\ Real(claims[q])
    <2>1. ASSUME NEW id \in {token[q], claims[q]}, id.role # "none"
          PROVE  users'[id.userId] # NoUser /\ users'[id.userId].role = id.role
      BY <2>1, IdentityTypes, IdentityKept DEF Inv, IdentitiesAreReal, Known
    <2> QED BY <2>1
  <1>2. Real(token'[r])
    BY <1>1, TokenStep DEF Known
  <1>3. Real(claims'[r])
    <2>1. CASE claims'[r] = claims[r]
      BY <1>1, <2>1
    <2>2. ASSUME NEW t \in Requests, token[t].role # "none",
                 claims'[r].userId = token[t].userId, claims'[r].role = token[t].role
          PROVE  Real(claims'[r])
      BY <1>1, <2>2
    <2> HIDE DEF Real
    <2> QED BY <2>1, <2>2, ClaimsStep
  <1> QED BY <1>2, <1>3 DEF Known

(* A login that succeeds has just found its account.                       *)
LEMMA NewlyLoggedIn ==
    ASSUME Inv, [Next]_vars, NEW r \in Requests, pc[r] = "getByEmail",
           result'[r] = "LoggedIn"
    PROVE  /\ token'[r].userId \in UserIds /\ Known(token'[r].userId)
           /\ users[token'[r].userId].email = req[r].email
           /\ Matches(token'[r].userId, req[r].password)
  <1> USE DEF Inv, TypeOK, ControlInv
  <1>1. GetByEmail(r)
    BY DEF Next, Quiescent, vars, Begin, Answer, Abandon, RegisterHandler,
       RegisterUnhashable, LoginHandler, DummyHandler, Authenticate, Create, CreateAbandoned,
       GetByEmail, ByEmail, Ensure, EnsureAbandoned, ApplyLate, DropLate, Crash, Tick
  <1>2. PICK id \in UserIds : /\ Known(id) /\ users[id].email = req[r].email
                              /\ Matches(id, req[r].password)
                              /\ Sign(r, id, users[id].role)
    BY <1>1 DEF GetByEmail, ByEmail, Answer
  <1>3. token'[r].userId = id
    BY <1>2 DEF Sign
  <1> QED BY <1>2, <1>3

(* Only the handlers of the two logins answer with a token, and the other  *)
(* one is asked by another request.                                        *)
LEMMA NoOtherLogin ==
    ASSUME Inv, [Next]_vars, NEW r \in Requests, pc[r] \notin {"getByEmail", "done"},
           result'[r] = "LoggedIn", req'[r].op = "login"
    PROVE  FALSE
  BY DEF Inv, TypeOK, ControlInv, Next, Quiescent, vars, Begin, Answer, Abandon,
       RegisterHandler, RegisterUnhashable, LoginHandler, DummyHandler, Authenticate, Create,
       CreateAbandoned, GetByEmail, ByEmail, Ensure, EnsureAbandoned, ApplyLate, DropLate, Crash, Tick

(* A step keeps what a login knows.                                        *)
LEMMA LoginStep ==
    ASSUME Inv, [Next]_vars
    PROVE  LoginNeedsPassword'
  <1> USE DEF Inv, TypeOK
  <1> SUFFICES ASSUME NEW r \in Requests, req'[r].op = "login", result'[r] = "LoggedIn"
               PROVE  /\ users'[token'[r].userId].email = req'[r].email
                      /\ users'[token'[r].userId].password # "none"
                      /\ BcryptKey[users'[token'[r].userId].password] = BcryptKey[req'[r].password]
    BY DEF LoginNeedsPassword
  <1>1. CASE pc[r] = "getByEmail"
    BY <1>1, NewlyLoggedIn, IdentityKept, RequestKept DEF Matches, SameHash
  <1>2. CASE pc[r] = "done"
    <2>1. req'[r] = req[r] /\ result'[r] = result[r] /\ token'[r] = token[r]
      BY <1>2, RequestKept, SettledStep, TokenStep
    <2>2. token[r].role # "none"
      BY <2>1, <1>2 DEF LoginNeedsPassword, TokenInv
    <2>3. token[r].userId \in UserIds /\ Known(token[r].userId)
      BY <2>2, IdentityTypes DEF IdentitiesAreReal
    <2> QED BY <2>1, <2>3, IdentityKept DEF LoginNeedsPassword
  <1>3. CASE pc[r] \notin {"getByEmail", "done"}
    <2>1. result[r] = "none"
      BY <1>3 DEF ControlInv
    <2> QED BY <1>3, <2>1, NoOtherLogin
  <1> QED BY <1>1, <1>2, <1>3

(* A step keeps what tokens say.                                           *)
LEMMA TokenInvStep ==
    ASSUME Inv, [Next]_vars
    PROVE  TokenInv'
  <1> USE DEF Inv, TypeOK, ControlInv, TokenInv, AtService
  <1>1. ASSUME NEW r \in Requests, GetByEmail(r) PROVE TokenInv'
    <2>1. ASSUME NEW id \in UserIds, Known(id), Sign(r, id, users[id].role)
          PROVE  /\ token'[r].role # "none"
                 /\ \A q \in Requests \ {r} : token'[q] = token[q]
      BY <2>1, KnownIsUser DEF Sign, User, Roles
    <2> QED BY <1>1, <2>1 DEF GetByEmail, ByEmail, Answer
  <1>2. ASSUME NEW r \in Requests, Ensure(r) PROVE TokenInv'
    <2>1. req[r].role \in Roles
      BY <1>2, Fields DEF Ensure, DummyRequest
    <2> QED BY <1>2, <2>1 DEF Ensure, Answer, Sign, Roles
  <1>3. ASSUME NEW r \in Requests, NEW t \in Requests, Authenticate(r, t) PROVE TokenInv'
    BY <1>3 DEF Authenticate, Begin
  <1> QED
    BY <1>1, <1>2, <1>3 DEF Next, Quiescent, vars, Begin, Answer, Abandon, RegisterHandler,
       RegisterUnhashable, LoginHandler, DummyHandler, Create, CreateAbandoned,
       EnsureAbandoned, ApplyLate, DropLate, Crash, Tick

-----------------------------------------------------------------------------
(* The theorems.                                                           *)

(* The invariant holds at first.                                           *)
LEMMA InvInit == Init => Inv
  <1> SUFFICES ASSUME Init PROVE Inv
    OBVIOUS
  <1> USE DEF Init
  <1>1. TypeOK
    BY BoundsAssumption DEF TypeOK, AtService, Results, Refusals
  <1>2. ControlInv /\ NormalInv /\ TokenInv
    BY DEF ControlInv, NormalInv, TokenInv, NoRequest, NoToken
  <1>3. RowInv /\ OneAccountPerAddress
    BY Ids DEF RowInv, OneAccountPerAddress, Known
  <1>4. IdentitiesAreReal /\ LoginNeedsPassword
    BY DEF IdentitiesAreReal, LoginNeedsPassword, NoToken, NoClaims
  <1> QED BY <1>1, <1>2, <1>3, <1>4 DEF Inv

(* Every step keeps it.                                                    *)
LEMMA InvStep == Inv /\ [Next]_vars => Inv'
  <1> SUFFICES ASSUME Inv, [Next]_vars PROVE Inv'
    OBVIOUS
  <1> QED
    BY TypeStep, ControlStep, TokenInvStep, NormalStep, RowStep, UniqueStep, IdentityStep,
       LoginStep DEF Inv

(* It holds for ever.                                                      *)
LEMMA InvHolds == Spec => []Inv
  BY InvInit, InvStep, PTL DEF Spec

(* Every variable keeps its type.                                          *)
THEOREM TypeCorrect == Spec => []TypeOK
  BY InvHolds, PTL DEF Inv

(* No mailbox ever has two accounts, whatever the spellings, the races and *)
(* the late statements.                                                    *)
THEOREM AddressesAreUnique == Spec => []OneAccountPerAddress
  BY InvHolds, PTL DEF Inv

(* "Email already taken" is the last word on that registration.            *)
THEOREM RefusalsAreFinal == Spec => []RefusedIsNotRegistered
  <1>1. Inv => RefusedIsNotRegistered
    BY DEF Inv, ControlInv, RowInv, RefusedIsNotRegistered
  <1> QED BY <1>1, InvHolds, PTL

(* Tokens and claims name users of that role, for ever.                    *)
THEOREM TokensNameUsers == Spec => []IdentitiesAreReal
  BY InvHolds, PTL DEF Inv

(* A login gives the token of the account with that password, as far as    *)
(* bcrypt tells them apart, and none of an account without one.            *)
THEOREM LoginsAreTheOwners == Spec => []LoginNeedsPassword
  BY InvHolds, PTL DEF Inv

(* A row of users never changes.                                           *)
THEOREM AccountsStay == Spec => AccountsAreStable
  <1>1. Inv /\ [Next]_vars => [\A id \in UserIds : Known(id) => users'[id] = users[id]]_vars
    BY RowsStable
  <1> QED BY <1>1, InvHolds, PTL DEF Spec, AccountsAreStable

(* After the answer 201 a login with these credentials is not refused.     *)
THEOREM TheRegisteredGetIn == Spec => RegisteredCanLogIn
  <1>1. ASSUME Inv, [Next]_vars, NEW r \in Requests, NEW l \in Requests,
               result[r] = "Registered", pc[l] = "getByEmail",
               req[l].password = req[r].password,
               NormalEmail[req[l].email] = NormalEmail[req[r].email],
               result'[l] = "InvalidCredentials"
        PROVE  FALSE
    <2> USE DEF Inv, TypeOK, ControlInv
    <2>1. Known(r) /\ users[r] = NewUser(r) /\ r \in UserIds
      BY <1>1, Ids DEF RowInv
    <2>2. users[r].email = req[r].email /\ users[r].password = req[r].password
      BY <2>1 DEF NewUser
    <2>3. req[l].email = req[r].email
      BY <1>1 DEF NormalInv
    <2>4. GetByEmail(l)
      BY <1>1 DEF Next, Quiescent, vars, Begin, Answer, Abandon, RegisterHandler,
         RegisterUnhashable, LoginHandler, DummyHandler, Authenticate, Create, CreateAbandoned,
         GetByEmail, ByEmail, Ensure, EnsureAbandoned, ApplyLate, DropLate, Crash, Tick
    <2>5. r \in ByEmail(req[l].email)
      BY <2>1, <2>2, <2>3 DEF ByEmail
    <2>6. Matches(r, req[l].password)
      <3>1. req[r] \in RegisterRequest
        BY <1>1, Fields DEF RowInv
      <3>2. req[r].password # "none"
        BY <3>1, PasswordsAssumption DEF RegisterRequest
      <3> QED BY <1>1, <2>2, <3>2 DEF Matches, SameHash
    <2> QED BY <1>1, <2>4, <2>5, <2>6 DEF GetByEmail, Answer
  <1>2. Inv /\ [Next]_vars =>
           [\A r, l \in Requests :
               /\ result[r] = "Registered" /\ pc[l] = "getByEmail"
               /\ req[l].password = req[r].password
               /\ NormalEmail[req[l].email] = NormalEmail[req[r].email]
               => result'[l] # "InvalidCredentials"]_vars
    BY <1>1
  <1> QED BY <1>2, InvHolds, PTL DEF Spec, RegisteredCanLogIn
=============================================================================
