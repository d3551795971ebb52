-------------------------- MODULE LifecycleProofs --------------------------
(***************************************************************************)
(* Theorems about Lifecycle, for any timeouts that ConstantsAssumption     *)
(* allows and any number of requests.                                      *)
(*                                                                         *)
(* Graceful is the reason why no request is cut off: those that are        *)
(* running began before Shutdown did, so it has waited no longer than the  *)
(* youngest of them runs, which is less than it is ready to wait.  The     *)
(* pools that were left are counted by the attempts that failed, and these *)
(* by the time they took (PoolInv).                                        *)
(***************************************************************************)
EXTENDS Lifecycle, TLAPS

Up == {"serving", "draining", "closing"}

StageInv ==
    /\ main = "connecting" => failures < Attempts
    /\ main \in {"connecting", "serving"} => draining = 0
    /\ main \in {"draining", "closing"} => server = "closed"
    /\ main \in Up \cup {"connecting"} => status = "running"
    /\ main = "exited" => Running = {}
    /\ main # "exited" => \A r \in Requests : req[r] # "cut"

Graceful ==
    /\ main = "draining" => \A r \in Running : draining <= age[r]
    /\ main = "closing" => Running = {}
    /\ status = "ok" => \A r \in Requests : req[r] \in {"none", "answered"}

PoolInv ==
    /\ main = "connecting" => pools = failures
    /\ main \in Up => pools > 0
    /\ main # "connecting" /\ status # "error" => pools * Pause < ConnectTimeout + Pause
    /\ failures * Pause <= elapsed
    /\ elapsed <= ConnectTimeout + failures * Pause

Inv == TypeOK /\ StageInv /\ Graceful /\ PoolInv

-----------------------------------------------------------------------------
(* Multiplication, once and for all.                                       *)

(* The constants, one by one.                                              *)
LEMMA Numbers == /\ Attempts \in Nat \ {0} /\ Pause \in Nat \ {0}
                 /\ ConnectTimeout \in Nat \ {0} /\ RequestTimeout \in Nat \ {0}
  BY ConstantsAssumption

(* One more of something.                                                  *)
LEMMA OneMore == \A n, k \in Nat : (n + 1) * k = n * k + k
  BY SMT

(* More of something are no less.                                          *)
LEMMA NoLess == \A n, m, k \in Nat : n <= m => n * k <= m * k
  <1> SUFFICES ASSUME NEW n \in Nat, NEW m \in Nat, NEW k \in Nat, n <= m
               PROVE  n * k <= m * k
    OBVIOUS
  <1>1. PICK d \in Nat : m = n + d
    <2> m - n \in Nat /\ m = n + (m - n)
      OBVIOUS
    <2> QED OBVIOUS
  <1>2. m * k = n * k + d * k /\ d * k \in Nat /\ n * k \in Nat
    BY <1>1, SMT
  <1> QED BY <1>2
-----------------------------------------------------------------------------
(* The steps, one part of the invariant after the other.                   *)

(* Types.                                                                  *)
LEMMA TypeStep == Inv /\ [Next]_vars => TypeOK'
  <1> SUFFICES ASSUME Inv, [Next]_vars PROVE TypeOK'
    OBVIOUS
  <1> USE ConstantsAssumption DEF Inv, TypeOK, StageInv, PoolInv, Up, startup, serving, Running
  <1>1. CASE PingSucceeds
    BY <1>1 DEF PingSucceeds
  <1>2. CASE PingFails
    BY <1>2 DEF PingFails, Exit
  <1>3. CASE BeginShutdown
    BY <1>3 DEF BeginShutdown
  <1>4. CASE ShutdownReturns
    BY <1>4 DEF ShutdownReturns
  <1>5. CASE CloseReturns
    BY <1>5 DEF CloseReturns, Exit
  <1>6. CASE Listen
    BY <1>6 DEF Listen
  <1>7. CASE ServerFails
    BY <1>7 DEF ServerFails, Exit
  <1>8. ASSUME NEW r \in Requests, Accept(r) PROVE TypeOK'
    BY <1>8 DEF Accept
  <1>9. ASSUME NEW r \in Requests, Query(r) PROVE TypeOK'
    BY <1>9 DEF Query
  <1>10. ASSUME NEW r \in Requests, QueryReturns(r) PROVE TypeOK'
    BY <1>10 DEF QueryReturns
  <1>11. ASSUME NEW r \in Requests, Respond(r) PROVE TypeOK'
    BY <1>11 DEF Respond
  <1>12. CASE Tick
    BY <1>12 DEF Tick
  <1>13. CASE WorkerQueries
    BY <1>13 DEF WorkerQueries
  <1>14. CASE WorkerQueryReturns
    BY <1>14 DEF WorkerQueryReturns
  <1>15. CASE WorkerRoundEnds
    BY <1>15 DEF WorkerRoundEnds
  <1>16. CASE WorkerTicks
    BY <1>16 DEF WorkerTicks
  <1>17. CASE WorkerReturns
    BY <1>17 DEF WorkerReturns
  <1>18. CASE Signal
    BY <1>18 DEF Signal
  <1>19. CASE UNCHANGED vars
    BY <1>19 DEF vars
  <1> QED BY <1>1, <1>2, <1>3, <1>4, <1>5, <1>6, <1>7, <1>8, <1>9, <1>10, <1>11, <1>12, <1>13, <1>14, <1>15, <1>16, <1>17, <1>18, <1>19 DEF Next, Main, Stopped

(* What goes with where main is.                                           *)
LEMMA StageStep == Inv /\ [Next]_vars => StageInv'
  <1> SUFFICES ASSUME Inv, [Next]_vars PROVE StageInv'
    OBVIOUS
  <1> USE ConstantsAssumption DEF Inv, TypeOK, StageInv, Up, startup, serving, Running
  <1>1. CASE PingSucceeds
    BY <1>1 DEF PingSucceeds
  <1>2. CASE PingFails
    BY <1>2 DEF PingFails, Exit
  <1>3. CASE BeginShutdown
    BY <1>3 DEF BeginShutdown
  <1>4. CASE ShutdownReturns
    BY <1>4 DEF ShutdownReturns
  <1>5. CASE CloseReturns
    BY <1>5 DEF CloseReturns, Exit
  <1>6. CASE Listen
    BY <1>6 DEF Listen
  <1>7. CASE ServerFails
    BY <1>7 DEF ServerFails, Exit
  <1>8. ASSUME NEW r \in Requests, Accept(r) PROVE StageInv'
    BY <1>8 DEF Accept
  <1>9. ASSUME NEW r \in Requests, Query(r) PROVE StageInv'
    BY <1>9 DEF Query
  <1>10. ASSUME NEW r \in Requests, QueryReturns(r) PROVE StageInv'
    BY <1>10 DEF QueryReturns
  <1>11. ASSUME NEW r \in Requests, Respond(r) PROVE StageInv'
    BY <1>11 DEF Respond
  <1>12. CASE Tick
    BY <1>12 DEF Tick
  <1>13. CASE WorkerQueries
    BY <1>13 DEF WorkerQueries
  <1>14. CASE WorkerQueryReturns
    BY <1>14 DEF WorkerQueryReturns
  <1>15. CASE WorkerRoundEnds
    BY <1>15 DEF WorkerRoundEnds
  <1>16. CASE WorkerTicks
    BY <1>16 DEF WorkerTicks
  <1>17. CASE WorkerReturns
    BY <1>17 DEF WorkerReturns
  <1>18. CASE Signal
    BY <1>18 DEF Signal
  <1>19. CASE UNCHANGED vars
    BY <1>19 DEF vars
  <1> QED BY <1>1, <1>2, <1>3, <1>4, <1>5, <1>6, <1>7, <1>8, <1>9, <1>10, <1>11, <1>12, <1>13, <1>14, <1>15, <1>16, <1>17, <1>18, <1>19 DEF Next, Main, Stopped

(* Shutdown waits no longer than any request that is left runs.            *)
LEMMA GracefulStep == Inv /\ [Next]_vars => Graceful'
  <1> SUFFICES ASSUME Inv, [Next]_vars PROVE Graceful'
    OBVIOUS
  <1> USE ConstantsAssumption DEF Inv, TypeOK, StageInv, Graceful, Up, startup, serving, Running
  <1>1. CASE PingSucceeds
    BY <1>1 DEF PingSucceeds
  <1>2. CASE PingFails
    BY <1>2 DEF PingFails, Exit
  <1>3. CASE BeginShutdown
    BY <1>3 DEF BeginShutdown
  <1>4. CASE ShutdownReturns
    BY <1>4 DEF ShutdownReturns
  <1>5. CASE CloseReturns
    BY <1>5 DEF CloseReturns, Exit
  <1>6. CASE Listen
    BY <1>6 DEF Listen
  <1>7. CASE ServerFails
    BY <1>7 DEF ServerFails, Exit
  <1>8. ASSUME NEW r \in Requests, Accept(r) PROVE Graceful'
    BY <1>8 DEF Accept
  <1>9. ASSUME NEW r \in Requests, Query(r) PROVE Graceful'
    BY <1>9 DEF Query
  <1>10. ASSUME NEW r \in Requests, QueryReturns(r) PROVE Graceful'
    BY <1>10 DEF QueryReturns
  <1>11. ASSUME NEW r \in Requests, Respond(r) PROVE Graceful'
    BY <1>11 DEF Respond
  <1>12. CASE Tick
    BY <1>12 DEF Tick
  <1>13. CASE WorkerQueries
    BY <1>13 DEF WorkerQueries
  <1>14. CASE WorkerQueryReturns
    BY <1>14 DEF WorkerQueryReturns
  <1>15. CASE WorkerRoundEnds
    BY <1>15 DEF WorkerRoundEnds
  <1>16. CASE WorkerTicks
    BY <1>16 DEF WorkerTicks
  <1>17. CASE WorkerReturns
    BY <1>17 DEF WorkerReturns
  <1>18. CASE Signal
    BY <1>18 DEF Signal
  <1>19. CASE UNCHANGED vars
    BY <1>19 DEF vars
  <1> QED BY <1>1, <1>2, <1>3, <1>4, <1>5, <1>6, <1>7, <1>8, <1>9, <1>10, <1>11, <1>12, <1>13, <1>14, <1>15, <1>16, <1>17, <1>18, <1>19 DEF Next, Main, Stopped

(* Pools, attempts and the time they took.                                 *)
LEMMA PoolStep == Inv /\ [Next]_vars => PoolInv'
  <1> SUFFICES ASSUME Inv, [Next]_vars PROVE PoolInv'
    OBVIOUS
  <1> USE ConstantsAssumption DEF Inv, TypeOK, StageInv, PoolInv, Up, startup, serving
  <1>1. CASE PingSucceeds
    BY <1>1 DEF PingSucceeds
  <1>2. CASE PingFails
    BY <1>2 DEF PingFails, Exit
  <1>3. CASE BeginShutdown
    BY <1>3 DEF BeginShutdown
  <1>4. CASE ShutdownReturns
    BY <1>4 DEF ShutdownReturns
  <1>5. CASE CloseReturns
    BY <1>5 DEF CloseReturns, Exit
  <1>6. CASE Listen
    BY <1>6 DEF Listen
  <1>7. CASE ServerFails
    BY <1>7 DEF ServerFails, Exit
  <1>8. ASSUME NEW r \in Requests, Accept(r) PROVE PoolInv'
    BY <1>8 DEF Accept
  <1>9. ASSUME NEW r \in Requests, Query(r) PROVE PoolInv'
    BY <1>9 DEF Query
  <1>10. ASSUME NEW r \in Requests, QueryReturns(r) PROVE PoolInv'
    BY <1>10 DEF QueryReturns
  <1>11. ASSUME NEW r \in Requests, Respond(r) PROVE PoolInv'
    BY <1>11 DEF Respond
  <1>12. CASE Tick
    BY <1>12 DEF Tick
  <1>13. CASE WorkerQueries
    BY <1>13 DEF WorkerQueries
  <1>14. CASE WorkerQueryReturns
    BY <1>14 DEF WorkerQueryReturns
  <1>15. CASE WorkerRoundEnds
    BY <1>15 DEF WorkerRoundEnds
  <1>16. CASE WorkerTicks
    BY <1>16 DEF WorkerTicks
  <1>17. CASE WorkerReturns
    BY <1>17 DEF WorkerReturns
  <1>18. CASE Signal
    BY <1>18 DEF Signal
  <1>19. CASE UNCHANGED vars
    BY <1>19 DEF vars
  <1> QED BY <1>1, <1>2, <1>3, <1>4, <1>5, <1>6, <1>7, <1>8, <1>9, <1>10, <1>11, <1>12, <1>13, <1>14, <1>15, <1>16, <1>17, <1>18, <1>19 DEF Next, Main, Stopped

-----------------------------------------------------------------------------
(* The theorems.                                                           *)

(* The invariant holds at first, and then always.                          *)
LEMMA Start == Init => Inv
  <1> SUFFICES ASSUME Init PROVE Inv
    OBVIOUS
  <1>1. TypeOK
    <2>1. 0 \in 0 .. Attempts /\ 0 \in 0 .. RequestTimeout
      BY Numbers
    <2> QED BY <2>1 DEF Init, TypeOK
  <1>2. StageInv /\ Graceful
    BY ConstantsAssumption DEF Init, StageInv, Graceful, Up, Running
  <1>3. PoolInv
    BY ConstantsAssumption DEF Init, PoolInv, Up
  <1> QED BY <1>1, <1>2, <1>3 DEF Inv

(* It holds for ever.                                                      *)
LEMMA Invariance == Spec => []Inv
  <1>1. Inv /\ [Next]_vars => Inv'
    BY TypeStep, StageStep, GracefulStep, PoolStep DEF Inv
  <1> QED BY Start, <1>1, PTL DEF Spec

(* Every variable of Lifecycle keeps its type.  db.New gives up in time,   *)
(* and Close finds a pool.                                                 *)
THEOREM TypeCorrect == Spec => []TypeOK
  <1>1. Inv => TypeOK
    BY DEF Inv
  <1> QED BY <1>1, Invariance, PTL

(* However many requests run when the signal comes, main.go:98-107 answers *)
(* all that were accepted before it closes the pool.                       *)
THEOREM NobodyIsCutOff == Spec => []ShutdownIsGraceful
  <1>1. Inv => ShutdownIsGraceful
    BY DEF Inv, Graceful, ShutdownIsGraceful
  <1> QED BY <1>1, Invariance, PTL

(* The pools that db.New leaves open, and the time it takes, for any       *)
(* deadline, pause and number of attempts.                                 *)
THEOREM FewPoolsLeak == Spec => []LeakIsBounded
  <1>1. Inv => LeakIsBounded
    <2> SUFFICES ASSUME Inv PROVE LeakIsBounded
      OBVIOUS
    <2>1. /\ failures \in Nat /\ Attempts \in Nat /\ Pause \in Nat
          /\ failures <= Attempts /\ elapsed \in Nat /\ ConnectTimeout \in Nat
      BY ConstantsAssumption DEF Inv, TypeOK
    <2>2. failures * Pause <= Attempts * Pause
      BY <2>1, NoLess
    <2>3. elapsed <= ConnectTimeout + failures * Pause
      BY DEF Inv, PoolInv
    <2>4. failures * Pause \in Nat /\ Attempts * Pause \in Nat
      BY <2>1
    <2>5. elapsed <= ConnectTimeout + Attempts * Pause
      BY <2>1, <2>2, <2>3, <2>4
    <2> QED BY <2>5 DEF Inv, PoolInv, LeakIsBounded
  <1> QED BY <1>1, Invariance, PTL
=============================================================================
