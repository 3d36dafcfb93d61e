---------------------------- MODULE ElectorProofs ----------------------------
(***************************************************************************)
(* Proofs about leader election, for any number of instances, sessions and *)
(* faults: an instance that takes itself for the leader owns the mutex as  *)
(* long as it has a lease, so no two leaders both have one, and only the   *)
(* context of a present leader is live.                                    *)
(***************************************************************************)
EXTENDS Elector, TLAPS

(* Sessions of different instances are different. *)
LEMMA SessionsDiffer ==
    \A i, j \in Instances : S(i) = S(j) => i = j
  BY DEF S

-----------------------------------------------------------------------------
(* Type correctness *)

(* An election loop that is past its start has opened a session. *)
HasSession == \A i \in Instances : epc[i] \in {"start", "exited"} \/ S(i) \in Session

LEMMA InitType == Init => TypeOK /\ HasSession
  BY BoundsAssumption DEF Init, TypeOK, HasSession, Session, Steps, S

LEMMA NextType == TypeOK /\ HasSession /\ OnlyLeadersCheck /\ [Next]_vars => TypeOK'
<1> SUFFICES ASSUME TypeOK, HasSession, OnlyLeadersCheck, [Next]_vars
             PROVE  TypeOK'
  OBVIOUS
<1> USE BoundsAssumption, MayStopAssumption DEF TypeOK
<1>1. ASSUME NEW i \in Instances, NewSession(i)
      PROVE  TypeOK'
  <2>1. <<i, cur[i] + 1>> \in Session /\ <<i, cur[i] + 1>> \notin live
    BY <1>1 DEF NewSession, OnlyLeadersCheck, S, Session
  <2>2. \A j \in Instances : S(j)' = IF j = i THEN <<i, cur[i] + 1>> ELSE S(j)
    BY <1>1 DEF NewSession, S
  <2>3. cur' \in [Instances -> 0..MaxSessions] /\ epc' \in [Instances -> Steps]
    BY <1>1 DEF NewSession, Steps
  <2>4. \A j \in Instances : isLeader'[j] <=> epc'[j] = "lead"
    BY <1>1 DEF NewSession, leading
  <2>5. \A j \in Instances : isLeader'[j] <=> S(j)' \in live'
    BY <1>1, <2>1, <2>2 DEF NewSession, leading
  <2>6. leases' \subseteq Session /\ keys' \subseteq leases' /\ kept' \subseteq Session
    BY <1>1, <2>1 DEF NewSession
  <2>7. UNCHANGED <<rev, nextRev, isLeader, live, checkers, stopping, faults>>
    BY <1>1 DEF NewSession, leading
  <2> QED
    BY <2>3, <2>4, <2>5, <2>6, <2>7
<1>2. ASSUME NEW i \in Instances, PutKey(i)
      PROVE  TypeOK'
  BY <1>2 DEF PutKey, S, Session, Steps, leading
<1>3. ASSUME NEW i \in Instances, Lock(i)
      PROVE  TypeOK'
  BY <1>3 DEF Lock, S, Session, Steps, leading, etcd
<1>4. ASSUME NEW i \in Instances, LockFails(i)
      PROVE  TypeOK'
  BY <1>4 DEF LockFails, S, Session, Steps, leading
<1>5. ASSUME NEW i \in Instances, BecomeLeader(i)
      PROVE  TypeOK'
  <2>1. S(i) \in Session /\ ~isLeader[i]
    BY <1>5 DEF BecomeLeader, HasSession
  <2>2. isLeader' = [isLeader EXCEPT ![i] = TRUE] /\ live' = live \cup {S(i)}
    BY <1>5, <2>1 DEF BecomeLeader
  <2>3. \A j \in Instances : S(j)' = S(j) /\ (S(j) = S(i) => j = i)
    BY <1>5, SessionsDiffer DEF BecomeLeader, S
  <2>4. \A j \in Instances : isLeader'[j] <=> S(j)' \in live'
    BY <2>2, <2>3
  <2>5. \A j \in Instances : isLeader'[j] <=> epc'[j] = "lead"
    BY <1>5, <2>2 DEF BecomeLeader
  <2>6. epc' \in [Instances -> Steps] /\ checkers' \subseteq Session
    BY <1>5, <2>1 DEF BecomeLeader, Steps
  <2>7. UNCHANGED <<leases, keys, rev, nextRev, cur, kept, stopping, faults>>
    BY <1>5 DEF BecomeLeader, etcd
  <2> QED
    BY <2>1, <2>2, <2>4, <2>5, <2>6, <2>7
<1>6. ASSUME NEW i \in Instances, SessionDone(i)
      PROVE  TypeOK'
  BY <1>6 DEF SessionDone, BecomeFollower, LeftLive, S, Session, Steps, etcd
<1>7. ASSUME NEW i \in Instances, StepDown(i)
      PROVE  TypeOK'
  BY <1>7 DEF StepDown, BecomeFollower, LeftLive, S, Session, Steps, etcd
<1>8. ASSUME NEW i \in Instances, Unlock(i)
      PROVE  TypeOK'
  BY <1>8 DEF Unlock, S, Session, Steps, leading
<1>9. ASSUME NEW i \in Instances, CloseSession(i)
      PROVE  TypeOK'
  BY <1>9 DEF CloseSession, Fault, S, Session, Steps, leading
<1>10. ASSUME NEW i \in Instances, RunExit(i)
       PROVE  TypeOK'
  BY <1>10 DEF RunExit, S, Session, Steps, leading, etcd
<1>11. ASSUME NEW s \in Session, LeaseExpires(s)
       PROVE  TypeOK'
  BY <1>11 DEF LeaseExpires, Fault, S, Session, Steps, leading, election
<1>12. ASSUME NEW s \in Session, KeepAliveEnds(s)
       PROVE  TypeOK'
  BY <1>12 DEF KeepAliveEnds, Fault, S, Session, Steps, leading, etcd
<1>13. ASSUME NEW s \in Session, CheckerExit(s)
       PROVE  TypeOK'
  BY <1>13 DEF CheckerExit, S, Session, Steps, etcd, election
<1>14. ASSUME NEW i \in Instances, Stop(i)
       PROVE  TypeOK'
  BY <1>14 DEF Stop, S, Session, Steps, leading, etcd, election
<1>15. ASSUME NEW i \in Instances, Crash(i)
       PROVE  TypeOK'
  BY <1>15 DEF Crash, Fault, S, Session, Steps, etcd
<1>16. CASE UNCHANGED vars
  BY <1>16 DEF vars, S, etcd, election, leading
<1> QED
  BY <1>1, <1>2, <1>3, <1>4, <1>5, <1>6, <1>7, <1>8, <1>9, <1>10, <1>11, <1>12,
     <1>13, <1>14, <1>15, <1>16 DEF Next, ElectionStep

LEMMA NextSession == TypeOK /\ HasSession /\ [Next]_vars => HasSession'
<1> SUFFICES ASSUME TypeOK, HasSession, [Next]_vars
             PROVE  HasSession'
  OBVIOUS
<1>1. CASE \E i \in Instances : NewSession(i)
  <2>1. PICK i \in Instances : NewSession(i)
    BY <1>1
  <2>2. \A j \in Instances : S(j)' = IF j = i THEN <<i, cur[i] + 1>> ELSE S(j)
    BY <2>1 DEF NewSession, S, TypeOK
  <2>3. <<i, cur[i] + 1>> \in Session
    BY <2>1, BoundsAssumption DEF NewSession, Session, TypeOK
  <2>4. \A j \in Instances : j # i => epc'[j] = epc[j]
    BY <2>1 DEF NewSession, TypeOK
  <2> QED
    BY <2>2, <2>3, <2>4 DEF HasSession
<1>2. CASE \E i \in Instances :
              PutKey(i) \/ Lock(i) \/ LockFails(i) \/ BecomeLeader(i) \/ SessionDone(i)
                \/ StepDown(i) \/ Unlock(i) \/ CloseSession(i) \/ RunExit(i) \/ Crash(i)
  BY <1>2 DEF PutKey, Lock, LockFails, BecomeLeader, SessionDone, StepDown, Unlock,
              CloseSession, RunExit, Crash, HasSession, S, TypeOK
<1>3. CASE \/ \E i \in Instances : Stop(i)
           \/ \E s \in Session : LeaseExpires(s) \/ KeepAliveEnds(s) \/ CheckerExit(s)
           \/ UNCHANGED vars
  BY <1>3 DEF Stop, LeaseExpires, KeepAliveEnds, CheckerExit,
              HasSession, S, election, vars
<1> QED
  BY <1>1, <1>2, <1>3 DEF Next, ElectionStep

-----------------------------------------------------------------------------
(* Ownership of the mutex *)

(* A key is older than the next revision, and no two have the same. *)
KeysOrdered ==
    /\ \A s \in keys : rev[s] < nextRev
    /\ \A s, t \in keys : rev[s] = rev[t] => s = t

(* The instance that has acquired the mutex owns it while it has a lease. *)
WinnerOwns ==
    \A i \in Instances :
        epc[i] \in {"won", "lead"} /\ S(i) \in leases => Owner(S(i))

(* Only the context of the present term of a leader is live. *)
LockInv == TypeOK /\ HasSession /\ KeysOrdered /\ WinnerOwns /\ OnlyLeadersCheck

LEMMA InitLock == Init => LockInv
  BY InitType DEF Init, LockInv, KeysOrdered, WinnerOwns, OnlyLeadersCheck

(* A step that creates no key and changes no revision keeps the order. *)
LEMMA OrderKept ==
    ASSUME KeysOrdered, keys' \subseteq keys, UNCHANGED <<rev, nextRev>>
    PROVE  KeysOrdered'
  BY DEF KeysOrdered

(* An owner that keeps its key owns the mutex when other keys disappear. *)
LEMMA OwnerKept ==
    ASSUME NEW s, Owner(s), s \in keys', keys' \subseteq keys, UNCHANGED rev
    PROVE  Owner(s)'
  BY DEF Owner

LEMMA NextLock == LockInv /\ [Next]_vars => LockInv'
<1> SUFFICES ASSUME LockInv, [Next]_vars
             PROVE  LockInv'
  OBVIOUS
<1>0. TypeOK' /\ TypeOK /\ HasSession'
  BY NextType, NextSession DEF LockInv
<1> DEFINE Good == KeysOrdered' /\ WinnerOwns' /\ OnlyLeadersCheck'
<1>1. ASSUME NEW i \in Instances, NewSession(i)
      PROVE  Good
  <2>1. KeysOrdered'
    BY <1>1, OrderKept DEF NewSession, LockInv
  <2>2. WinnerOwns'
    BY <1>0, <1>1 DEF NewSession, LockInv, WinnerOwns, Owner, S, TypeOK
  <2>3. OnlyLeadersCheck'
    BY <1>0, <1>1 DEF NewSession, LockInv, OnlyLeadersCheck, S, TypeOK, Session, leading
  <2> QED
    BY <2>1, <2>2, <2>3
<1>2. ASSUME NEW i \in Instances, PutKey(i)
      PROVE  Good
  <2>1. /\ S(i) \in Session
        /\ keys \subseteq Session
        /\ rev \in [Session -> Nat] /\ nextRev \in Nat
        /\ rev' = [rev EXCEPT ![S(i)] = nextRev] /\ nextRev' = nextRev + 1
        /\ keys' = keys \cup {S(i)}
        /\ \A s \in keys : rev[s] < nextRev
    BY <1>0, <1>2 DEF PutKey, TypeOK, LockInv, KeysOrdered
  <2>2. KeysOrdered'
    BY <1>0, <2>1 DEF LockInv, KeysOrdered
  <2>3. WinnerOwns'
    <3>1. SUFFICES ASSUME NEW j \in Instances, epc'[j] \in {"won", "lead"}, S(j)' \in leases'
                   PROVE  Owner(S(j))'
      BY DEF WinnerOwns
    <3>2. j # i /\ S(j)' = S(j) /\ Owner(S(j)) /\ S(j) \in keys
      BY <1>0, <1>2, <3>1 DEF PutKey, LockInv, WinnerOwns, TypeOK, S, Owner
    <3>3. S(j) # S(i) /\ rev'[S(j)] = rev[S(j)] /\ rev'[S(i)] = nextRev
      BY <2>1, <3>2, SessionsDiffer
    <3>4. \A t \in keys' : rev'[S(j)] <= rev'[t]
      BY <2>1, <3>2, <3>3 DEF Owner
    <3> QED
      BY <2>1, <3>2, <3>4 DEF Owner
  <2>4. OnlyLeadersCheck'
    BY <1>0, <1>2 DEF PutKey, LockInv, OnlyLeadersCheck, S, leading
  <2> QED
    BY <2>2, <2>3, <2>4
<1>3. ASSUME NEW i \in Instances, Lock(i)
      PROVE  Good
  BY <1>0, <1>3 DEF Lock, Acquired, LockInv, KeysOrdered, WinnerOwns, OnlyLeadersCheck,
                    Owner, S, TypeOK, etcd, leading
<1>4. ASSUME NEW i \in Instances, LockFails(i)
      PROVE  Good
  <2>1. KeysOrdered'
    BY <1>4, OrderKept DEF LockFails, LockInv
  <2>2. WinnerOwns'
    BY <1>0, <1>4, SessionsDiffer, OwnerKept
    DEF LockFails, LockInv, WinnerOwns, Owner, S, TypeOK
  <2>3. OnlyLeadersCheck'
    BY <1>0, <1>4 DEF LockFails, LockInv, OnlyLeadersCheck, S, leading
  <2> QED
    BY <2>1, <2>2, <2>3
<1>5. ASSUME NEW i \in Instances, BecomeLeader(i)
      PROVE  Good
  <2>1. KeysOrdered' /\ WinnerOwns'
    BY <1>0, <1>5 DEF BecomeLeader, LockInv, KeysOrdered, WinnerOwns, Owner, S, TypeOK, etcd
  <2>2. OnlyLeadersCheck'
    BY <1>0, <1>5 DEF BecomeLeader, LockInv, OnlyLeadersCheck, S, TypeOK, Session, leading
  <2> QED
    BY <2>1, <2>2
<1>6. ASSUME NEW i \in Instances, SessionDone(i) \/ StepDown(i)
      PROVE  Good
  <2>1. KeysOrdered' /\ WinnerOwns'
    BY <1>0, <1>6 DEF SessionDone, StepDown, LockInv, KeysOrdered, WinnerOwns, Owner, S,
                      TypeOK, etcd
  <2>2. OnlyLeadersCheck'
    BY <1>0, <1>6 DEF SessionDone, StepDown, BecomeFollower, LeftLive, LockInv,
                      OnlyLeadersCheck, S, TypeOK, Session
  <2> QED
    BY <2>1, <2>2
<1>7. ASSUME NEW i \in Instances, Unlock(i)
      PROVE  Good
  <2>1. KeysOrdered'
    BY <1>7, OrderKept DEF Unlock, LockInv
  <2>2. WinnerOwns'
    BY <1>0, <1>7, SessionsDiffer, OwnerKept
    DEF Unlock, LockInv, WinnerOwns, Owner, S, TypeOK
  <2>3. OnlyLeadersCheck'
    BY <1>0, <1>7 DEF Unlock, LockInv, OnlyLeadersCheck, S, leading
  <2> QED
    BY <2>1, <2>2, <2>3
<1>8. ASSUME NEW i \in Instances, CloseSession(i)
      PROVE  Good
  <2>1. KeysOrdered'
    BY <1>8, OrderKept DEF CloseSession, LockInv
  <2>2. WinnerOwns'
    BY <1>0, <1>8, SessionsDiffer, OwnerKept
    DEF CloseSession, LockInv, WinnerOwns, Owner, S, TypeOK
  <2>3. OnlyLeadersCheck'
    BY <1>0, <1>8 DEF CloseSession, LockInv, OnlyLeadersCheck, S, leading
  <2> QED
    BY <2>1, <2>2, <2>3
<1>9. ASSUME NEW s \in Session, LeaseExpires(s)
      PROVE  Good
  <2>1. KeysOrdered'
    BY <1>9, OrderKept DEF LeaseExpires, LockInv
  <2>2. WinnerOwns'
    BY <1>0, <1>9, OwnerKept
    DEF LeaseExpires, LockInv, WinnerOwns, Owner, S, TypeOK, election
  <2>3. OnlyLeadersCheck'
    BY <1>0, <1>9 DEF LeaseExpires, LockInv, OnlyLeadersCheck, S, leading, election
  <2> QED
    BY <2>1, <2>2, <2>3
<1>10. ASSUME NEW i \in Instances,
              RunExit(i) \/ Stop(i)
       PROVE  Good
  BY <1>0, <1>10 DEF RunExit, Stop, LockInv, KeysOrdered,
                     WinnerOwns, OnlyLeadersCheck, Owner, S, TypeOK, etcd, election, leading
<1>11. ASSUME NEW s \in Session, KeepAliveEnds(s) \/ CheckerExit(s)
       PROVE  Good
  BY <1>0, <1>11 DEF KeepAliveEnds, CheckerExit, LockInv, KeysOrdered, WinnerOwns,
                     OnlyLeadersCheck, Owner, S, etcd, election, leading
<1>12. ASSUME NEW i \in Instances, Crash(i)
       PROVE  Good
  <2>1. KeysOrdered' /\ WinnerOwns'
    BY <1>0, <1>12 DEF Crash, LockInv, KeysOrdered, WinnerOwns, Owner, S, TypeOK, etcd
  <2>2. OnlyLeadersCheck'
    BY <1>0, <1>12 DEF Crash, LockInv, OnlyLeadersCheck, S, TypeOK, Session
  <2> QED
    BY <2>1, <2>2
<1>13. ASSUME UNCHANGED vars
       PROVE  Good
  BY <1>13 DEF vars, etcd, election, leading, LockInv, KeysOrdered, WinnerOwns,
               OnlyLeadersCheck, Owner, S
<1>14. Good
  BY <1>1, <1>2, <1>3, <1>4, <1>5, <1>6, <1>7, <1>8, <1>9, <1>10, <1>11, <1>12, <1>13
  DEF Next, ElectionStep
<1> QED
  BY <1>0, <1>14 DEF LockInv

LEMMA LockInvariant == Spec => []LockInv
  BY InitLock, NextLock, PTL DEF Spec

(* Every reachable state is of the declared types: the flag isLeader, the
   leader context and the step of the election loop always change together. *)
THEOREM TypeCorrect == Spec => []TypeOK
<1>1. LockInv => TypeOK
  BY DEF LockInv
<1> QED
  BY <1>1, LockInvariant, PTL

(* Whatever leases are lost, however late an instance hears of it and wherever
   it crashes, the mutex is never somebody else's while an instance that leads
   has its lease. *)
THEOREM LeadersOwnTheLock == Spec => []LeaderOwnsLock
<1>1. LockInv => LeaderOwnsLock
  BY DEF LockInv, TypeOK, WinnerOwns, LeaderOwnsLock
<1> QED
  BY <1>1, LockInvariant, PTL

(* Two leaders never both have a lease: the split-brain window is the time
   from the expiry of a lease to the moment its holder notices. *)
THEOREM OneLeaseHoldingLeader == Spec => []OneLeaderWithLease
<1>1. LockInv => OneLeaderWithLease
  <2>1. SUFFICES ASSUME LockInv, NEW i \in Instances, NEW j \in Instances,
                        isLeader[i], isLeader[j], S(i) \in leases, S(j) \in leases
                 PROVE  i = j
    BY DEF OneLeaderWithLease
  <2>2. Owner(S(i)) /\ Owner(S(j))
    BY <2>1 DEF LockInv, TypeOK, WinnerOwns
  <2>3. rev[S(i)] \in Nat /\ rev[S(j)] \in Nat
    BY <2>1 DEF LockInv, TypeOK
  <2>4. S(i) = S(j)
    BY <2>1, <2>2, <2>3 DEF Owner, LockInv, KeysOrdered
  <2> QED
    BY <2>4, SessionsDiffer
<1> QED
  BY <1>1, LockInvariant, PTL

(* The context a continuity checker runs under is cancelled in the step in
   which its instance stops leading. *)
THEOREM CheckersAreTold == Spec => []OnlyLeadersCheck
<1>1. LockInv => OnlyLeadersCheck
  BY DEF LockInv
<1> QED
  BY <1>1, LockInvariant, PTL
=============================================================================
