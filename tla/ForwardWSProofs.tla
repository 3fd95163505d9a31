-------------------------- MODULE ForwardWSProofs --------------------------
(***************************************************************************)
(* The forward server, for any number of clients on any endpoints: types   *)
(* and mutexes, races included; then, until a race, what the slice lists,  *)
(* whom a push has served, and that every step is one of EventHub.         *)
(***************************************************************************)
EXTENDS ForwardWS, TLAPS, SequenceTheorems

\* An element of the loop is not beyond its end.
TInv == TypeOK /\ (pc \in {"lock", "write", "remove"} => i <= l)

----------------------------------------------------------------------------
(* Slices                                                                  *)

\* An append in place is still a slice of connections, whatever other appends
\* and pushes have done since the slice was read.
LEMMA InPlaceType ==
    ASSUME registry \in Seq(Conns), NEW old \in Seq(Conns), NEW c \in Conns
    PROVE  InPlace(old, c) \in Seq(Conns)
<1>1. \A k \in 1 .. Len(old) + 1 : k # Len(old) + 1 => k \in 1 .. Len(old)
  OBVIOUS
<1>2. ASSUME NEW k \in 1 .. Len(old) + 1
      PROVE  (IF k = Len(old) + 1 THEN c
              ELSE IF k <= Len(registry) THEN registry[k] ELSE old[k]) \in Conns
  BY <1>1
<1> QED  BY <1>2 DEF InPlace

LEMMA RemovedType ==
    ASSUME NEW s \in Seq(Conns), NEW k \in 1 .. Len(s)
    PROVE  Removed(s, k) \in Seq(Conns)
<1>1. SubSeq(s, 1, k - 1) \in Seq(Conns) /\ SubSeq(s, k + 1, Len(s)) \in Seq(Conns)
  OBVIOUS
<1> QED  BY <1>1 DEF Removed, RemoveAt

----------------------------------------------------------------------------
(* Types                                                                   *)

LEMMA InitTypes == Init => TInv
<1> SUFFICES ASSUME Init PROVE TInv
  OBVIOUS
<1>1. kind \in Mixes
  BY DEF Init
<1>2. registry \in Seq(Conns) /\ rest \in Seq(Conns) /\ seen \in [Conns -> Seq(Conns)]
  BY DEF Init
<1>3. /\ lock \in [Conns -> {"free", "push", "request"}]
      /\ request \in [Conns -> {"none", "call", "write"}]
      /\ phase \in [Conns -> {"new", "shaken", "store", "open"}]
  BY DEF Init
<1>4. dead = {} /\ closed = {} /\ served = {} /\ racy = FALSE
      /\ pc = "off" /\ i = 1 /\ l = 0 /\ conn = None
  BY DEF Init
<1>5. i \in Nat \ {0} /\ l \in Nat /\ pc \notin {"lock", "write", "remove"}
      /\ pc \in {"off", "at", "lock", "write", "remove"}
  BY <1>4
<1>6. /\ dead \subseteq Conns /\ closed \subseteq Conns /\ served \subseteq Conns
      /\ conn \in Conns \cup {None}
  BY <1>4
<1>7. racy \in BOOLEAN
  BY <1>4
<1> QED  BY <1>1, <1>2, <1>3, <1>5, <1>6, <1>7 DEF TInv, TypeOK

LEMMA ClientTypes ==
    ASSUME TInv, NEW c \in Conns,
           \/ Connect(c) \/ JoinEvent(c) \/ JoinAnyReads(c) \/ JoinAnyWrites(c)
           \/ ListenEnds(c) \/ Receive(c) \/ CallPanics(c) \/ RequestLock(c)
           \/ RequestEnds(c) \/ PeerGoes(c)
    PROVE  TInv'
<1> USE DEF TInv, loopVars, clientVars
<1>1. CASE Connect(c)
  BY <1>1 DEF Connect, TypeOK
<1>2. CASE JoinEvent(c)
  <2>1. registry' \in Seq(Conns) /\ racy' \in BOOLEAN
    BY <1>2 DEF JoinEvent, TypeOK
  <2> QED  BY <1>2, <2>1 DEF JoinEvent, TypeOK
<1>3. CASE JoinAnyReads(c)
  <2>1. racy' \in BOOLEAN
    BY <1>3 DEF JoinAnyReads
  <2> QED  BY <1>3, <2>1 DEF JoinAnyReads, TypeOK
<1>4. CASE JoinAnyWrites(c)
  <2>1. seen[c] \in Seq(Conns) /\ registry \in Seq(Conns)
    BY DEF TypeOK
  <2>2. Append(seen[c], c) \in Seq(Conns) /\ InPlace(seen[c], c) \in Seq(Conns)
    BY <2>1, InPlaceType
  <2>3. registry' \in Seq(Conns)
    BY <1>4, <2>2 DEF JoinAnyWrites
  <2>4. seen' \in [Conns -> Seq(Conns)]
    BY <1>4 DEF JoinAnyWrites, TypeOK
  <2> QED  BY <1>4, <2>3, <2>4 DEF JoinAnyWrites, TypeOK
<1>5. CASE ListenEnds(c) \/ Receive(c) \/ CallPanics(c)
  BY <1>5 DEF ListenEnds, Receive, CallPanics, TypeOK
<1>6. CASE RequestLock(c) \/ RequestEnds(c) \/ PeerGoes(c)
  BY <1>6 DEF RequestLock, RequestEnds, PeerGoes, TypeOK
<1> QED  BY <1>1, <1>2, <1>3, <1>4, <1>5, <1>6

LEMMA PushTypes == ASSUME TInv, PushBegins \/ PushStep PROVE TInv'
<1> USE DEF TInv, otherVars, clientVars
<1>1. CASE PushBegins
  <2>1. l' \in Nat /\ racy' \in BOOLEAN
    BY <1>1 DEF PushBegins, TypeOK
  <2> QED  BY <1>1, <2>1 DEF PushBegins, TypeOK
<1>2. CASE PushEnds
  BY <1>2 DEF PushEnds, Leave, TypeOK
<1>3. CASE PushNext
  <2>1. registry[i] \in Conns /\ i <= l
    BY <1>3 DEF PushNext, LoopOver, TypeOK
  <2> QED  BY <1>3, <2>1 DEF PushNext, TypeOK
<1>4. CASE PushLock
  BY <1>4 DEF PushLock, TypeOK
<1>5. CASE PushWrites
  BY <1>5 DEF PushWrites, TypeOK
<1>6. CASE PushFails
  <2>1. i \in 1 .. Len(registry) /\ registry \in Seq(Conns)
    BY <1>6 DEF PushFails, TypeOK
  <2>2. rest' \in Seq(Conns)
    BY <1>6, <2>1, RemovedType DEF PushFails
  <2> QED  BY <1>6, <2>2 DEF PushFails, AfterFailure, TypeOK
<1>7. CASE PushRemoves
  BY <1>7 DEF PushRemoves, SamePlace, TypeOK
<1>8. CASE PushPanics
  BY <1>8 DEF PushPanics, Leave, TypeOK
<1> QED  BY <1>1, <1>2, <1>3, <1>4, <1>5, <1>6, <1>7, <1>8 DEF PushStep

\* The loop over a slice that shrinks as it goes stays inside it, and the slice
\* is one of connections even when the appends of "/" race with it, for any
\* number of clients.
THEOREM TypeCorrect == Spec => []TypeOK
<1>1. TInv /\ [Next]_vars => TInv'
  <2>1. TInv /\ UNCHANGED vars => TInv'
    BY DEF TInv, TypeOK, vars
  <2> QED  BY <2>1, ClientTypes, PushTypes DEF Next
<1>2. TInv => TypeOK
  BY DEF TInv
<1> QED  BY <1>1, <1>2, InitTypes, PTL DEF Spec

----------------------------------------------------------------------------
(* Mutexes                                                                 *)

\* A step that locks nothing for a push, closes at most more, and is no step of
\* the push that is about to write
LEMMA NothingLocked ==
    ASSUME TypeOK, LeakIsClosed, closed \subseteq closed',
           \A c \in Conns : lock'[c] = "push" => lock[c] = "push",
           UNCHANGED <<pc, conn>>
    PROVE  LeakIsClosed'
BY DEF LeakIsClosed, Leaked

LEMMA ClientsLeak ==
    ASSUME TypeOK, LeakIsClosed, NEW c \in Conns,
           \/ Connect(c) \/ JoinEvent(c) \/ JoinAnyReads(c) \/ JoinAnyWrites(c)
           \/ ListenEnds(c) \/ Receive(c) \/ CallPanics(c) \/ RequestLock(c)
           \/ RequestEnds(c) \/ PeerGoes(c)
    PROVE  LeakIsClosed'
<1>1. UNCHANGED <<pc, conn>> /\ closed \subseteq closed'
  BY DEF Connect, JoinEvent, JoinAnyReads, JoinAnyWrites, ListenEnds, Receive,
         CallPanics, RequestLock, RequestEnds, PeerGoes, loopVars
<1>2. \A d \in Conns : lock'[d] = "push" => lock[d] = "push"
  BY DEF Connect, JoinEvent, JoinAnyReads, JoinAnyWrites, ListenEnds, Receive,
         CallPanics, RequestLock, RequestEnds, PeerGoes, TypeOK
<1> QED  BY <1>1, <1>2, NothingLocked

LEMMA PushesLeak ==
    ASSUME TypeOK, LeakIsClosed, PushBegins \/ PushStep
    PROVE  LeakIsClosed'
<1> USE DEF LeakIsClosed, Leaked
<1>1. CASE PushBegins \/ PushEnds \/ PushNext \/ PushRemoves
  BY <1>1 DEF PushBegins, PushEnds, PushNext, PushRemoves, Leave
<1>2. CASE PushLock
  BY <1>2 DEF PushLock, TypeOK
<1>3. CASE PushWrites
  BY <1>3 DEF PushWrites, TypeOK
<1>4. CASE PushFails
  BY <1>4 DEF PushFails, AfterFailure
<1>5. CASE PushPanics
  <2>1. pc = "write" => conn \in closed'
    BY <1>5, NoneAssumption DEF PushPanics, TypeOK
  <2> QED  BY <1>5, <2>1 DEF PushPanics, Leave
<1> QED  BY <1>1, <1>2, <1>3, <1>4, <1>5 DEF PushStep

\* The mutex that the path of a failed write never releases is that of a closed
\* connection: no client that is still served waits for it, whatever the number
\* of clients and however their appends race.
THEOREM LeaksAreClosed == Spec => []LeakIsClosed
<1>1. Init => LeakIsClosed
  BY DEF Init, LeakIsClosed, Leaked
<1>2. TypeOK /\ LeakIsClosed /\ [Next]_vars => LeakIsClosed'
  <2>1. TypeOK /\ LeakIsClosed /\ UNCHANGED vars => LeakIsClosed'
    BY DEF LeakIsClosed, Leaked, vars
  <2> QED  BY <2>1, ClientsLeak, PushesLeak DEF Next
<1> QED  BY <1>1, <1>2, TypeCorrect, PTL DEF Spec

----------------------------------------------------------------------------
(* Slices without duplicates                                               *)

LEMMA AppendOnce ==
    ASSUME NEW s \in Seq(Conns), IsInjective(s), NEW c \in Conns, c \notin ToSet(s)
    PROVE  /\ IsInjective(Append(s, c))
           /\ ToSet(Append(s, c)) = ToSet(s) \cup {c}
<1> DEFINE t == Append(s, c)
<1>1. t \in Seq(Conns) /\ Len(t) = Len(s) + 1 /\ t[Len(s) + 1] = c
      /\ \A k \in 1 .. Len(s) : t[k] = s[k]
  OBVIOUS
<1> HIDE DEF t
<1>2. DOMAIN s = 1 .. Len(s) /\ DOMAIN t = 1 .. Len(s) + 1
  BY <1>1
<1>3. \A k \in 1 .. Len(s) + 1 : k \in 1 .. Len(s) \/ k = Len(s) + 1
  OBVIOUS
<1>4. IsInjective(t)
  BY <1>1, <1>2, <1>3 DEF IsInjective, ToSet
<1>5. ToSet(t) = ToSet(s) \cup {c}
  <2>1. ToSet(t) \subseteq ToSet(s) \cup {c}
    BY <1>1, <1>2, <1>3 DEF ToSet
  <2>2. \A k \in 1 .. Len(s) : k \in 1 .. Len(s) + 1
    OBVIOUS
  <2>3. ToSet(s) \cup {c} \subseteq ToSet(t)
    BY <1>1, <1>2, <2>2 DEF ToSet
  <2> QED  BY <2>1, <2>3
<1> QED  BY <1>4, <1>5 DEF t

\* What removal leaves at each place
LEMMA RemovedPlaces ==
    ASSUME NEW s \in Seq(Conns), NEW k \in 1 .. Len(s)
    PROVE  /\ Removed(s, k) \in Seq(Conns) /\ Len(Removed(s, k)) = Len(s) - 1
           /\ \A n \in 1 .. Len(s) - 1 :
                 Removed(s, k)[n] = IF n < k THEN s[n] ELSE s[n + 1]
<1> DEFINE a == SubSeq(s, 1, k - 1)
           b == SubSeq(s, k + 1, Len(s))
<1>1. a \in Seq(Conns) /\ Len(a) = k - 1 /\ \A n \in 1 .. k - 1 : a[n] = s[n]
  OBVIOUS
<1>2. b \in Seq(Conns) /\ Len(b) = Len(s) - k /\ \A n \in 1 .. Len(s) - k : b[n] = s[k + n]
  OBVIOUS
<1>3. Removed(s, k) = a \o b
  BY DEF Removed, RemoveAt
<1> HIDE DEF a, b
<1>4. a \o b \in Seq(Conns) /\ Len(a \o b) = Len(s) - 1
  <2>1. a \o b \in Seq(Conns)
    BY <1>1, <1>2
  <2>2. Len(a \o b) = Len(a) + Len(b)
    BY <1>1, <1>2, ConcatProperties
  <2>3. (k - 1) + (Len(s) - k) = Len(s) - 1
    OBVIOUS
  <2> QED  BY <1>1, <1>2, <2>1, <2>2, <2>3
<1>5. ASSUME NEW n \in 1 .. Len(s) - 1
      PROVE  (a \o b)[n] = IF n < k THEN s[n] ELSE s[n + 1]
  <2>1. CASE n < k
    BY <1>1, <1>2, <2>1
  <2>2. CASE n >= k
    <3>1. n - (k - 1) \in 1 .. Len(s) - k /\ k + (n - (k - 1)) = n + 1
      BY <2>2
    <3>2. (a \o b)[n] = b[n - (k - 1)]
      BY <1>1, <1>2, <2>2
    <3> QED  BY <1>2, <2>2, <3>1, <3>2
  <2>3. n < k \/ n >= k
    OBVIOUS
  <2> QED  BY <2>1, <2>2, <2>3
<1> QED  BY <1>3, <1>4, <1>5

LEMMA RemovedOnce ==
    ASSUME NEW s \in Seq(Conns), IsInjective(s), NEW k \in 1 .. Len(s)
    PROVE  /\ IsInjective(Removed(s, k))
           /\ ToSet(Removed(s, k)) = ToSet(s) \ {s[k]}
<1> DEFINE t == Removed(s, k)
<1>1. t \in Seq(Conns) /\ Len(t) = Len(s) - 1
      /\ \A n \in 1 .. Len(s) - 1 : t[n] = IF n < k THEN s[n] ELSE s[n + 1]
  BY RemovedPlaces
<1> HIDE DEF t
<1>2. DOMAIN s = 1 .. Len(s) /\ DOMAIN t = 1 .. Len(s) - 1
  BY <1>1
<1>3. \A n \in 1 .. Len(s) - 1 : n \in 1 .. Len(s) /\ n + 1 \in 1 .. Len(s)
  OBVIOUS
<1>4. IsInjective(t)
  <2> SUFFICES ASSUME NEW m \in 1 .. Len(s) - 1, NEW n \in 1 .. Len(s) - 1, t[m] = t[n]
               PROVE  m = n
    BY <1>2 DEF IsInjective
  <2> DEFINE f(x) == IF x < k THEN x ELSE x + 1
  <2>1. t[m] = s[f(m)] /\ t[n] = s[f(n)] /\ f(m) \in DOMAIN s /\ f(n) \in DOMAIN s
    BY <1>1, <1>2, <1>3
  <2>2. f(m) = f(n)
    BY <2>1 DEF IsInjective
  <2> QED  BY <2>2
<1>5. ToSet(t) \subseteq ToSet(s) \ {s[k]}
  <2> SUFFICES ASSUME NEW n \in 1 .. Len(s) - 1 PROVE t[n] \in ToSet(s) /\ t[n] # s[k]
    BY <1>2 DEF ToSet
  <2> DEFINE f == IF n < k THEN n ELSE n + 1
  <2>1. t[n] = s[f] /\ f \in DOMAIN s /\ f # k
    BY <1>1, <1>2, <1>3
  <2> QED  BY <1>2, <2>1 DEF ToSet, IsInjective
<1>6. ToSet(s) \ {s[k]} \subseteq ToSet(t)
  <2> SUFFICES ASSUME NEW n \in 1 .. Len(s), n # k PROVE s[n] \in ToSet(t)
    BY <1>2 DEF ToSet
  <2> DEFINE g == IF n < k THEN n ELSE n - 1
  <2>1. g \in 1 .. Len(s) - 1 /\ t[g] = s[n]
    <3>1. CASE n < k
      BY <1>1, <3>1
    <3>2. CASE n > k
      BY <1>1, <3>2
    <3> QED  BY <3>1, <3>2
  <2> QED  BY <1>2, <2>1 DEF ToSet
<1> QED  BY <1>4, <1>5, <1>6 DEF t

----------------------------------------------------------------------------
(* The invariant                                                           *)

\* Who holds a mutex, races or not
Locks ==
    /\ \A c \in Conns : request[c] = "write" => lock[c] = "request"
    /\ pc \in {"write", "remove"} => lock[conn] = "push"

\* A client that is to be appended is a subscriber.
Subscribes == \A c \in Conns : phase[c] \in {"shaken", "store"} => kind[c] # "api"

Registered(c) ==
    /\ kind[c] # "api" /\ phase[c] = "open"
    /\ Leaked(c) => pc = "remove" /\ conn = c

SliceExact ==
    IsInjective(registry) /\ ToSet(registry) = {c \in Conns : Registered(c)}

\* The append of "/" is alone, and the slice it has read is still the slice.
AppendAlone ==
    \A c \in Conns : phase[c] = "store" =>
        pc = "off" /\ seen[c] = registry /\ \A d \in Conns : phase[d] = "store" => d = c

\* A push has locked no connection but one that was in the slice.
LockedWasOpen == \A c \in Conns : lock[c] = "push" => phase[c] = "open"

LoopInOrder ==
    pc # "off" =>
        /\ l = Len(registry) /\ i <= l + 1
        /\ \A k \in 1 .. l : registry[k] \in served <=> k < i

\* The connection the push is at
AtConn ==
    /\ pc \in {"lock", "write", "remove"} => i <= l /\ conn = registry[i]
    /\ pc = "remove" => rest = Removed(registry, i)

HInv ==
    /\ Subscribes
    /\ ~racy => SliceExact /\ AppendAlone /\ LockedWasOpen /\ LoopInOrder /\ AtConn

LEMMA LocksHold == Spec => []Locks
<1>1. Init => Locks
  BY DEF Init, Locks
<1>2. TypeOK /\ Locks /\ [Next]_vars => Locks'
  <2> SUFFICES ASSUME TypeOK, Locks, [Next]_vars PROVE Locks'
    OBVIOUS
  <2> USE DEF Locks, loopVars, clientVars, otherVars
  <2>1. CASE UNCHANGED vars
    BY <2>1 DEF vars
  <2>2. ASSUME NEW c \in Conns,
               \/ Connect(c) \/ JoinEvent(c) \/ JoinAnyReads(c) \/ JoinAnyWrites(c)
               \/ ListenEnds(c) \/ PeerGoes(c)
        PROVE  Locks'
    BY <2>2 DEF Connect, JoinEvent, JoinAnyReads, JoinAnyWrites, ListenEnds, PeerGoes
  <2>3. ASSUME NEW c \in Conns,
               Receive(c) \/ CallPanics(c) \/ RequestLock(c) \/ RequestEnds(c)
        PROVE  Locks'
    <3>1. UNCHANGED <<pc, conn>> /\ (pc \in {"write", "remove"} => conn \in Conns)
      BY <2>3 DEF Receive, CallPanics, RequestLock, RequestEnds, TypeOK
    <3>2. CASE Receive(c) \/ CallPanics(c)
      BY <3>1, <3>2 DEF Receive, CallPanics, TypeOK
    <3>3. CASE RequestLock(c)
      BY <3>1, <3>3 DEF RequestLock, TypeOK
    <3>4. CASE RequestEnds(c)
      BY <3>1, <3>4 DEF RequestEnds, TypeOK
    <3> QED  BY <2>3, <3>2, <3>3, <3>4
  <2>4. CASE PushBegins \/ PushEnds \/ PushNext \/ PushRemoves \/ PushPanics \/ PushFails
    BY <2>4 DEF PushBegins, PushEnds, PushNext, PushRemoves, PushPanics, PushFails, Leave
  <2>5. CASE PushLock \/ PushWrites
    BY <2>5 DEF PushLock, PushWrites, TypeOK
  <2> QED  BY <2>1, <2>2, <2>3, <2>4, <2>5 DEF Next, PushStep
<1> QED  BY <1>1, <1>2, TypeCorrect, PTL DEF Spec

LEMMA InitHolds == Init => HInv
<1> SUFFICES ASSUME Init PROVE HInv
  OBVIOUS
<1>1. \A c \in Conns : phase[c] = "new" /\ lock[c] = "free"
  BY DEF Init
<1>2. registry = <<>> /\ pc = "off"
  BY DEF Init
<1>3. IsInjective(registry) /\ ToSet(registry) = {}
  BY <1>2 DEF IsInjective, ToSet
<1>4. SliceExact
  BY <1>1, <1>3 DEF SliceExact, Registered
<1> QED  BY <1>1, <1>2, <1>4
         DEF HInv, Subscribes, AppendAlone, LockedWasOpen, LoopInOrder, AtConn

\* A step of a request or of the network, which holds no lock of a push and
\* touches neither the slice nor the loop
LEMMA LooksAway ==
    ASSUME TypeOK, HInv, UNCHANGED <<kind, phase, registry, seen, loopVars, racy>>,
           \A c \in Conns : lock'[c] = "push" <=> lock[c] = "push"
    PROVE  HInv'
<1> USE DEF loopVars
<1>1. Subscribes'
  BY DEF HInv, Subscribes
<1>2. \A c \in Conns : Registered(c)' <=> Registered(c)
  BY DEF Registered, Leaked
<1>3. ASSUME ~racy' PROVE (SliceExact /\ AppendAlone /\ LockedWasOpen /\ LoopInOrder)'
  BY <1>2, <1>3 DEF HInv, SliceExact, AppendAlone, LockedWasOpen, LoopInOrder
<1>4. ASSUME ~racy' PROVE AtConn'
  BY <1>4 DEF HInv, AtConn, TypeOK
<1> QED  BY <1>1, <1>3, <1>4 DEF HInv

LEMMA ClientsKeepOrder ==
    ASSUME TypeOK, Locks, HInv, NEW c \in Conns,
           \/ Connect(c) \/ JoinEvent(c) \/ JoinAnyReads(c) \/ JoinAnyWrites(c)
           \/ ListenEnds(c) \/ Receive(c) \/ CallPanics(c) \/ RequestLock(c)
           \/ RequestEnds(c) \/ PeerGoes(c)
    PROVE  HInv'
<1> USE DEF loopVars, clientVars
<1>1. CASE Connect(c)
  <2>1. phase[c] = "new" /\ phase' = [phase EXCEPT ![c] = IF kind[c] = "api" THEN "open" ELSE "shaken"]
        /\ UNCHANGED <<kind, lock, registry, seen, pc, i, l, conn, rest, served, racy>>
    BY <1>1 DEF Connect
  <2>2. Subscribes'
    BY <2>1 DEF HInv, Subscribes, TypeOK
  <2>3. \A d \in Conns : Registered(d)' <=> Registered(d)
    BY <2>1 DEF Registered, Leaked, TypeOK
  <2>4. ASSUME ~racy PROVE (SliceExact /\ LoopInOrder /\ AtConn)'
    BY <2>1, <2>3, <2>4 DEF HInv, SliceExact, LoopInOrder, AtConn
  <2>5. ASSUME ~racy PROVE (AppendAlone /\ LockedWasOpen)'
    BY <2>1, <2>5 DEF HInv, AppendAlone, LockedWasOpen, TypeOK
  <2> QED  BY <2>1, <2>2, <2>4, <2>5 DEF HInv
<1>2. CASE JoinEvent(c)
  <2>1. phase[c] = "shaken" /\ kind[c] = "event" /\ pc = "off" /\ registry' = Append(registry, c)
        /\ phase' = [phase EXCEPT ![c] = "open"]
        /\ UNCHANGED <<kind, lock, seen, pc, i, l, conn, rest, served>>
    BY <1>2 DEF JoinEvent
  <2>2. Subscribes'
    BY <2>1 DEF HInv, Subscribes, TypeOK
  <2> SUFFICES ASSUME ~racy'
               PROVE  (SliceExact /\ AppendAlone /\ LockedWasOpen /\ LoopInOrder /\ AtConn)'
    BY <2>2 DEF HInv
  <2>3. ~racy /\ \A d \in Conns \ {c} : phase[d] # "store"
    BY <1>2 DEF JoinEvent, Overlapping, TypeOK
  <2>4. SliceExact'
    <3>1. lock[c] # "push" /\ c \notin ToSet(registry)
      BY <2>1, <2>3 DEF HInv, LockedWasOpen, SliceExact, Registered
    <3>2. IsInjective(registry') /\ ToSet(registry') = ToSet(registry) \cup {c}
      BY <2>1, <2>3, <3>1, AppendOnce DEF HInv, SliceExact, TypeOK
    <3>3. \A d \in Conns : Registered(d)' <=> Registered(d) \/ d = c
      BY <2>1, <3>1 DEF Registered, Leaked, TypeOK
    <3> QED  BY <2>3, <3>2, <3>3 DEF HInv, SliceExact
  <2>5. (AppendAlone /\ LockedWasOpen)'
    BY <2>1, <2>3 DEF HInv, AppendAlone, LockedWasOpen, TypeOK
  <2> QED  BY <2>1, <2>4, <2>5 DEF LoopInOrder, AtConn
<1>3. CASE JoinAnyReads(c)
  <2>1. phase[c] = "shaken" /\ kind[c] = "any" /\ phase' = [phase EXCEPT ![c] = "store"]
        /\ seen' = [seen EXCEPT ![c] = registry]
        /\ UNCHANGED <<kind, lock, registry, pc, i, l, conn, rest, served>>
    BY <1>3 DEF JoinAnyReads
  <2>2. Subscribes'
    BY <2>1 DEF HInv, Subscribes, TypeOK
  <2> SUFFICES ASSUME ~racy'
               PROVE  (SliceExact /\ AppendAlone /\ LockedWasOpen /\ LoopInOrder /\ AtConn)'
    BY <2>2 DEF HInv
  <2>3. ~racy /\ pc = "off" /\ \A d \in Conns \ {c} : phase[d] # "store"
    BY <1>3 DEF JoinAnyReads, Overlapping, TypeOK
  <2>4. \A d \in Conns : Registered(d)' <=> Registered(d)
    BY <2>1 DEF Registered, Leaked, TypeOK
  <2>5. SliceExact'
    BY <2>1, <2>3, <2>4 DEF HInv, SliceExact
  <2>6. (AppendAlone /\ LockedWasOpen)'
    BY <2>1, <2>3 DEF HInv, AppendAlone, LockedWasOpen, TypeOK
  <2> QED  BY <2>1, <2>3, <2>5, <2>6 DEF LoopInOrder, AtConn
<1>4. CASE JoinAnyWrites(c)
  <2>1. phase[c] = "store" /\ registry' \in {Append(seen[c], c), InPlace(seen[c], c)}
        /\ phase' = [phase EXCEPT ![c] = "open"] /\ seen' = [seen EXCEPT ![c] = <<>>]
        /\ UNCHANGED <<kind, lock, pc, i, l, conn, rest, served, racy>>
    BY <1>4 DEF JoinAnyWrites
  <2>2. Subscribes'
    BY <2>1 DEF HInv, Subscribes, TypeOK
  <2> SUFFICES ASSUME ~racy'
               PROVE  (SliceExact /\ AppendAlone /\ LockedWasOpen /\ LoopInOrder /\ AtConn)'
    BY <2>2 DEF HInv
  <2>3. ~racy /\ pc = "off" /\ seen[c] = registry /\ \A d \in Conns \ {c} : phase[d] # "store"
    BY <2>1 DEF HInv, AppendAlone
  <2>4. SliceExact'
    <3>1. registry' = Append(registry, c)
      <4>1. InPlace(registry, c) = Append(registry, c)
        <5> DEFINE t == Append(registry, c)
        <5>1. t \in Seq(Conns) /\ Len(t) = Len(registry) + 1
              /\ \A k \in 1 .. Len(registry) + 1 :
                    t[k] = IF k = Len(registry) + 1 THEN c ELSE registry[k]
          BY DEF TypeOK
        <5>2. \A k \in 1 .. Len(registry) + 1 : k # Len(registry) + 1 => k <= Len(registry)
          BY DEF TypeOK
        <5> HIDE DEF t
        <5>3. t = [k \in 1 .. Len(registry) + 1 |-> t[k]]
          BY <5>1
        <5>4. InPlace(registry, c) = t
          BY <5>1, <5>2, <5>3 DEF InPlace
        <5> QED  BY <5>4 DEF t
      <4> QED  BY <2>1, <2>3, <4>1
    <3>2. lock[c] # "push" /\ c \notin ToSet(registry) /\ kind[c] # "api"
      BY <2>1, <2>3 DEF HInv, Subscribes, LockedWasOpen, SliceExact, Registered
    <3>3. IsInjective(registry') /\ ToSet(registry') = ToSet(registry) \cup {c}
      BY <2>3, <3>1, <3>2, AppendOnce DEF HInv, SliceExact, TypeOK
    <3>4. \A d \in Conns : Registered(d)' <=> Registered(d) \/ d = c
      BY <2>1, <3>2 DEF Registered, Leaked, TypeOK
    <3> QED  BY <2>3, <3>3, <3>4 DEF HInv, SliceExact
  <2>5. (AppendAlone /\ LockedWasOpen)'
    BY <2>1, <2>3 DEF HInv, AppendAlone, LockedWasOpen, TypeOK
  <2> QED  BY <2>1, <2>3, <2>4, <2>5 DEF LoopInOrder, AtConn
<1>5. CASE ListenEnds(c) \/ Receive(c) \/ CallPanics(c) \/ PeerGoes(c)
  <2>1. UNCHANGED <<kind, phase, registry, seen, loopVars, racy, lock>>
    BY <1>5 DEF ListenEnds, Receive, CallPanics, PeerGoes
  <2> QED  BY <2>1, LooksAway
<1>6. CASE RequestLock(c)
  <2>1. UNCHANGED <<kind, phase, registry, seen, loopVars, racy>>
        /\ lock[c] = "free" /\ lock' = [lock EXCEPT ![c] = "request"]
    BY <1>6 DEF RequestLock
  <2>2. \A d \in Conns : lock'[d] = "push" <=> lock[d] = "push"
    BY <2>1 DEF TypeOK
  <2> QED  BY <2>1, <2>2, LooksAway
<1>7. CASE RequestEnds(c)
  <2>1. UNCHANGED <<kind, phase, registry, seen, loopVars, racy>>
        /\ lock[c] = "request" /\ lock' = [lock EXCEPT ![c] = "free"]
    BY <1>7 DEF RequestEnds, Locks
  <2>2. \A d \in Conns : lock'[d] = "push" <=> lock[d] = "push"
    BY <2>1 DEF TypeOK
  <2> QED  BY <2>1, <2>2, LooksAway
<1> QED  BY <1>1, <1>2, <1>3, <1>4, <1>5, <1>6, <1>7

LEMMA PushesKeepOrder ==
    ASSUME TypeOK, Locks, HInv, PushBegins \/ PushStep
    PROVE  HInv'
<1> USE DEF otherVars, clientVars
<1>1. UNCHANGED <<kind, phase, seen>> /\ Subscribes'
  BY DEF PushBegins, PushStep, PushEnds, PushNext, PushLock, PushWrites, PushFails,
         PushRemoves, PushPanics, HInv, Subscribes
<1> SUFFICES ASSUME ~racy'
             PROVE  (SliceExact /\ AppendAlone /\ LockedWasOpen /\ LoopInOrder /\ AtConn)'
  BY <1>1 DEF HInv
<1>2. ~racy
  BY DEF PushBegins, PushStep, PushEnds, PushNext, PushLock, PushWrites, PushFails,
         PushRemoves, PushPanics, TypeOK
<1>3. SliceExact /\ AppendAlone /\ LockedWasOpen /\ LoopInOrder /\ AtConn
  BY <1>2 DEF HInv
<1>4. registry \in Seq(Conns) /\ DOMAIN registry = 1 .. Len(registry) /\ i \in Nat \ {0}
  BY DEF TypeOK
<1>5. AppendAlone'
  <2>1. \A c \in Conns : phase[c] # "store"
    BY <1>2, <1>3 DEF AppendAlone, PushBegins, PushStep, PushEnds, PushNext, PushLock,
       PushWrites, PushFails, PushRemoves, PushPanics
  <2> QED  BY <1>1, <2>1 DEF AppendAlone
<1>6. CASE PushBegins
  <2>1. pc = "off" /\ pc' = "at" /\ i' = 1 /\ l' = Len(registry) /\ served' = {}
        /\ UNCHANGED <<lock, registry>>
    BY <1>6 DEF PushBegins
  <2>2. SliceExact'
    BY <1>1, <1>3, <2>1 DEF SliceExact, Registered, Leaked
  <2>3. LoopInOrder' /\ AtConn'
    BY <1>4, <2>1 DEF LoopInOrder, AtConn
  <2> QED  BY <1>1, <1>3, <1>5, <2>1, <2>2, <2>3 DEF LockedWasOpen
<1>7. CASE PushEnds
  <2>1. pc = "at" /\ pc' = "off" /\ UNCHANGED <<lock, registry>>
    BY <1>7 DEF PushEnds, Leave
  <2>2. SliceExact'
    BY <1>1, <1>3, <2>1 DEF SliceExact, Registered, Leaked
  <2> QED  BY <1>1, <1>3, <1>5, <2>1, <2>2 DEF LockedWasOpen, LoopInOrder, AtConn
<1>8. CASE PushNext
  <2>1. pc = "at" /\ pc' = "lock" /\ i <= l /\ conn' = registry[i]
        /\ UNCHANGED <<lock, registry, i, l, served>>
    BY <1>4, <1>8 DEF PushNext, LoopOver, TypeOK
  <2>2. SliceExact'
    BY <1>1, <1>3, <2>1 DEF SliceExact, Registered, Leaked
  <2> QED  BY <1>1, <1>3, <1>5, <2>1, <2>2 DEF LockedWasOpen, LoopInOrder, AtConn
<1>9. CASE PushLock
  <2>1. pc = "lock" /\ lock[conn] = "free" /\ lock' = [lock EXCEPT ![conn] = "push"]
        /\ pc' = "write" /\ conn \in Conns /\ UNCHANGED <<registry, i, l, conn, served>>
    BY <1>9 DEF PushLock, TypeOK
  <2>2. \A c \in Conns : Registered(c)' <=> Registered(c)
    BY <1>1, <2>1 DEF Registered, Leaked, TypeOK
  <2>3. i <= l /\ conn = registry[i] /\ l = Len(registry)
    BY <1>3, <2>1 DEF AtConn, LoopInOrder
  <2>4. conn \in ToSet(registry)
    BY <1>4, <2>3 DEF ToSet
  <2>5. phase[conn] = "open"
    BY <1>3, <2>1, <2>4 DEF SliceExact, Registered
  <2>6. LockedWasOpen'
    BY <1>1, <1>3, <2>1, <2>5 DEF LockedWasOpen, TypeOK
  <2>7. SliceExact'
    BY <1>3, <2>1, <2>2 DEF SliceExact
  <2> QED  BY <1>3, <1>5, <2>1, <2>3, <2>6, <2>7 DEF LoopInOrder, AtConn
<1>10. CASE PushWrites
  <2>1. pc = "write" /\ lock' = [lock EXCEPT ![conn] = "free"] /\ served' = served \cup {conn}
        /\ i' = i + 1 /\ pc' = "at" /\ conn' = None /\ conn \in Conns /\ UNCHANGED <<registry, l>>
    BY <1>10 DEF PushWrites, TypeOK
  <2>2. \A c \in Conns : Registered(c)' <=> Registered(c)
    BY <1>1, <2>1 DEF Registered, Leaked, TypeOK
  <2>3. i <= l /\ conn = registry[i] /\ l = Len(registry)
    BY <1>3, <2>1 DEF AtConn, LoopInOrder
  <2>4. \A k \in 1 .. l : registry[k] = conn <=> k = i
    <3>1. i \in DOMAIN registry
      BY <1>4, <2>3
    <3> QED  BY <1>3, <1>4, <2>3, <3>1 DEF SliceExact, IsInjective
  <2>5. LoopInOrder'
    <3>1. \A k \in 1 .. l : registry[k] \in served <=> k < i
      BY <1>3, <2>1 DEF LoopInOrder
    <3>2. \A k \in 1 .. l : registry[k] \in served' <=> k < i'
      BY <1>4, <2>1, <2>4, <3>1 DEF TypeOK
    <3> QED  BY <1>4, <2>1, <2>3, <3>2 DEF LoopInOrder, TypeOK
  <2>6. LockedWasOpen'
    BY <1>1, <1>3, <2>1 DEF LockedWasOpen, TypeOK
  <2>7. SliceExact'
    BY <1>3, <2>1, <2>2 DEF SliceExact
  <2> QED  BY <1>5, <2>1, <2>5, <2>6, <2>7 DEF AtConn
<1>11. CASE PushFails
  <2>1. pc = "write" /\ rest' = Removed(registry, i) /\ pc' = "remove"
        /\ UNCHANGED <<lock, registry, i, l, conn, served>>
    BY <1>11 DEF PushFails
  <2>2. \A c \in Conns : Registered(c)' <=> Registered(c)
    BY <1>1, <2>1 DEF Registered, Leaked
  <2>3. SliceExact'
    BY <1>3, <2>1, <2>2 DEF SliceExact
  <2> QED  BY <1>1, <1>3, <1>5, <2>1, <2>3 DEF LockedWasOpen, LoopInOrder, AtConn
<1>12. CASE PushRemoves
  <2>1. pc = "remove" /\ registry' = rest /\ i' = i /\ l' = l - 1 /\ pc' = "at" /\ conn' = None
        /\ conn \in Conns /\ UNCHANGED <<lock, served>>
    BY <1>12 DEF PushRemoves, SamePlace, TypeOK
  <2>2. i \in 1 .. Len(registry) /\ conn = registry[i] /\ l = Len(registry)
        /\ rest = Removed(registry, i)
    BY <1>3, <1>4, <2>1 DEF AtConn, LoopInOrder
  <2>3. \A c \in Conns : Registered(c)' <=> Registered(c) /\ c # conn
    BY <1>1, <2>1, NoneAssumption DEF Registered, Leaked, Locks
  <2>4. IsInjective(rest) /\ ToSet(rest) = ToSet(registry) \ {conn}
    BY <1>3, <1>4, <2>2, RemovedOnce DEF SliceExact
  <2>5. SliceExact'
    BY <1>3, <2>1, <2>3, <2>4 DEF SliceExact
  <2>6. LoopInOrder'
    <3>1. Len(rest) = Len(registry) - 1
          /\ \A n \in 1 .. Len(registry) - 1 :
                rest[n] = IF n < i THEN registry[n] ELSE registry[n + 1]
      BY <1>4, <2>2, RemovedPlaces
    <3>2. \A k \in 1 .. l : registry[k] \in served <=> k < i
      BY <1>3, <2>1 DEF LoopInOrder
    <3>3. \A k \in 1 .. l - 1 : rest[k] \in served <=> k < i
      BY <1>4, <2>2, <3>1, <3>2
    <3> QED  BY <1>4, <2>1, <2>2, <3>1, <3>3 DEF LoopInOrder
  <2>7. LockedWasOpen'
    BY <1>1, <1>3, <2>1 DEF LockedWasOpen
  <2> QED  BY <1>5, <2>1, <2>5, <2>6, <2>7 DEF AtConn
<1>13. ~PushPanics
  <2>1. pc # "off" => l = Len(registry) /\ \A c \in Conns : phase[c] # "store"
    BY <1>3 DEF LoopInOrder, AppendAlone
  <2>2. l \in Nat /\ i \in Nat /\ (i > l => ~(i <= l))
    BY DEF TypeOK
  <2> QED  BY <2>1, <2>2 DEF PushPanics, LoopOver
<1> QED  BY <1>6, <1>7, <1>8, <1>9, <1>10, <1>11, <1>12, <1>13 DEF PushStep

LEMMA OrderHolds == Spec => []HInv
<1>1. TypeOK /\ Locks /\ HInv /\ [Next]_vars => HInv'
  <2> SUFFICES ASSUME TypeOK, Locks, HInv, [Next]_vars PROVE HInv'
    OBVIOUS
  <2>1. CASE UNCHANGED vars
    <3>1. UNCHANGED <<kind, phase, registry, seen, loopVars, racy, lock>>
      BY <2>1 DEF vars, loopVars
    <3> QED  BY <3>1, LooksAway
  <2> QED  BY <2>1, ClientsKeepOrder, PushesKeepOrder DEF Next
<1> QED  BY <1>1, InitHolds, TypeCorrect, LocksHold, PTL DEF Spec

\* Until a race the slice lists exactly the clients that are subscribed, each
\* once, although /event, "/" and the loop of onBotPushEvent all change it, for
\* any number of clients.
THEOREM SliceIsExact == Spec => []RegistryExact
<1>1. HInv => RegistryExact
  BY DEF HInv, SliceExact, Registered, RegistryExact
<1> QED  BY <1>1, OrderHolds, PTL

\* Until a race a push serves those before its index and nobody else, although
\* it removes clients from the slice it walks.
THEOREM PushServesInOrder == Spec => []ServesInOrder
<1>1. HInv => ServesInOrder
  BY DEF HInv, LoopInOrder, ServesInOrder
<1> QED  BY <1>1, OrderHolds, PTL

----------------------------------------------------------------------------
(* The refinement                                                          *)

LEMMA HubStays ==
    ASSUME UNCHANGED <<registry, pc, rest, served>>
    PROVE  UNCHANGED Hub!hub
BY DEF Hub!hub, Subscribed

LEMMA ClientsRefine ==
    ASSUME TypeOK, Locks, HInv, HInv', ~racy, ~racy', NEW c \in Conns,
           \/ Connect(c) \/ JoinEvent(c) \/ JoinAnyReads(c) \/ JoinAnyWrites(c)
           \/ ListenEnds(c) \/ Receive(c) \/ CallPanics(c) \/ RequestLock(c)
           \/ RequestEnds(c) \/ PeerGoes(c)
    PROVE  [Hub!Next]_(Hub!hub)
<1> USE DEF loopVars, clientVars
<1>1. CASE JoinEvent(c) \/ JoinAnyWrites(c)
  <2>1. pc = "off" /\ phase[c] # "open"
        /\ phase' = [phase EXCEPT ![c] = "open"] /\ UNCHANGED <<kind, lock, pc, conn, served>>
    BY <1>1 DEF JoinEvent, JoinAnyWrites, HInv, AppendAlone
  <2>2. lock[c] # "push" /\ kind[c] # "api"
    BY <1>1, <2>1 DEF HInv, LockedWasOpen, Subscribes, JoinEvent, JoinAnyWrites
  <2>3. \A d \in Conns : Registered(d)' <=> Registered(d) \/ d = c
    BY <2>1, <2>2 DEF Registered, Leaked, TypeOK
  <2>4. ToSet(registry)' = ToSet(registry) \cup {c} /\ c \notin ToSet(registry)
    BY <2>1, <2>3 DEF HInv, SliceExact, Registered
  <2>5. Subscribed = ToSet(registry) /\ Subscribed' = ToSet(registry)'
    BY <2>1 DEF Subscribed
  <2>6. Hub!Subscribe(c)
    BY <2>1, <2>4, <2>5 DEF Hub!Subscribe
  <2> QED  BY <2>6 DEF Hub!Next
<1>2. CASE Connect(c) \/ JoinAnyReads(c) \/ ListenEnds(c) \/ Receive(c) \/ CallPanics(c)
           \/ RequestLock(c) \/ RequestEnds(c) \/ PeerGoes(c)
  <2>1. UNCHANGED <<registry, pc, rest, served>>
    BY <1>2 DEF Connect, JoinAnyReads, ListenEnds, Receive, CallPanics, RequestLock,
       RequestEnds, PeerGoes
  <2> QED  BY <2>1, HubStays
<1> QED  BY <1>1, <1>2

LEMMA PushesRefine ==
    ASSUME TypeOK, Locks, HInv, ~racy, PushBegins \/ PushStep
    PROVE  [Hub!Next]_(Hub!hub)
<1>1. SliceExact /\ AppendAlone /\ LoopInOrder /\ AtConn
  BY DEF HInv
<1>2. registry \in Seq(Conns) /\ DOMAIN registry = 1 .. Len(registry) /\ i \in Nat \ {0}
      /\ l \in Nat
  BY DEF TypeOK
<1>3. CASE PushBegins
  <2>1. pc = "off" /\ pc' = "at" /\ served' = {} /\ UNCHANGED registry
    BY <1>3 DEF PushBegins
  <2>2. Subscribed' = Subscribed
    BY <2>1 DEF Subscribed
  <2>3. Hub!Begin
    BY <2>1, <2>2 DEF Hub!Begin
  <2> QED  BY <2>3 DEF Hub!Next
<1>4. CASE PushEnds
  <2>1. pc = "at" /\ pc' = "off" /\ i > l /\ UNCHANGED registry
    BY <1>4 DEF PushEnds, Leave, LoopOver
  <2>2. Subscribed' = Subscribed /\ Subscribed = ToSet(registry)
    BY <2>1 DEF Subscribed
  <2>3. \A k \in 1 .. l : k < i
    BY <1>2, <2>1
  <2>4. \A k \in DOMAIN registry : registry[k] \in served
    BY <1>1, <1>2, <2>1, <2>3 DEF LoopInOrder
  <2>5. Subscribed \subseteq served
    BY <2>2, <2>4 DEF ToSet
  <2>6. Hub!End
    BY <2>1, <2>2, <2>5 DEF Hub!End
  <2> QED  BY <2>6 DEF Hub!Next
<1>5. CASE PushNext \/ PushLock
  <2>1. pc \in {"at", "lock"} /\ pc' \in {"lock", "write"} /\ UNCHANGED <<registry, served>>
    BY <1>5 DEF PushNext, PushLock
  <2>2. Subscribed' = Subscribed
    BY <2>1 DEF Subscribed
  <2> QED  BY <2>1, <2>2 DEF Hub!hub
<1>6. ASSUME pc = "write"
      PROVE  conn \in ToSet(registry) /\ conn \notin served /\ conn \in Conns
             /\ i \in 1 .. Len(registry) /\ conn = registry[i]
  <2>1. i \in 1 .. Len(registry) /\ conn = registry[i] /\ l = Len(registry)
    BY <1>1, <1>2, <1>6 DEF AtConn, LoopInOrder
  <2>2. registry[i] \notin served
    BY <1>1, <1>2, <1>6, <2>1 DEF LoopInOrder
  <2> QED  BY <1>2, <1>6, <2>1, <2>2 DEF ToSet, TypeOK
<1>7. CASE PushWrites
  <2>1. pc = "write" /\ pc' = "at" /\ served' = served \cup {conn} /\ UNCHANGED registry
    BY <1>7 DEF PushWrites
  <2>2. Subscribed' = Subscribed /\ Subscribed = ToSet(registry)
    BY <2>1 DEF Subscribed
  <2>3. Hub!Deliver(conn)
    BY <1>6, <2>1, <2>2 DEF Hub!Deliver
  <2> QED  BY <1>6, <2>1, <2>3 DEF Hub!Next
<1>8. CASE PushFails
  <2>1. pc = "write" /\ pc' = "remove" /\ rest' = Removed(registry, i) /\ UNCHANGED served
    BY <1>8 DEF PushFails, otherVars
  <2>2. Subscribed = ToSet(registry) /\ Subscribed' = ToSet(registry) \ {conn}
    BY <1>1, <1>2, <1>6, <2>1, RemovedOnce DEF Subscribed, SliceExact
  <2>3. Hub!Drop(conn)
    BY <1>6, <2>1, <2>2 DEF Hub!Drop
  <2> QED  BY <1>6, <2>1, <2>3 DEF Hub!Next
<1>9. CASE PushRemoves
  <2>1. pc = "remove" /\ pc' = "at" /\ registry' = rest /\ UNCHANGED served
    BY <1>9 DEF PushRemoves
  <2>2. Subscribed' = Subscribed
    BY <2>1 DEF Subscribed
  <2> QED  BY <2>1, <2>2 DEF Hub!hub
<1>10. ~PushPanics
  <2>1. pc # "off" => l = Len(registry) /\ \A c \in Conns : phase[c] # "store"
    BY <1>1 DEF LoopInOrder, AppendAlone
  <2>2. l \in Nat /\ i \in Nat /\ (i > l => ~(i <= l))
    BY <1>2
  <2> QED  BY <2>1, <2>2 DEF PushPanics, LoopOver
<1> QED  BY <1>3, <1>4, <1>5, <1>7, <1>8, <1>9, <1>10 DEF PushStep

\* Until a race every step of the server is one that EventHub allows: a client
\* joins between pushes, is served once or dropped, and a push ends when nobody
\* is left to serve.  ImplementsHub says besides that it does end.
THEOREM EventHubSteps == Spec => HubSteps
<1>1. Init => Hub!Init
  <2> SUFFICES ASSUME Init PROVE Hub!Init
    OBVIOUS
  <2>1. registry = <<>> /\ pc = "off"
    BY DEF Init
  <2>2. Subscribed = {}
    BY <2>1 DEF Subscribed, ToSet
  <2> QED  BY <2>1, <2>2 DEF Hub!Init
<1>2. TypeOK /\ Locks /\ HInv /\ HInv' /\ [Next]_vars => [Hub!Next \/ racy']_(Hub!hub)
  <2> SUFFICES ASSUME TypeOK, Locks, HInv, HInv', [Next]_vars, ~racy'
               PROVE  [Hub!Next]_(Hub!hub)
    OBVIOUS
  <2>1. CASE UNCHANGED vars
    BY <2>1, HubStays DEF vars
  <2>2. CASE Next
    <3>1. ~racy
      BY <2>2 DEF Next, PushBegins, PushStep, PushEnds, PushNext, PushLock, PushWrites,
         PushFails, PushRemoves, PushPanics, Connect, JoinEvent, JoinAnyReads,
         JoinAnyWrites, ListenEnds, Receive, CallPanics, RequestLock, RequestEnds,
         PeerGoes, TypeOK
    <3> QED  BY <2>2, <3>1, ClientsRefine, PushesRefine DEF Next
  <2> QED  BY <2>1, <2>2
<1> QED  BY <1>1, <1>2, TypeCorrect, LocksHold, OrderHolds, PTL DEF Spec, HubSteps
=============================================================================
