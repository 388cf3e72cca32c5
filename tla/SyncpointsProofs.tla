-------------------------- MODULE SyncpointsProofs --------------------------
(***************************************************************************)
(* Proof that the counters of host1x and of nvdrv agree with the work that   *)
(* is under way, for every set of syncpoints, every width of a counter, and  *)
(* however much the game submits and however often the player loads.        *)
(*                                                                         *)
(* CountersAgree is almost inductive.  CInv adds the types it needs, and     *)
(* that only a load in its last phase has a syncpoint moved in host1x and    *)
(* not yet in nvdrv.  Every step then adds the same number to both sides of  *)
(* a congruence, which ModAdd justifies, and the lemmas on Count say what a  *)
(* command or fence that enters or leaves its queue counts for.             *)
(***************************************************************************)
EXTENDS Syncpoints, FiniteSetTheorems, SequenceTheorems, TLAPS

-----------------------------------------------------------------------------
(* Arithmetic modulo M. *)

(* Integer division leaves a remainder in 0 .. M - 1. *)
LEMMA DivMod ==
    ASSUME NEW M \in Nat \ {0}, NEW a \in Int
    PROVE  a = M * (a \div M) + (a % M) /\ a % M \in 0 .. M - 1 /\ a \div M \in Int
BY Z3

(* A remainder in 0 .. M - 1 is the remainder. *)
LEMMA ModUnique ==
    ASSUME NEW M \in Nat \ {0}, NEW q \in Int, NEW r \in 0 .. M - 1
    PROVE  (M * q + r) % M = r
BY Z3

(* A summand may be reduced before it is added: u32 additions and subtractions compose. *)
LEMMA ModAdd ==
    ASSUME NEW M \in Nat \ {0}, NEW a \in Int, NEW b \in Int
    PROVE  ((a % M) + b) % M = (a + b) % M
<1> DEFINE q == a \div M
           r == a % M
           p == (r + b) \div M
           s == (r + b) % M
<1>1. a = M * q + r /\ r \in 0 .. M - 1 /\ q \in Int
    BY DivMod
<1>2. r + b = M * p + s /\ s \in 0 .. M - 1 /\ p \in Int
    <2>1. r + b \in Int
        BY <1>1
    <2> QED
        BY <2>1, DivMod
<1> HIDE DEF q, r, p, s
<1>3. a + b = M * (q + p) + s
    BY <1>1, <1>2
<1>4. (M * (q + p) + s) % M = s
    BY <1>1, <1>2, ModUnique
<1> QED
    BY <1>3, <1>4 DEF r, s

-----------------------------------------------------------------------------
(* Items in a queue. *)

(* The places of an item in a queue are finitely many. *)
LEMMA CountType ==
    ASSUME NEW S, NEW q \in Seq(S), NEW x
    PROVE  Count(q, x) \in Nat /\ IsFiniteSet({k \in DOMAIN q : q[k] = x})
<1>1. DOMAIN q = 1 .. Len(q) /\ Len(q) \in Nat
    OBVIOUS
<1>2. IsFiniteSet(1 .. Len(q))
    BY <1>1, FS_Interval
<1>3. IsFiniteSet({k \in DOMAIN q : q[k] = x})
    BY <1>1, <1>2, FS_Subset
<1> QED
    BY <1>3, FS_CardinalityType DEF Count

(* Nothing is in an empty queue. *)
LEMMA CountEmpty == ASSUME NEW x PROVE Count(<<>>, x) = 0
<1>1. {k \in DOMAIN <<>> : <<>>[k] = x} = {}
    OBVIOUS
<1> QED
    BY <1>1, FS_EmptySet DEF Count

(* An item at the end of a queue counts for itself. *)
LEMMA CountAppend ==
    ASSUME NEW S, NEW q \in Seq(S), NEW e \in S, NEW x
    PROVE  Count(Append(q, e), x) = Count(q, x) + (IF e = x THEN 1 ELSE 0)
<1> DEFINE K == {k \in DOMAIN q : q[k] = x}
           L == {k \in DOMAIN Append(q, e) : Append(q, e)[k] = x}
<1>1. IsFiniteSet(K) /\ Cardinality(K) \in Nat
    BY CountType DEF Count
<1>2. Count(q, x) = Cardinality(K) /\ Count(Append(q, e), x) = Cardinality(L)
    BY DEF Count
<1>3. CASE e = x
    <2>1. L = K \cup {Len(q) + 1} /\ Len(q) + 1 \notin K
        BY <1>3
    <2> HIDE DEF K, L
    <2> QED
        BY <1>1, <1>2, <1>3, <2>1, FS_AddElement
<1>4. CASE e # x
    <2>1. L = K
        BY <1>4
    <2> HIDE DEF K, L
    <2> QED
        BY <1>1, <1>2, <1>4, <2>1
<1> QED
    BY <1>3, <1>4

(* The head of a queue counts for itself. *)
LEMMA CountTail ==
    ASSUME NEW S, NEW q \in Seq(S), q # <<>>, NEW x
    PROVE  Count(q, x) = Count(Tail(q), x) + (IF Head(q) = x THEN 1 ELSE 0)
<1> DEFINE K == {k \in DOMAIN q : q[k] = x}
           L == {k \in DOMAIN Tail(q) : Tail(q)[k] = x}
           N == K \ {1}
           f == [k \in L |-> k + 1]
<1>1. /\ Tail(q) \in Seq(S)
      /\ Len(q) \in Nat \ {0}
      /\ DOMAIN q = 1 .. Len(q) /\ DOMAIN Tail(q) = 1 .. Len(q) - 1
      /\ \A k \in 1 .. Len(q) - 1 : Tail(q)[k] = q[k + 1]
    OBVIOUS
<1>2. /\ IsFiniteSet(K) /\ IsFiniteSet(L)
      /\ Cardinality(K) \in Nat /\ Cardinality(L) \in Nat
    BY <1>1, CountType DEF Count
<1>3. Count(q, x) = Cardinality(K) /\ Count(Tail(q), x) = Cardinality(L)
    BY DEF Count
<1>4. ExistsBijection(L, N)
    <2>1. \A k \in L : k + 1 \in N
        BY <1>1
    <2>2. \A n \in N : n - 1 \in L /\ f[n - 1] = n
        BY <1>1
    <2>3. f \in [L -> N]
        BY <2>1
    <2>4. \A a, b \in L : f[a] = f[b] => a = b
        BY <1>1
    <2>5. \A n \in N : \E k \in L : f[k] = n
        BY <2>2
    <2> HIDE DEF f, L, N
    <2>6. f \in Bijection(L, N)
        BY <2>3, <2>4, <2>5 DEF Bijection, Injection, Surjection, IsInjective
    <2> QED
        BY <2>6 DEF ExistsBijection
<1>5. Cardinality(N) = Cardinality(L)
    <2> HIDE DEF L, N
    <2> QED
        BY <1>2, <1>4, FS_Bijection
<1>6. CASE Head(q) = x
    <2>1. 1 \in K
        BY <1>1, <1>6
    <2> HIDE DEF K, L
    <2>2. Cardinality(N) = Cardinality(K) - 1
        BY <1>2, <2>1, FS_RemoveElement
    <2> QED
        BY <1>2, <1>3, <1>5, <1>6, <2>2
<1>7. CASE Head(q) # x
    <2>1. N = K
        BY <1>1, <1>7
    <2> HIDE DEF K, L, N
    <2> QED
        BY <1>2, <1>3, <1>5, <1>7, <2>1
<1> QED
    BY <1>6, <1>7

(* An item put before a queue counts for itself. *)
LEMMA CountPrepend ==
    ASSUME NEW S, NEW q \in Seq(S), NEW e \in S, NEW x
    PROVE  /\ <<e>> \o q \in Seq(S)
           /\ Count(<<e>> \o q, x) = Count(q, x) + (IF e = x THEN 1 ELSE 0)
<1> DEFINE r == <<e>> \o q
<1>1. r \in Seq(S) /\ r # <<>> /\ Head(r) = e /\ Tail(r) = q
    OBVIOUS
<1> HIDE DEF r
<1>2. Count(r, x) = Count(q, x) + (IF e = x THEN 1 ELSE 0)
    BY <1>1, CountTail
<1> QED
    BY <1>1, <1>2 DEF r

(* The work of one SubmitGPFIFO counts for the increments it was submitted with. *)
LEMMA CountSubmitted ==
    ASSUME NEW S, NEW q \in Seq(S), NEW e \in S, NEW n \in 1 .. 2, NEW i, NEW w,
           n = 1 => w = Append(q, e),
           n = 2 => w = Append(Append(q, e), e)
    PROVE  w \in Seq(S) /\ Count(w, i) = Count(q, i) + (IF e = i THEN n ELSE 0)
<1>1. Append(q, e) \in Seq(S) /\ Count(q, i) \in Nat
    BY AppendProperties, CountType
<1>2. CASE n = 1
    <2>1. w = Append(q, e)
        BY <1>2
    <2>2. Count(w, i) = Count(q, i) + (IF e = i THEN 1 ELSE 0)
        BY <2>1, CountAppend
    <2> QED
        BY <1>1, <1>2, <2>1, <2>2
<1>3. CASE n = 2
    <2> DEFINE r == Append(q, e)
    <2>1. Count(r, i) = Count(q, i) + (IF e = i THEN 1 ELSE 0)
        BY CountAppend
    <2>2. r \in Seq(S) /\ w = Append(r, e)
        BY <1>1, <1>3
    <2> HIDE DEF r
    <2>3. Count(w, i) = Count(r, i) + (IF e = i THEN 1 ELSE 0)
        BY <2>2, CountAppend
    <2>4. w \in Seq(S)
        BY <2>2, AppendProperties
    <2> QED
        BY <1>1, <1>3, <2>1, <2>3, <2>4
<1> QED
    BY <1>2, <1>3

-----------------------------------------------------------------------------
(* The inductive invariant. *)

Commands == Ids \cup {"settle", "drain", "engines"}
Fences == Ids \cup {"marker"}

CTypes ==
    /\ guest \in [Ids -> Values] /\ host \in [Ids -> Values] /\ max \in [Ids -> Values]
    /\ gpu_queue \in Seq(Commands)
    /\ fences \in Seq(Fences)
    /\ saved = None \/ saved \in [Ids -> Values]
    /\ ui \notin {"run", "save"} => saved \in [Ids -> Values]
    /\ moving \in [todo : SUBSET Ids, id : Ids \cup {None}, delta : Values]
    /\ ui # "rewind" => moving.id = None

CInv == CTypes /\ CountersAgree

(* The part of the state CInv is about. *)
counters == <<guest, host, max, gpu_queue, fences, ui, saved, moving>>

(* The width of a counter is positive. *)
LEMMA Width == Modulus \in Nat \ {0} /\ 0 \in Values /\ \A a \in Int : a % Modulus \in Values
<1>1. Modulus \in Nat \ {0}
    BY ModulusAssumption
<1>2. \A a \in Int : a % Modulus \in Values
    BY <1>1, DivMod DEF Values
<1> QED
    BY <1>1, <1>2 DEF Values

(* The value of a u32 that would be a. *)
Mod(a) == a % Modulus

(* ModAdd for the width of a counter. *)
LEMMA Shift ==
    \A x, y, d \in Int : x = Mod(y) => Mod(x + d) = Mod(y + d)
<1> SUFFICES ASSUME NEW x \in Int, NEW y \in Int, NEW d \in Int, x = y % Modulus
             PROVE  (x + d) % Modulus = (y + d) % Modulus
    BY DEF Mod
<1> QED
    BY Width, ModAdd

(* A counter is its own remainder. *)
LEMMA Reduced == \A v \in Values : v \in Int /\ Mod(v) = v
<1> SUFFICES ASSUME NEW v \in Values PROVE v \in Int /\ v % Modulus = v
    BY DEF Mod
<1>1. Modulus \in Nat \ {0} /\ v \in 0 .. Modulus - 1
    BY Width DEF Values
<1>2. (Modulus * 0 + v) % Modulus = v
    BY <1>1, ModUnique, 0 \in Int
<1> QED
    BY <1>1, <1>2

(* Every sum has a value. *)
LEMMA ModType == \A a \in Int : Mod(a) \in Values /\ Mod(a) \in Int
BY Width, Reduced DEF Mod

(* What moves from one summand to the other does not change the sum. *)
LEMMA Carry ==
    \A x, c, d \in Int : Mod(x + (c + d)) = Mod(Mod(x + d) + c)
<1> SUFFICES ASSUME NEW x \in Int, NEW c \in Int, NEW d \in Int
             PROVE  Mod(x + (c + d)) = Mod(Mod(x + d) + c)
    OBVIOUS
<1> DEFINE y == x + d
           r == Mod(y)
<1>1. y \in Int /\ r \in Int
    BY ModType
<1>2. x + (c + d) = y + c
    OBVIOUS
<1>3. r = Mod(y)
    OBVIOUS
<1> HIDE DEF y, r
<1>4. Mod(r + c) = Mod(y + c)
    BY <1>1, <1>3, Shift
<1> QED
    BY <1>2, <1>4 DEF r, y

(* All counters start at zero, with no work under way. *)
LEMMA InitCInv == Init => CInv
<1> SUFFICES ASSUME Init PROVE CInv
    OBVIOUS
<1>1. CTypes
    BY Width DEF Init, CTypes, NotMoving
<1>2. ASSUME NEW i \in Ids
      PROVE  /\ guest[i] = (host[i] + Count(fences, i)) % Modulus
             /\ max[i] = (guest[i] + Count(gpu_queue, i) + Pending(i)) % Modulus
    <2>1. Count(fences, i) = 0 /\ Count(gpu_queue, i) = 0
        BY CountEmpty DEF Init
    <2>2. Pending(i) = 0
        BY IdsAssumption DEF Init, Pending, NotMoving
    <2>3. 0 % Modulus = 0
        BY Width
    <2> QED
        BY <2>1, <2>2, <2>3 DEF Init
<1> QED
    BY <1>1, <1>2 DEF CInv, CountersAgree

(* The counters of one syncpoint: what CountersAgree says of it, and the types of the terms. *)
Agree(i) ==
    /\ guest[i] = Mod(host[i] + Count(fences, i))
    /\ max[i] = Mod(guest[i] + Count(gpu_queue, i) + Pending(i))

(* CountersAgree speaks of each syncpoint by itself. *)
LEMMA AgreeAll == CountersAgree <=> \A i \in Ids : Agree(i)
BY DEF CountersAgree, Agree, Mod

(* The types that the arithmetic of a step rests on. *)
LEMMA Terms ==
    ASSUME CTypes, NEW i \in Ids
    PROVE  /\ guest[i] \in Int /\ host[i] \in Int /\ max[i] \in Int
           /\ guest[i] \in Values /\ host[i] \in Values /\ max[i] \in Values
           /\ Count(fences, i) \in Int /\ Count(gpu_queue, i) \in Int /\ Pending(i) \in Int
<1>1. guest[i] \in Int /\ host[i] \in Int /\ max[i] \in Int /\ Pending(i) \in Int
    BY Width DEF CTypes, Values, Pending
<1>2. Count(fences, i) \in Int /\ Count(gpu_queue, i) \in Int
    <2>1. fences \in Seq(Fences) /\ gpu_queue \in Seq(Commands)
        BY DEF CTypes
    <2>2. Count(fences, i) \in Nat /\ Count(gpu_queue, i) \in Nat
        BY <2>1, CountType
    <2> QED
        BY <2>2
<1> QED
    BY <1>1, <1>2 DEF CTypes

(* Submitted work raises the maximum by the increments it puts into the command queue. *)
LEMMA SubmitCInv ==
    ASSUME CInv, NEW j \in Ids, NEW n \in 1 .. 2, SubmitGPFIFO(j, n)
    PROVE  CInv'
<1>1. /\ max' = [max EXCEPT ![j] = Mod(max[j] + n)]
      /\ gpu_queue' = gpu_queue \o [k \in 1 .. n |-> j]
      /\ UNCHANGED <<guest, host, fences, ui, saved, moving>>
    BY DEF SubmitGPFIFO, host1x, player, Mod
<1>2. j \in Commands /\ gpu_queue \in Seq(Commands) /\ CTypes
    BY DEF CInv, CTypes, Commands
<1>3. ASSUME NEW i
      PROVE  /\ gpu_queue' \in Seq(Commands)
             /\ Count(gpu_queue', i) = Count(gpu_queue, i) + (IF j = i THEN n ELSE 0)
    <2>1. n = 1 => gpu_queue' = Append(gpu_queue, j)
        BY <1>1, <1>2
    <2>2. n = 2 => gpu_queue' = Append(Append(gpu_queue, j), j)
        BY <1>1, <1>2
    <2> QED
        BY <1>2, <2>1, <2>2, CountSubmitted
<1>4. CTypes'
    <2>1. max[j] + n \in Int
        BY <1>2, Terms
    <2> QED
        BY <1>1, <1>2, <1>3, <2>1, ModType DEF CTypes
<1>5. ASSUME NEW i \in Ids PROVE Agree(i)'
    <2> DEFINE y == guest[i] + Count(gpu_queue, i) + Pending(i)
               m == max[i]
    <2>1. Pending(i)' = Pending(i)
        BY <1>1 DEF Pending
    <2>2. y \in Int /\ m \in Int /\ n \in Int /\ m = Mod(y) /\ guest[i] = Mod(host[i] + Count(fences, i))
        BY <1>2, Terms, AgreeAll DEF CInv, Agree
    <2>3. CASE j = i
        <3>1. guest[i] \in Int /\ Count(gpu_queue, i) \in Int /\ Pending(i) \in Int
            BY <1>2, Terms
        <3>2. y + n = guest[i] + Count(gpu_queue', i) + Pending(i)
            BY <1>3, <2>3, <3>1
        <3>3. max'[i] = Mod(m + n)
            BY <1>1, <1>2, <2>3 DEF CTypes
        <3> HIDE DEF y, m
        <3>4. Mod(m + n) = Mod(y + n)
            BY <2>2, Shift
        <3> QED
            BY <1>1, <2>1, <2>2, <3>2, <3>3, <3>4 DEF Agree
    <2>4. CASE j # i
        <3>1. max'[i] = m
            BY <1>1, <1>2, <2>4 DEF CTypes
        <3>2. Count(gpu_queue', i) = Count(gpu_queue, i)
            BY <1>2, <1>3, <2>4, Terms
        <3> QED
            BY <1>1, <2>1, <2>2, <3>1, <3>2 DEF Agree
    <2> QED
        BY <2>3, <2>4
<1> QED
    BY <1>4, <1>5, AgreeAll DEF CInv, CountersAgree, Agree, Mod

(* An increment leaves the command queue, adds to the guest value and becomes a fence. *)
LEMMA GpuIncrementCInv == ASSUME CInv, GpuIncrement PROVE CInv'
<1> DEFINE j == Head(gpu_queue)
<1>1. /\ j \in Ids /\ gpu_queue # <<>>
      /\ guest' = [guest EXCEPT ![j] = Mod(guest[j] + 1)]
      /\ fences' = Append(fences, j)
      /\ gpu_queue' = Tail(gpu_queue)
      /\ UNCHANGED <<host, max, ui, saved, moving>>
    BY DEF GpuIncrement, nvcore, player, Mod
<1>2. gpu_queue \in Seq(Commands) /\ fences \in Seq(Fences) /\ j \in Fences /\ CTypes
    BY <1>1 DEF CInv, CTypes, Fences
<1>3. CTypes'
    <2>1. gpu_queue' \in Seq(Commands) /\ fences' \in Seq(Fences)
        BY <1>1, <1>2
    <2>2. guest[j] + 1 \in Int
        BY <1>1, <1>2, Terms
    <2> QED
        BY <1>1, <1>2, <2>1, <2>2, ModType DEF CTypes
<1>4. ASSUME NEW i \in Ids PROVE Agree(i)'
    <2> DEFINE c == Count(gpu_queue', i)
               f == Count(fences, i)
               g == guest[i]
               h == host[i]
               q == Pending(i)
               d == IF j = i THEN 1 ELSE 0
    <2>1. Pending(i)' = q
        BY <1>1 DEF Pending
    <2>2. Count(gpu_queue, i) = c + d /\ Count(fences', i) = f + d
        BY <1>1, <1>2, CountTail, CountAppend
    <2>3. guest'[i] = Mod(g + d)
        <3>1. CASE j = i
            BY <1>1, <1>2, <3>1 DEF CTypes
        <3>2. CASE j # i
            BY <1>1, <1>2, <3>2, Terms, Reduced DEF CTypes
        <3> QED
            BY <3>1, <3>2
    <2>4. c \in Int
        <3>1. gpu_queue' \in Seq(Commands)
            BY <1>3 DEF CTypes
        <3>2. Count(gpu_queue', i) \in Nat
            BY <3>1, CountType
        <3> QED
            BY <3>2
    <2>5. f \in Int /\ g \in Int /\ h \in Int /\ q \in Int /\ d \in Int
        BY <1>2, Terms
    <2>6. g = Mod(h + f) /\ max[i] = Mod(g + (c + d) + q)
        BY <2>2, AgreeAll DEF CInv, Agree
    <2> HIDE DEF c, f, g, h, q, d
    <2>7. guest'[i] = Mod(h + (f + d))
        <3>1. h + f \in Int /\ h + f + d = h + (f + d)
            BY <2>5
        <3>2. Mod(g + d) = Mod(h + f + d)
            BY <2>5, <2>6, <3>1, Shift
        <3> QED
            BY <2>3, <3>1, <3>2
    <2>8. max[i] = Mod(guest'[i] + c + q)
        <3>1. c + q \in Int /\ g + (c + d) + q = g + ((c + q) + d)
            BY <2>4, <2>5
        <3>2. Mod(g + ((c + q) + d)) = Mod(Mod(g + d) + (c + q))
            BY <2>5, <3>1, Carry
        <3>3. guest'[i] + (c + q) = guest'[i] + c + q
            BY <2>3, <2>4, <2>5, ModType
        <3> QED
            BY <2>3, <2>6, <3>1, <3>2, <3>3
    <2> QED
        BY <1>1, <2>1, <2>2, <2>7, <2>8 DEF h, c, f, Agree
<1> QED
    BY <1>3, <1>4, AgreeAll DEF CInv, CountersAgree, Agree, Mod

(* A fence that is reached adds to the host value. *)
LEMMA FenceReachedCInv == ASSUME CInv, FenceReached PROVE CInv'
<1> DEFINE j == Head(fences)
<1>1. /\ fences # <<>> /\ fences' = Tail(fences)
      /\ UNCHANGED <<guest, max, gpu_queue, ui, saved, moving>>
    BY DEF FenceReached, nvcore, player
<1>2. fences \in Seq(Fences) /\ CTypes /\ fences' \in Seq(Fences)
    BY <1>1 DEF CInv, CTypes
<1>3. \A i \in Ids : host'[i] = Mod(host[i] + (IF j = i THEN 1 ELSE 0))
    <2>1. CASE j \in Ids
        <3>1. host' = [host EXCEPT ![j] = Mod(host[j] + 1)]
            BY <2>1 DEF FenceReached, Mod
        <3>2. ASSUME NEW i \in Ids, j # i PROVE host'[i] = Mod(host[i] + 0)
            BY <1>2, <3>1, <3>2, Terms, Reduced DEF CTypes
        <3> QED
            BY <1>2, <2>1, <3>1, <3>2 DEF CTypes
    <2>2. CASE j \notin Ids
        <3>1. host' = host
            BY <2>2 DEF FenceReached
        <3>2. ASSUME NEW i \in Ids PROVE host'[i] = Mod(host[i] + 0)
            BY <1>2, <3>1, <3>2, Terms, Reduced
        <3> QED
            BY <2>2, <3>2
    <2> QED
        BY <2>1, <2>2
<1>4. CTypes'
    <2>1. host' \in [Ids -> Values]
        <3>1. CASE j \in Ids
            <4>1. host' = [host EXCEPT ![j] = Mod(host[j] + 1)]
                BY <3>1 DEF FenceReached, Mod
            <4>2. host[j] + 1 \in Int
                BY <1>2, <3>1, Terms
            <4> QED
                BY <1>2, <4>1, <4>2, ModType DEF CTypes
        <3>2. CASE j \notin Ids
            BY <1>2, <3>2 DEF FenceReached, CTypes
        <3> QED
            BY <3>1, <3>2
    <2> QED
        BY <1>1, <1>2, <2>1 DEF CTypes
<1>5. ASSUME NEW i \in Ids PROVE Agree(i)'
    <2> DEFINE f == Count(fences', i)
               h == host[i]
               d == IF j = i THEN 1 ELSE 0
    <2>1. Pending(i)' = Pending(i)
        BY <1>1 DEF Pending
    <2>2. Count(fences, i) = f + d
        BY <1>1, <1>2, CountTail
    <2>3. Count(fences', i) \in Nat
        BY <1>2, CountType
    <2>4. f \in Int /\ h \in Int /\ d \in Int
        BY <1>2, <2>3, Terms
    <2>5. guest[i] = Mod(h + (f + d)) /\ host'[i] = Mod(h + d)
        BY <1>3, <2>2, AgreeAll DEF CInv, Agree
    <2>6. max[i] = Mod(guest[i] + Count(gpu_queue, i) + Pending(i))
        BY AgreeAll DEF CInv, Agree
    <2> HIDE DEF f, h, d
    <2>7. guest[i] = Mod(host'[i] + f)
        BY <2>4, <2>5, Carry
    <2> QED
        BY <1>1, <2>1, <2>6, <2>7 DEF Agree, f
<1> QED
    BY <1>4, <1>5, AgreeAll DEF CInv, CountersAgree, Agree, Mod

(* Requests of the UI thread, and the fence SettleFor waits for, count for no syncpoint. *)
LEMMA OtherCommandsCInv ==
    ASSUME CInv, GpuSettle \/ GpuTick
    PROVE  CInv'
<1>1. UNCHANGED <<guest, host, max, ui, saved, moving>> /\ gpu_queue # <<>>
    BY DEF GpuSettle, GpuTick, host1x, nvcore, player
<1>2. gpu_queue \in Seq(Commands) /\ fences \in Seq(Fences) /\ CTypes
    BY DEF CInv, CTypes
<1>3. Head(gpu_queue) \in {"settle", "drain", "engines"}
    BY DEF GpuSettle, GpuTick
<1>4. ASSUME NEW i \in Ids
      PROVE  Count(gpu_queue', i) = Count(gpu_queue, i) /\ Count(fences', i) = Count(fences, i)
    <2> DEFINE r == Tail(gpu_queue)
    <2>1. i \notin {"settle", "drain", "engines", "marker"}
        BY IdsAssumption
    <2>2. r \in Seq(Commands) /\ "drain" \in Commands /\ "marker" \in Fences
        BY <1>1, <1>2 DEF Commands, Fences
    <2>3. Count(r, i) \in Nat /\ Count(fences, i) \in Nat
        BY <1>2, <2>2, CountType
    <2>4. Count(gpu_queue, i) = Count(r, i)
        BY <1>1, <1>2, <1>3, <2>1, <2>3, CountTail
    <2>5. Count(<<"drain">> \o r, i) = Count(r, i)
        <3> HIDE DEF r
        <3>1. Count(<<"drain">> \o r, i) = Count(r, i) + (IF "drain" = i THEN 1 ELSE 0)
            BY <2>2, CountPrepend
        <3> QED
            BY <2>1, <2>3, <3>1
    <2>6. Count(Append(fences, "marker"), i) = Count(fences, i)
        BY <1>2, <2>1, <2>2, <2>3, CountAppend
    <2> HIDE DEF r
    <2> QED
        BY <2>4, <2>5, <2>6 DEF GpuSettle, GpuTick, r
<1>5. gpu_queue' \in Seq(Commands) /\ fences' \in Seq(Fences)
    <2> DEFINE r == Tail(gpu_queue)
    <2>1. "drain" \in Commands /\ "marker" \in Fences /\ r \in Seq(Commands)
        BY <1>1, <1>2 DEF Commands, Fences
    <2>2. Append(fences, "marker") \in Seq(Fences)
        BY <1>2, <2>1
    <2> HIDE DEF r
    <2>3. <<"drain">> \o r \in Seq(Commands)
        BY <2>1, CountPrepend
    <2> QED
        BY <1>2, <2>1, <2>2, <2>3 DEF GpuSettle, GpuTick, r
<1>6. CTypes'
    BY <1>1, <1>2, <1>5 DEF CTypes
<1>7. \A i \in Ids : Agree(i)'
    BY <1>1, <1>4, AgreeAll DEF CInv, Agree, Pending
<1> QED
    BY <1>6, <1>7 DEF CInv, CountersAgree, Agree, Mod

(* A save, and a load up to the rewind, leave the counters alone. *)
LEMMA UiCInv ==
    ASSUME CInv,
           \/ QuickSaveState \/ SaveSyncpoints \/ QuickLoadState
           \/ SettleFor \/ Restore \/ RestoreEngines \/ LoadEnds
    PROVE  CInv'
<1>1. UNCHANGED <<guest, host, max, fences>>
    BY DEF QuickSaveState, SaveSyncpoints, QuickLoadState, SettleFor, Restore, RestoreEngines,
           LoadEnds, host1x, nvcore, gpu
<1>2. gpu_queue \in Seq(Commands) /\ CTypes
    BY DEF CInv, CTypes
<1>3. \/ gpu_queue' = gpu_queue
      \/ gpu_queue' = Append(gpu_queue, "engines")
      \/ gpu_queue' = Append(gpu_queue, "settle")
    BY DEF QuickSaveState, SaveSyncpoints, QuickLoadState, SettleFor, Restore, RestoreEngines,
           LoadEnds, gpu
<1>4. "engines" \in Commands /\ "settle" \in Commands
    BY DEF Commands
<1>5. gpu_queue' \in Seq(Commands)
    BY <1>2, <1>3, <1>4
<1>6. /\ moving.id = None /\ moving'.id = None
      /\ moving' \in [todo : SUBSET Ids, id : Ids \cup {None}, delta : Values]
    <2>1. CASE RestoreEngines
        <3>1. moving' = [todo |-> Ids, id |-> None, delta |-> 0] /\ ui = "engines"
            BY <2>1 DEF RestoreEngines, NotMoving, At
        <3> QED
            BY <1>2, <3>1, Width DEF CTypes
    <2>2. CASE LoadEnds
        BY <1>2, <2>2 DEF LoadEnds, NotMoving, CTypes
    <2>3. CASE QuickSaveState \/ SaveSyncpoints \/ QuickLoadState \/ SettleFor \/ Restore
        <3>1. moving' = moving /\ ui # "rewind"
            BY <2>3 DEF QuickSaveState, SaveSyncpoints, QuickLoadState, SettleFor, Restore, At
        <3> QED
            BY <1>2, <3>1 DEF CTypes
    <2> QED
        BY <2>1, <2>2, <2>3
<1>7. /\ saved' = None \/ saved' \in [Ids -> Values]
      /\ ui' \notin {"run", "save"} => saved' \in [Ids -> Values]
    BY <1>2 DEF QuickSaveState, SaveSyncpoints, QuickLoadState, SettleFor, Restore, RestoreEngines,
                LoadEnds, Run, At, CTypes
<1>8. CTypes'
    BY <1>1, <1>2, <1>5, <1>6, <1>7 DEF CTypes
<1>9. ASSUME NEW i \in Ids PROVE Agree(i)'
    <2>1. Pending(i) = 0 /\ Pending(i)' = 0
        BY <1>6, IdsAssumption DEF Pending
    <2>2. i # "engines" /\ i # "settle" /\ Count(gpu_queue, i) \in Int
        BY <1>2, IdsAssumption, Terms
    <2>3. Count(gpu_queue', i) = Count(gpu_queue, i)
        <3>1. Count(Append(gpu_queue, "engines"), i) = Count(gpu_queue, i)
            BY <1>2, <1>4, <2>2, CountAppend
        <3>2. Count(Append(gpu_queue, "settle"), i) = Count(gpu_queue, i)
            BY <1>2, <1>4, <2>2, CountAppend
        <3> QED
            BY <1>3, <3>1, <3>2
    <2> QED
        BY <1>1, <2>1, <2>3, AgreeAll DEF CInv, Agree
<1> QED
    BY <1>8, <1>9 DEF CInv, CountersAgree, Agree, Mod

(* host1x moves the guest and the host value of a syncpoint back by one delta, which nvdrv then
   owes its maximum. *)
LEMMA RewindValuesCInv == ASSUME CInv, NEW j \in Ids, RewindValues(j) PROVE CInv'
<1> DEFINE d == Delta(j)
<1>1. /\ ui = "rewind" /\ moving.id = None
      /\ UNCHANGED <<max, gpu_queue, fences, ui, saved>>
    BY DEF RewindValues, At, nvcore, gpu
<1>2. CTypes /\ saved \in [Ids -> Values]
    BY <1>1 DEF CInv, CTypes
<1>3. d \in Values /\ d \in Int
    <2>1. guest[j] - saved[j] \in Int
        BY <1>2, Terms DEF Values
    <2>2. d = Mod(guest[j] - saved[j])
        BY DEF Delta, Mod
    <2> QED
        BY <2>1, <2>2, ModType
<1>4. CASE ~Rewindable(j)
    <2>1. UNCHANGED <<guest, host>> /\ moving' = [moving EXCEPT !.todo = @ \ {j}]
        BY <1>4 DEF RewindValues
    <2>2. moving'.id = moving.id /\ moving'.delta = moving.delta
        BY <1>2, <2>1 DEF CTypes
    <2>3. CTypes'
        BY <1>1, <1>2, <2>1 DEF CTypes
    <2>4. \A i \in Ids : Agree(i)'
        BY <1>1, <2>1, <2>2, AgreeAll DEF CInv, Agree, Pending
    <2> QED
        BY <2>3, <2>4 DEF CInv, CountersAgree, Agree, Mod
<1>5. CASE Rewindable(j)
    <2>1. /\ guest' = [guest EXCEPT ![j] = Mod(guest[j] - d)]
          /\ host' = [host EXCEPT ![j] = Mod(host[j] - d)]
          /\ moving' = [todo |-> moving.todo \ {j}, id |-> j, delta |-> d]
        BY <1>5 DEF RewindValues, Mod
    <2> HIDE DEF d
    <2>2. guest[j] - d \in Int /\ host[j] - d \in Int
        BY <1>2, <1>3, Terms
    <2>3. CTypes'
        <3>1. guest' \in [Ids -> Values] /\ host' \in [Ids -> Values]
            BY <1>2, <2>1, <2>2, ModType DEF CTypes
        <3> QED
            BY <1>1, <1>2, <1>3, <2>1, <3>1 DEF CTypes
    <2>4. ASSUME NEW i \in Ids, i # j PROVE Agree(i)'
        <3>1. guest'[i] = guest[i] /\ host'[i] = host[i]
            BY <1>2, <2>1, <2>4 DEF CTypes
        <3>2. Pending(i) = 0 /\ Pending(i)' = 0
            BY <1>1, <2>1, <2>4, IdsAssumption DEF Pending
        <3> QED
            BY <1>1, <3>1, <3>2, AgreeAll DEF CInv, Agree
    <2>5. Agree(j)'
        <3> DEFINE g == guest[j]
                   h == host[j]
                   f == Count(fences, j)
                   c == Count(gpu_queue, j)
        <3>1. g \in Int /\ h \in Int /\ f \in Int /\ c \in Int /\ 0 - d \in Int
            BY <1>2, <1>3, Terms
        <3>2. guest'[j] = Mod(g - d) /\ host'[j] = Mod(h - d)
            BY <1>2, <2>1 DEF CTypes
        <3>3. Pending(j) = 0 /\ Pending(j)' = d
            BY <1>1, <2>1, IdsAssumption DEF Pending
        <3>4. g = Mod(h + f) /\ max[j] = Mod(g + c + 0)
            BY <3>3, AgreeAll DEF CInv, Agree
        <3> HIDE DEF g, h, f, c
        <3>5. guest'[j] = Mod(host'[j] + f)
            <4> DEFINE y == h + f
                       e == 0 - d
            <4>1. y + e = h + (f + e) /\ g + e = g - d /\ h + e = h - d
                BY <1>3, <3>1
            <4>2. y \in Int /\ e \in Int /\ g \in Int /\ g = Mod(y)
                BY <3>1, <3>4
            <4> HIDE DEF y, e
            <4>3. Mod(g + e) = Mod(y + e)
                BY <4>2, Shift
            <4>4. Mod(h + (f + e)) = Mod(Mod(h + e) + f)
                BY <3>1, <4>2, Carry
            <4> QED
                BY <3>2, <4>1, <4>3, <4>4
        <3>6. max[j] = Mod(guest'[j] + c + d)
            <4>1. c + d \in Int /\ g + c + 0 = g + ((c + d) + (0 - d)) /\ g + (0 - d) = g - d
                BY <1>3, <3>1
            <4>2. Mod(g + ((c + d) + (0 - d))) = Mod(Mod(g + (0 - d)) + (c + d))
                BY <3>1, <4>1, Carry
            <4>3. guest'[j] + c + d = guest'[j] + (c + d)
                BY <1>3, <2>3, <3>1, Terms DEF CTypes, Values
            <4> QED
                BY <3>2, <3>4, <4>1, <4>2, <4>3
        <3> QED
            BY <1>1, <3>3, <3>5, <3>6 DEF Agree, f, c
    <2> QED
        BY <2>3, <2>4, <2>5 DEF CInv, CountersAgree, Agree, Mod
<1> QED
    BY <1>4, <1>5

(* nvdrv moves its maximum back by the delta it owes. *)
LEMMA RewindCountersCInv == ASSUME CInv, RewindCounters PROVE CInv'
<1> DEFINE j == moving.id
           d == moving.delta
<1>1. /\ j # None
      /\ max' = [max EXCEPT ![j] = Mod(max[j] - d)]
      /\ moving' = [moving EXCEPT !.id = None, !.delta = 0]
      /\ UNCHANGED <<guest, host, gpu_queue, fences, ui, saved>>
    BY DEF RewindCounters, host1x, gpu, Mod
<1>2. CTypes /\ j \in Ids /\ d \in Int
    BY <1>1 DEF CInv, CTypes, Values
<1>3. max[j] - d \in Int
    BY <1>2, Terms
<1>4. moving'.id = None
    BY <1>1, <1>2 DEF CTypes
<1>5. CTypes'
    <2>1. max' \in [Ids -> Values]
        BY <1>1, <1>2, <1>3, ModType DEF CTypes
    <2> QED
        BY <1>1, <1>2, <1>4, <2>1, Width DEF CTypes
<1>6. ASSUME NEW i \in Ids PROVE Agree(i)'
    <2>1. Pending(i)' = 0
        BY <1>4, IdsAssumption DEF Pending
    <2>2. CASE i # j
        <3>1. max'[i] = max[i] /\ Pending(i) = 0
            BY <1>1, <1>2, <2>2 DEF CTypes, Pending
        <3> QED
            BY <1>1, <2>1, <3>1, AgreeAll DEF CInv, Agree
    <2>3. CASE i = j
        <3> DEFINE g == guest[i]
                   c == Count(gpu_queue, i)
                   m == max[i]
        <3>1. max'[i] = Mod(m - d) /\ Pending(i) = d
            BY <1>1, <1>2, <2>3 DEF CTypes, Pending
        <3>2. g \in Int /\ c \in Int /\ m \in Int
            BY <1>2, Terms
        <3>3. guest[i] = Mod(host[i] + Count(fences, i)) /\ m = Mod(g + c + d)
            BY <3>1, AgreeAll DEF CInv, Agree
        <3> HIDE DEF g, c, m, d
        <3>4. g + c + d \in Int /\ 0 - d \in Int /\ g + c + d + (0 - d) = g + c + 0 /\ m + (0 - d) = m - d
            BY <1>2, <3>2
        <3>5. Mod(m + (0 - d)) = Mod(g + c + d + (0 - d))
            BY <3>2, <3>3, <3>4, Shift
        <3>6. max'[i] = Mod(g + c + 0)
            BY <3>1, <3>4, <3>5
        <3> QED
            BY <1>1, <2>1, <3>3, <3>6 DEF Agree, g, c
    <2> QED
        BY <2>2, <2>3
<1> QED
    BY <1>5, <1>6 DEF CInv, CountersAgree, Agree, Mod

(* Every step of the four threads keeps the invariant; only work that is submitted, run or
   finished and the rewind of a load touch the counters. *)
LEMMA NextCInv == CInv /\ [Next]_vars => CInv'
<1> SUFFICES ASSUME CInv, [Next]_vars PROVE CInv'
    OBVIOUS
<1>1. CASE UNCHANGED counters
    BY <1>1 DEF counters, CInv, CTypes, CountersAgree, Pending
<1>2. CASE Ioctl
    <2>1. CASE \E i \in Ids, n \in 1 .. 2 : SubmitGPFIFO(i, n)
        BY <2>1, SubmitCInv
    <2>2. CASE ~\E i \in Ids, n \in 1 .. 2 : SubmitGPFIFO(i, n)
        <3>1. UNCHANGED counters
            BY <1>2, <2>2 DEF Ioctl, IocCtrlEventWaitOver, IocCtrlEventWait, IocCtrlClearEventWait,
                IocCtrlEventRegister, IocCtrlEventUnregister, counters, host1x, nvcore, gpu, player
        <3> QED
            BY <1>1, <3>1
    <2> QED
        BY <2>1, <2>2
<1>3. CASE NvdrvStep
    <2>1. UNCHANGED counters
        BY <1>3 DEF NvdrvStep, MarkWaiting, RegisterActionLocked, RegisterActionRan, WaitHost,
            DeregisterAction, CancelEvent, counters, host1x, nvcore, gpu, player
    <2> QED
        BY <1>1, <2>1
<1>4. CASE \E w \in Workers : ActionStep(w)
    <2>1. UNCHANGED counters
        BY <1>4 DEF ActionStep, ActionExchange, ActionSignal, counters, host1x, nvcore, gpu, player
    <2> QED
        BY <1>1, <2>1
<1>5. CASE GpuStep
    BY <1>5, GpuIncrementCInv, OtherCommandsCInv DEF GpuStep
<1>6. CASE FenceStep
    <2>1. CASE FenceReached
        BY <2>1, FenceReachedCInv
    <2>2. CASE IncrementLock \/ IncrementErase
        <3>1. UNCHANGED counters
            BY <2>2 DEF IncrementLock, IncrementErase, counters, nvcore, gpu, player
        <3> QED
            BY <1>1, <3>1
    <2> QED
        BY <1>6, <2>1, <2>2 DEF FenceStep
<1>7. CASE UiStep
    BY <1>7, UiCInv, RewindValuesCInv, RewindCountersCInv DEF UiStep, LoadStep
<1>8. CASE UNCHANGED vars
    BY <1>1, <1>8 DEF vars, counters
<1> QED
    BY <1>2, <1>3, <1>4, <1>5, <1>6, <1>7, <1>8 DEF Next

(* counter_max is ahead of the guest value by the increments in the command queue, and the guest
   value ahead of the host value by the fences not reached, in u32 arithmetic of any width: also
   in the middle of a Quick Load, and after one that went ahead on a busy GPU. *)
THEOREM CountersAlwaysAgree == Spec => []CountersAgree
<1>1. CInv => CountersAgree
    BY DEF CInv
<1> QED
    BY <1>1, InitCInv, NextCInv, PTL DEF Spec
=============================================================================
