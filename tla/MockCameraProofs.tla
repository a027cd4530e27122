--------------------------- MODULE MockCameraProofs ---------------------------
(***************************************************************************)
(* Proofs about MockCamera, for every set of folders: the type invariant  *)
(* and the replay order (ReplayOrder).                                     *)
(*                                                                         *)
(* The listing ResourceFolder::enumerate_files returns is sorted because  *)
(* its i-th entry is the name with i - 1 smaller names: the rank of a     *)
(* name, the number of names below it, maps the folder one-to-one onto    *)
(* 0..N-1, so each position has exactly one name and positions follow the *)
(* names' order.  The replay order then rests on the offset next() keeps: *)
(* after k calls it is the (k-1)-th position, wrapped when repeating.     *)
(***************************************************************************)
EXTENDS MockCamera, FiniteSetTheorems, FunctionTheorems, SequenceTheorems, TLAPS

(* The listing is in name order: positions compare as their names do.    *)
Sorted(seq) ==
  \A j, m \in 1..Len(seq) : (seq[j].name < seq[m].name) <=> (j < m)

(* The inductive invariant.                                                *)
IInv ==
  /\ TypeOK
  /\ Sorted(frames)
  /\ status = "new" =>
       /\ frames = <<>> /\ log = <<>> /\ offset = -1 /\ ~repeat /\ active = -1
  /\ repeat /\ Len(frames) = 0 => log = <<>>
  /\ status # "panicked" =>
       offset = IF log = <<>> THEN -1 ELSE ExpectedEntry(Len(log))
  /\ ReplayOrder

(* The records next() adds to the log.                                     *)
LogRec == [kind : {"frame", "error", "exhausted"}, name : Nat]

(* What ReplayOrder asks of the k-th logged call x.                        *)
Served(k, x) ==
  IF repeat \/ k <= Len(frames)
    THEN /\ Cardinality({j \in 1..Len(frames) : frames[j].name < x.name})
              = ExpectedEntry(k)
         /\ \E j \in 1..Len(frames) :
              /\ frames[j].name = x.name
              /\ (x.kind = "frame") = (frames[j].kind = "image")
    ELSE x.kind = "exhausted"

-----------------------------------------------------------------------------
(* The names of a folder below x, and how many there are: the position    *)
(* (from 0) that enumerate_files' sort gives x.                            *)
Below(D, x) == {y \in D : y < x}
Rank(D, x) == Cardinality(Below(D, x))

(* A name has fewer smaller names than the folder has names.              *)
LEMMA RankRange ==
  ASSUME NEW D \in SUBSET Nat, IsFiniteSet(D), NEW x \in D
  PROVE  Rank(D, x) \in 0..(Cardinality(D) - 1)
<1>1. Below(D, x) \subseteq D \ {x}
  BY DEF Below
<1>2. /\ IsFiniteSet(D \ {x})
      /\ Cardinality(D \ {x}) = Cardinality(D) - 1
  BY FS_RemoveElement
<1>3. /\ IsFiniteSet(Below(D, x))
      /\ Cardinality(Below(D, x)) <= Cardinality(D \ {x})
  BY <1>1, <1>2, FS_Subset
<1>4. Cardinality(Below(D, x)) \in Nat /\ Cardinality(D) \in Nat
  BY <1>3, FS_CardinalityType
<1>. QED BY <1>2, <1>3, <1>4 DEF Rank

(* A smaller name has a smaller rank: everything below it is below the   *)
(* larger name, which also has the smaller one below it.                   *)
LEMMA RankMonotone ==
  ASSUME NEW D \in SUBSET Nat, IsFiniteSet(D), NEW x \in D, NEW z \in D, x < z
  PROVE  Rank(D, x) < Rank(D, z)
<1>1. Below(D, x) \subseteq Below(D, z) /\ x \in Below(D, z) \ Below(D, x)
  <2>1. Below(D, x) \subseteq Below(D, z)
    <3> SUFFICES ASSUME NEW w \in Below(D, x) PROVE w \in Below(D, z)
      OBVIOUS
    <3>1. w \in D /\ w < x
      BY DEF Below
    <3>2. w \in Nat /\ x \in Nat /\ z \in Nat
      BY <3>1
    <3>3. w < z
      BY <3>1, <3>2
    <3>. QED BY <3>1, <3>3 DEF Below
  <2>2. x \in Below(D, z)
    BY DEF Below
  <2>3. x \notin Below(D, x)
    BY DEF Below
  <2>. QED BY <2>1, <2>2, <2>3
<1>2. IsFiniteSet(Below(D, z))
  BY FS_Subset DEF Below
<1>3. /\ IsFiniteSet(Below(D, x))
      /\ Cardinality(Below(D, x)) <= Cardinality(Below(D, z))
      /\ Cardinality(Below(D, z)) = Cardinality(Below(D, x))
           => Below(D, z) = Below(D, x)
  BY <1>1, <1>2, FS_Subset
<1>4. Cardinality(Below(D, x)) \in Nat /\ Cardinality(Below(D, z)) \in Nat
  BY <1>2, <1>3, FS_CardinalityType
<1>. QED BY <1>1, <1>3, <1>4 DEF Rank

(* Every position of the listing has a name of that rank: the rank map is *)
(* one-to-one from the N names into 1..N, hence onto.                      *)
LEMMA RankOnto ==
  ASSUME NEW D \in SUBSET Nat, IsFiniteSet(D), NEW i \in 1..Cardinality(D)
  PROVE  \E x \in D : Rank(D, x) = i - 1
<1> DEFINE N == Cardinality(D)
           f == [x \in D |-> Rank(D, x) + 1]
<1>1. N \in Nat
  BY FS_CardinalityType
<1>2. f \in [D -> 1..N]
  BY RankRange, <1>1
<1>3. \A a, b \in D : f[a] = f[b] => a = b
  <2> SUFFICES ASSUME NEW a \in D, NEW b \in D, a # b PROVE f[a] # f[b]
    OBVIOUS
  <2>1. CASE a < b
    BY <2>1, RankMonotone, RankRange
  <2>2. CASE b < a
    BY <2>2, RankMonotone, RankRange
  <2>. QED BY <2>1, <2>2
<1>4. f \in Injection(D, 1..N)
  BY <1>2, <1>3, Fun_IsInj
<1>5. IsFiniteSet(1..N) /\ Cardinality(1..N) = N
  BY <1>1, FS_Interval
<1>6. f \in Surjection(D, 1..N)
  BY <1>4, <1>5, FS_Injection
<1>7. PICK x \in D : f[x] = i
  BY <1>6 DEF Surjection
<1>. QED BY <1>7, RankRange


(* ResourceFolder::enumerate_files lists a folder as a sequence of        *)
(* entries in name order.                                                  *)
LEMMA EnumerateSorted ==
  ASSUME NEW dir \in Folders
  PROVE  /\ EnumerateFiles(dir) \in Seq(Entry)
         /\ Sorted(EnumerateFiles(dir))
<1> DEFINE D == DOMAIN dir
           N == Cardinality(D)
           nm(i) == CHOOSE x \in D : Rank(D, x) = i - 1
<1>1. /\ D \in SUBSET Nat
      /\ IsFiniteSet(D)
      /\ \A n \in D : dir[n] \in Kinds
  BY FoldersType
<1>2. N \in Nat
  BY <1>1, FS_CardinalityType
<1>3. \A i \in 1..N : nm(i) \in D /\ Rank(D, nm(i)) = i - 1
  <2> SUFFICES ASSUME NEW i \in 1..N PROVE nm(i) \in D /\ Rank(D, nm(i)) = i - 1
    OBVIOUS
  <2>1. \E x \in D : Rank(D, x) = i - 1
    BY <1>1, RankOnto
  <2>. QED BY <2>1
<1>4. EnumerateFiles(dir) = [i \in 1..N |-> [name |-> nm(i), kind |-> dir[nm(i)]]]
  BY DEF EnumerateFiles, Rank, Below
<1>5. EnumerateFiles(dir) \in Seq(Entry)
  <2>1. \A i \in 1..N : [name |-> nm(i), kind |-> dir[nm(i)]] \in Entry
    BY <1>1, <1>3 DEF Entry
  <2>2. EnumerateFiles(dir) \in [1..N -> Entry]
    BY <1>4, <2>1
  <2>. QED BY <1>2, <2>2, SeqDef
<1>6. ASSUME NEW j \in 1..N, NEW m \in 1..N
      PROVE  (nm(j) < nm(m)) <=> (j < m)
  <2>1. nm(j) \in D /\ nm(m) \in D /\ Rank(D, nm(j)) = j - 1 /\ Rank(D, nm(m)) = m - 1
    BY <1>3
  <2>2. nm(j) < nm(m) => j < m
    BY <1>1, <2>1, RankMonotone
  <2>3. nm(m) < nm(j) => m < j
    BY <1>1, <2>1, RankMonotone
  <2>4. nm(j) = nm(m) => j = m
    BY <2>1
  <2>5. nm(j) \in Nat /\ nm(m) \in Nat
    BY <1>1, <2>1
  <2>. QED BY <2>2, <2>3, <2>4, <2>5
<1>7. Len(EnumerateFiles(dir)) = N
  BY <1>2, <1>4
<1>8. \A j \in 1..N : EnumerateFiles(dir)[j].name = nm(j)
  BY <1>4
<1>9. Sorted(EnumerateFiles(dir))
  <2> SUFFICES ASSUME NEW j \in 1..N, NEW m \in 1..N
               PROVE  (EnumerateFiles(dir)[j].name < EnumerateFiles(dir)[m].name)
                        <=> (j < m)
    BY <1>7 DEF Sorted
  <2>. QED BY <1>6, <1>8
<1>. QED BY <1>5, <1>9


(* In a listing in name order, the entry at position e + 1 has exactly e  *)
(* entries with smaller names: those before it.                           *)
LEMMA SortedPosition ==
  ASSUME NEW seq, Len(seq) \in Nat, Sorted(seq), NEW e \in 0..(Len(seq) - 1)
  PROVE  Cardinality({j \in 1..Len(seq) : seq[j].name < seq[e + 1].name}) = e
<1>1. {j \in 1..Len(seq) : seq[j].name < seq[e + 1].name} = 1..e
  <2>1. \A j \in 1..Len(seq) : (seq[j].name < seq[e + 1].name) <=> (j < e + 1)
    BY DEF Sorted
  <2>. QED BY <2>1
<1>2. e \in Nat
  OBVIOUS
<1>3. Cardinality(1..e) = e
  BY <1>2, FS_Interval
<1>. QED BY <1>1, <1>3

(* The remainder is the only r in 0..b-1 with a = q * b + r.             *)
LEMMA ModUnique ==
  ASSUME NEW a \in Nat, NEW b \in Nat \ {0}, NEW q \in Int, NEW r \in 0..(b - 1),
         a = q * b + r
  PROVE  a % b = r
<1> DEFINE d == q - a \div b
<1>1. a = b * (a \div b) + (a % b) /\ a % b \in 0..(b - 1) /\ a \div b \in Int
  <2>1. a \div b \in Int
    BY Z3
  <2>2. a % b \in 0..(b - 1)
    BY Z3
  <2>3. a % b = a - b * (a \div b)
    BY Z3
  <2>. QED BY <2>1, <2>2, <2>3
<1>2. d * b = (a % b) - r
  BY <1>1, Z3
<1>3. d \in Int
  BY <1>1
<1>4. d = 0
  <2>1. CASE d >= 1
    <3>1. d * b >= b
      BY <2>1, <1>3, Z3
    <3>. QED BY <1>1, <1>2, <3>1
  <2>2. CASE d <= -1
    <3>1. d * b <= -b
      BY <2>2, <1>3, Z3
    <3>. QED BY <1>1, <1>2, <3>1
  <2>. QED BY <1>3, <2>1, <2>2
<1>. QED BY <1>2, <1>4, Z3

(* The wrap of NextOffset: one past (n - 1) mod L, back to 0 at L, is     *)
(* n mod L.                                                                 *)
LEMMA WrapStep ==
  ASSUME NEW n \in Nat \ {0}, NEW L \in Nat \ {0}
  PROVE  (IF ((n - 1) % L) + 1 >= L THEN 0 ELSE ((n - 1) % L) + 1) = n % L
<1> DEFINE q == (n - 1) \div L
           r == (n - 1) % L
<1>1. /\ q \in Nat /\ r \in 0..(L - 1)
      /\ n - 1 = q * L + r
  BY Z3
<1>2. CASE r + 1 >= L
  <2>0. r = L - 1
    BY <1>1, <1>2
  <2>1. n = (q + 1) * L
    BY <1>1, <2>0, Z3
  <2>2. n % L = 0
    <3>1. q + 1 \in Int /\ 0 \in 0..(L - 1) /\ n = (q + 1) * L + 0
      BY <1>1, <2>1
    <3>. QED BY <3>1, ModUnique
  <2>. QED BY <1>2, <2>2
<1>3. CASE r + 1 < L
  <2>1. n = q * L + (r + 1) /\ r + 1 \in 0..(L - 1)
    BY <1>1, <1>3, Z3
  <2>2. n % L = r + 1
    <3>1. q \in Int
      BY <1>1
    <3>. QED BY <2>1, <3>1, ModUnique
  <2>. QED BY <1>3, <2>2
<1>. QED BY <1>2, <1>3


-----------------------------------------------------------------------------
LEMMA InitIInv == Init => IInv
<1> SUFFICES ASSUME Init PROVE IInv
  OBVIOUS
<1>1. frames = <<>> /\ log = <<>> /\ active = -1
  BY DEF Init
<1>2. TypeOK
  <2>1. <<>> \in Seq(Entry) /\ <<>> \in Seq([kind : {"frame", "error", "exhausted"}, name : Nat])
    BY EmptySeq
  <2>2. -1 \in -1..(Len(<<>>) - 1)
    OBVIOUS
  <2>a. status = "new" /\ offset = -1 /\ repeat = FALSE
    BY DEF Init
  <2>b. status \in {"new", "ready", "failed", "closed", "panicked"}
    BY <2>a
  <2>c. offset \in Int
    BY <2>a
  <2>d. repeat \in BOOLEAN
    BY <2>a
  <2>3. status \in {"new", "ready", "failed", "closed", "panicked"}
        /\ offset \in Int /\ repeat \in BOOLEAN
    BY <2>b, <2>c, <2>d
  <2>4. frames \in Seq(Entry) /\ active \in -1..(Len(frames) - 1)
    BY <1>1, <2>1, <2>2
  <2>5. log \in Seq([kind : {"frame", "error", "exhausted"}, name : Nat])
    BY <1>1, <2>1
  <2>. QED BY <2>3, <2>4, <2>5 DEF TypeOK
<1>. QED BY <1>1, <1>2 DEF Init, IInv, Sorted, ReplayOrder

(* initialize() runs once, on a fresh camera: whatever it takes as the     *)
(* listing is sorted, and no call has been logged yet.                     *)
LEMMA InitializeIInv ==
  ASSUME IInv, NEW s \in Settings, Initialize(s)
  PROVE  IInv'
<1>1. /\ status = "new" /\ frames = <<>> /\ log = <<>> /\ offset = -1
      /\ ~repeat /\ active = -1
  BY DEF Initialize, IInv
<1>2. /\ status' \in {"ready", "failed"}
      /\ UNCHANGED <<active, log>>
      /\ offset' = -1
      /\ frames' \in Seq(Entry) /\ Sorted(frames')
      /\ repeat' \in BOOLEAN
  <2>0. <<>> \in Seq(Entry) /\ Sorted(<<>>)
    BY EmptySeq DEF Sorted
  <2>1. CASE s.key = "absent"
    <3>1. status' = "ready" /\ UNCHANGED <<offset, repeat, frames, active, log>>
      BY <2>1 DEF Initialize, RequireExisting, ReadDirOk
    <3>. QED BY <1>1, <2>0, <3>1 DEF IInv, TypeOK
  <2>2. CASE s.key # "absent" /\ (~RequireExisting(s) \/ ~ReadDirOk(s))
    <3>1. status' = "failed" /\ UNCHANGED <<offset, repeat, frames, active, log>>
      BY <2>2 DEF Initialize
    <3>. QED BY <1>1, <2>0, <3>1 DEF IInv, TypeOK
  <2>3. CASE s.key # "absent" /\ RequireExisting(s) /\ ReadDirOk(s)
    <3>1. s.dir \in Folders
      BY <2>3 DEF Settings, RequireExisting, ReadDirOk
    <3>2. frames' = EnumerateFiles(s.dir) /\ repeat' = Flag(s.repeat)
          /\ status' = "ready" /\ offset' = -1 /\ UNCHANGED <<active, log>>
      BY <2>3 DEF Initialize, RequireExisting, ReadDirOk
    <3>. QED BY <3>1, <3>2, EnumerateSorted DEF Flag
  <2>. QED BY <2>1, <2>2, <2>3
<1>3. Len(frames') \in Nat
  BY <1>2, LenProperties
<1>. QED BY <1>1, <1>2, <1>3 DEF IInv, TypeOK, ReplayOrder


(* A call logged after the others, and served as ReplayOrder asks, keeps  *)
(* the log in replay order as long as the listing and the flag stay.      *)
LEMMA AppendReplay ==
  ASSUME TypeOK, ReplayOrder, frames' = frames, repeat' = repeat,
         NEW r \in LogRec, log' = Append(log, r), Served(Len(log) + 1, r)
  PROVE  ReplayOrder'
<1>1. log \in Seq(LogRec)
  BY DEF TypeOK, LogRec
<1>2. Len(log) \in Nat
  BY <1>1, LenProperties
<1>3. /\ Len(log') = Len(log) + 1
      /\ \A k \in 1..Len(log) : log'[k] = log[k]
      /\ log'[Len(log) + 1] = r
  BY <1>1, AppendProperties
<1>4. SUFFICES ASSUME NEW k \in 1..Len(log') PROVE Served(k, log'[k])
  BY DEF ReplayOrder, Served, ExpectedEntry
<1>5. CASE k <= Len(log)
  <2>1. Served(k, log[k])
    BY <1>2, <1>3, <1>5 DEF ReplayOrder, Served
  <2>. QED BY <1>3, <1>5, <2>1
<1>6. CASE k = Len(log) + 1
  BY <1>3, <1>6
<1>. QED BY <1>2, <1>3, <1>5, <1>6


(* A call logged past the end of a listing that does not repeat is the   *)
(* error the log expects there, and moves the offset one on.              *)
LEMMA ExhaustedIInv ==
  ASSUME IInv, NextExhausted
  PROVE  IInv'
<1>1. /\ status \in {"ready", "closed"} /\ offset + 1 >= Len(frames) /\ ~repeat
      /\ offset' = offset + 1
      /\ log' = Append(log, [kind |-> "exhausted", name |-> 0])
      /\ UNCHANGED <<status, repeat, frames, active>>
  BY DEF NextExhausted
<1>2. /\ TypeOK /\ Sorted(frames) /\ ReplayOrder
      /\ offset = IF log = <<>> THEN -1 ELSE ExpectedEntry(Len(log))
  BY <1>1 DEF IInv
<1>3. /\ log \in Seq(LogRec) /\ Len(log) \in Nat /\ Len(frames) \in Nat
      /\ offset \in Int
  BY <1>2, LenProperties DEF TypeOK, LogRec
<1>4. offset = Len(log) - 1
  <2>1. CASE log = <<>>
    BY <1>2, <2>1, EmptySeq
  <2>2. CASE log # <<>>
    BY <1>1, <1>2, <2>2 DEF ExpectedEntry
  <2>. QED BY <2>1, <2>2
<1>5. [kind |-> "exhausted", name |-> 0] \in LogRec
  BY DEF LogRec
<1>6. /\ log' \in Seq(LogRec) /\ log' # <<>> /\ Len(log') = Len(log) + 1
  BY <1>1, <1>3, <1>5, AppendProperties
<1>7. TypeOK'
  BY <1>1, <1>2, <1>3, <1>6 DEF TypeOK, LogRec
<1>8. ReplayOrder'
  <2>1. Served(Len(log) + 1, [kind |-> "exhausted", name |-> 0])
    BY <1>1, <1>3, <1>4 DEF Served
  <2>. QED BY <1>1, <1>2, <1>5, <2>1, AppendReplay
<1>9. offset' = (ExpectedEntry(Len(log)))'
  BY <1>1, <1>3, <1>4, <1>6 DEF ExpectedEntry
<1>. QED BY <1>1, <1>2, <1>6, <1>7, <1>8, <1>9 DEF IInv


(* A step that keeps the listing, the flag and the log keeps them in     *)
(* order.                                                                  *)
LEMMA StayOrdered ==
  ASSUME Sorted(frames), ReplayOrder, UNCHANGED <<repeat, frames, log>>
  PROVE  Sorted(frames)' /\ ReplayOrder'
BY DEF Sorted, ReplayOrder, ExpectedEntry

(* The out-of-bounds panic only moves the offset, and a panicked camera   *)
(* owes no offset to its log.                                             *)
LEMMA OutOfBoundsIInv ==
  ASSUME IInv, NextOutOfBounds
  PROVE  IInv'
<1>1. /\ status' = "panicked" /\ offset' = NextOffset
      /\ UNCHANGED <<repeat, frames, active, log>>
  BY DEF NextOutOfBounds
<1>2. offset \in Int /\ Len(frames) \in Nat
  BY LenProperties DEF IInv, TypeOK
<1>3. NextOffset \in Int
  BY <1>2 DEF NextOffset
<1>4. TypeOK'
  BY <1>1, <1>3 DEF IInv, TypeOK
<1>5. Sorted(frames)' /\ ReplayOrder'
  BY <1>1, StayOrdered DEF IInv
<1>. QED BY <1>1, <1>4, <1>5 DEF IInv

(* shutdown() only marks the camera closed, and next() may still be called. *)
LEMMA ShutdownIInv ==
  ASSUME IInv, Shutdown
  PROVE  IInv'
<1>1. /\ status \in {"ready", "closed"} /\ status' = "closed"
      /\ UNCHANGED <<offset, repeat, frames, active, log>>
  BY DEF Shutdown
<1>2. TypeOK'
  BY <1>1 DEF IInv, TypeOK
<1>3. Sorted(frames)' /\ ReplayOrder'
  BY <1>1, StayOrdered DEF IInv
<1>4. (offset = IF log = <<>> THEN -1 ELSE ExpectedEntry(Len(log)))'
  BY <1>1 DEF IInv, ExpectedEntry
<1>. QED BY <1>1, <1>2, <1>3, <1>4 DEF IInv


(* After k calls the offset next() moves to is the position the (k+1)-th *)
(* call should serve: one past the last, wrapped when the listing repeats. *)
LEMMA ReadOffset ==
  ASSUME IInv, NextRead
  PROVE  /\ NextOffset \in 0..(Len(frames) - 1)
         /\ NextOffset = ExpectedEntry(Len(log) + 1)
<1> DEFINE L == Len(frames)
<1>1. /\ status \in {"ready", "closed"} /\ ~(offset + 1 >= L /\ ~repeat)
      /\ NextOffset < L
  BY DEF NextRead
<1>2. /\ TypeOK /\ (repeat /\ L = 0 => log = <<>>)
      /\ offset = IF log = <<>> THEN -1 ELSE ExpectedEntry(Len(log))
  BY <1>1 DEF IInv
<1>3. /\ log \in Seq(LogRec) /\ Len(log) \in Nat /\ L \in Nat
      /\ repeat \in BOOLEAN
  BY <1>2, LenProperties DEF TypeOK, LogRec
<1>4. CASE log = <<>>
  <2>1. Len(log) = 0 /\ offset = -1
    BY <1>2, <1>4, EmptySeq
  <2>2. NextOffset = 0 /\ L \in Nat \ {0}
    BY <1>1, <1>3, <2>1 DEF NextOffset
  <2>3. ExpectedEntry(1) = 0
    BY <2>2 DEF ExpectedEntry
  <2>. QED BY <2>1, <2>2, <2>3
<1>5. CASE log # <<>> /\ ~repeat
  <2>1. offset = Len(log) - 1 /\ Len(log) \in Nat \ {0}
    BY <1>2, <1>3, <1>5, EmptySeq DEF ExpectedEntry
  <2>2. NextOffset = Len(log)
    BY <1>5, <2>1 DEF NextOffset
  <2>. QED BY <1>1, <1>5, <2>1, <2>2 DEF ExpectedEntry
<1>6. CASE log # <<>> /\ repeat
  <2>1. L \in Nat \ {0} /\ Len(log) \in Nat \ {0}
    BY <1>2, <1>3, <1>6, EmptySeq
  <2>2. offset = (Len(log) - 1) % L
    BY <1>2, <1>6 DEF ExpectedEntry
  <2>3. NextOffset = (IF ((Len(log) - 1) % L) + 1 >= L
                        THEN 0 ELSE ((Len(log) - 1) % L) + 1)
    BY <1>6, <2>2 DEF NextOffset
  <2>4. NextOffset = Len(log) % L
    BY <2>1, <2>3, WrapStep
  <2>5. Len(log) % L \in 0..(L - 1)
    BY <2>1
  <2>. QED BY <1>6, <2>1, <2>4, <2>5 DEF ExpectedEntry
<1>. QED BY <1>3, <1>4, <1>5, <1>6


(* next() reads the entry the replay order expects next: the one with as  *)
(* many smaller names as its position, a frame exactly when it decodes.   *)
LEMMA ReadIInv ==
  ASSUME IInv, NextRead
  PROVE  IInv'
<1>1. /\ TypeOK /\ Sorted(frames) /\ ReplayOrder
  BY DEF IInv
<1>2. PICK e \in 0..(Len(frames) - 1) :
        /\ e = NextOffset
        /\ e = ExpectedEntry(Len(log) + 1)
  BY ReadOffset
<1>3. /\ status \in {"ready", "closed"} /\ offset' = e
      /\ UNCHANGED <<status, repeat, frames>>
  BY <1>2 DEF NextRead
<1>4. /\ frames \in Seq(Entry) /\ Len(frames) \in Nat /\ Len(log) \in Nat
      /\ log \in Seq(LogRec) /\ repeat \in BOOLEAN
      /\ active \in -1..(Len(frames) - 1)
  BY <1>1, LenProperties DEF TypeOK, LogRec
<1>5. frames[e + 1] \in Entry
  BY <1>4, LenProperties
<1>6. PICK r \in LogRec :
        /\ log' = Append(log, r)
        /\ r.name = frames[e + 1].name
        /\ (r.kind = "frame") = (frames[e + 1].kind = "image")
        /\ active' \in {active, e}
  <2>1. CASE frames[e + 1].kind = "image"
    <3>1. log' = Append(log, [kind |-> "frame", name |-> frames[e + 1].name])
          /\ active' = e
      BY <1>2, <2>1 DEF NextRead
    <3>. QED BY <1>5, <2>1, <3>1 DEF LogRec, Entry
  <2>2. CASE frames[e + 1].kind # "image"
    <3>1. log' = Append(log, [kind |-> "error", name |-> frames[e + 1].name])
          /\ active' = active
      BY <1>2, <2>2 DEF NextRead
    <3>. QED BY <1>5, <2>2, <3>1 DEF LogRec, Entry
  <2>. QED BY <2>1, <2>2
<1>7. /\ log' \in Seq(LogRec) /\ log' # <<>> /\ Len(log') = Len(log) + 1
  BY <1>4, <1>6, AppendProperties
<1>8. TypeOK'
  BY <1>2, <1>3, <1>4, <1>6, <1>7 DEF TypeOK, LogRec
<1>9. Served(Len(log) + 1, r)
  <2>1. repeat \/ Len(log) + 1 <= Len(frames)
    BY <1>2, <1>4 DEF ExpectedEntry
  <2>2. Cardinality({j \in 1..Len(frames) : frames[j].name < r.name}) = e
    BY <1>1, <1>2, <1>4, <1>6, SortedPosition
  <2>3. \E j \in 1..Len(frames) :
          /\ frames[j].name = r.name
          /\ (r.kind = "frame") = (frames[j].kind = "image")
    <3>. WITNESS e + 1 \in 1..Len(frames)
    <3>. QED BY <1>6
  <2>. QED BY <1>2, <2>1, <2>2, <2>3 DEF Served
<1>10. ReplayOrder'
  BY <1>1, <1>3, <1>6, <1>9, AppendReplay
<1>11. (offset = IF log = <<>> THEN -1 ELSE ExpectedEntry(Len(log)))'
  BY <1>2, <1>3, <1>7 DEF ExpectedEntry
<1>12. (repeat /\ Len(frames) = 0 => log = <<>>)'
  BY <1>2, <1>3
<1>13. Sorted(frames)'
  BY <1>1, <1>3 DEF Sorted
<1>. QED BY <1>3, <1>8, <1>10, <1>11, <1>12, <1>13 DEF IInv


(* Every step of the camera keeps the inductive invariant.                 *)
LEMMA NextIInv ==
  ASSUME IInv, [Next]_vars
  PROVE  IInv'
<1>1. CASE \E s \in Settings : Initialize(s)
  BY <1>1, InitializeIInv
<1>2. CASE NextExhausted
  BY <1>2, ExhaustedIInv
<1>3. CASE NextOutOfBounds
  BY <1>3, OutOfBoundsIInv
<1>4. CASE NextRead
  BY <1>4, ReadIInv
<1>5. CASE Shutdown
  BY <1>5, ShutdownIInv
<1>6. CASE Gone \/ UNCHANGED vars
  <2>1. UNCHANGED <<status, offset, repeat, frames, active, log>>
    BY <1>6 DEF Gone, vars
  <2>2. TypeOK' /\ Sorted(frames)' /\ ReplayOrder'
    BY <2>1, StayOrdered DEF IInv, TypeOK
  <2>. QED BY <2>1, <2>2 DEF IInv, ExpectedEntry
<1>. QED BY <1>1, <1>2, <1>3, <1>4, <1>5, <1>6 DEF Next

(* Type correctness of the replay backend: status, offset, listing,      *)
(* active index and log keep their types, and self.active always indexes *)
(* an entry of self.frames or is unset.                                   *)
THEOREM MockTypeCorrect == Spec => []TypeOK
<1>1. IInv => TypeOK
  BY DEF IInv
<1>. QED BY <1>1, InitIInv, NextIInv, PTL DEF Spec

(* Replay order (spec section 8), for every set of folders: the k-th      *)
(* next() serves the k-th entry of enumerate_files' sorted listing,       *)
(* cycling when the repeat flag is set, and once a non-repeating listing *)
(* is exhausted every call is the DeviceNoLongerAvailable error.          *)
THEOREM ReplayInOrder == Spec => []ReplayOrder
<1>1. IInv => ReplayOrder
  BY DEF IInv
<1>. QED BY <1>1, InitIInv, NextIInv, PTL DEF Spec

=============================================================================
