------------------------- MODULE UploadIntakeProofs -------------------------
(***************************************************************************)
(* Upload intake, for any number of concurrent requests and any sizes: the *)
(* bytes on disk and the bytes reserved add up, what uploads may still     *)
(* write stays above the free-space floor, names within an upload are      *)
(* unique, and the answer tells what became of the request.                *)
(***************************************************************************)
EXTENDS UploadIntake, FiniteSetTheorems, NaturalsInduction, TLAPS

-----------------------------------------------------------------------------
(* Sums of sizes *)

\* A finite family of sizes.
Sizes(f) == IsFiniteSet(DOMAIN f) /\ \A x \in DOMAIN f : f[x] \in Nat

\* The blocks of a family of sizes.
LEMMA BlocksAre ==
    ASSUME NEW f, Sizes(f)
    PROVE  /\ \A b : b \in Blocks(f) <=> \E x \in DOMAIN f : \E i \in 1 .. f[x] : b = <<x, i>>
           /\ IsFiniteSet(Blocks(f))
           /\ Total(f) \in Nat
<1> DEFINE D == DOMAIN f
           g == [x \in D |-> {x} \X (1 .. f[x])]
           R == {{x} \X (1 .. f[x]) : x \in D}
<1>1. \A b : b \in Blocks(f) <=> \E x \in DOMAIN f : \E i \in 1 .. f[x] : b = <<x, i>>
  BY DEF Blocks
<1>2. g \in Surjection(D, R)
  BY DEF Surjection
<1>3. IsFiniteSet(R)
  BY <1>2, FS_Surjection DEF Sizes
<1>4. \A T \in R : IsFiniteSet(T)
  <2> SUFFICES ASSUME NEW x \in D PROVE IsFiniteSet({x} \X (1 .. f[x]))
    OBVIOUS
  <2>1. 1 \in Int /\ f[x] \in Int
    BY DEF Sizes
  <2>2. IsFiniteSet({x}) /\ IsFiniteSet(1 .. f[x])
    BY <2>1, FS_Singleton, FS_Interval
  <2> QED
    BY <2>2, FS_Product
<1>5. IsFiniteSet(UNION R)
  BY <1>3, <1>4, FS_UNION
<1>6. IsFiniteSet(Blocks(f))
  BY <1>5 DEF Blocks
<1> QED
  BY <1>1, <1>6, FS_CardinalityType DEF Total

\* A sum of zeros, in particular an empty one.
LEMMA TotalZero ==
    ASSUME NEW f, \A x \in DOMAIN f : f[x] = 0
    PROVE  Total(f) = 0
<1>1. Blocks(f) = {}
  BY DEF Blocks
<1> QED
  BY <1>1, FS_EmptySet DEF Total

\* Smaller sizes have a smaller sum.
LEMMA TotalLeq ==
    ASSUME NEW f, NEW g, Sizes(f), Sizes(g), DOMAIN f = DOMAIN g,
           \A x \in DOMAIN f : f[x] <= g[x]
    PROVE  Total(f) <= Total(g)
<1>1. Blocks(f) \subseteq Blocks(g)
  BY BlocksAre DEF Sizes
<1> QED
  BY <1>1, BlocksAre, FS_Subset DEF Total

\* A size and the sum of the others.
LEMMA TotalSplit ==
    ASSUME NEW f, Sizes(f), NEW x \in DOMAIN f
    PROVE  Total(f) = f[x] + Total([y \in DOMAIN f \ {x} |-> f[y]])
<1> DEFINE rest == [y \in DOMAIN f \ {x} |-> f[y]]
           own == {x} \X (1 .. f[x])
<1>1. Sizes(rest)
  BY FS_RemoveElement DEF Sizes
<1>2. IsFiniteSet(own) /\ Cardinality(own) = f[x]
  <2>1. f[x] \in Nat
    BY DEF Sizes
  <2>2. IsFiniteSet({x}) /\ Cardinality({x}) = 1
    BY FS_Singleton
  <2>3. IsFiniteSet(1 .. f[x]) /\ Cardinality(1 .. f[x]) = f[x]
    BY <2>1, FS_Interval
  <2> HIDE DEF own
  <2>4. IsFiniteSet({x} \X (1 .. f[x])) /\ Cardinality({x} \X (1 .. f[x])) = 1 * f[x]
    BY <2>2, <2>3, FS_Product
  <2> QED
    BY <2>1, <2>4 DEF own
<1>3. Blocks(f) = own \cup Blocks(rest) /\ own \cap Blocks(rest) = {}
  BY <1>1, BlocksAre
<1>4. IsFiniteSet(Blocks(rest)) /\ Total(rest) \in Nat
  BY <1>1, BlocksAre
<1> HIDE DEF own, rest
<1>5. Cardinality(Blocks(f)) = f[x] + Cardinality(Blocks(rest)) - Cardinality({})
  BY <1>2, <1>3, <1>4, FS_Union
<1>6. Cardinality({}) = 0
  BY FS_EmptySet
<1> QED
  BY <1>4, <1>5, <1>6 DEF Total, rest, Sizes

\* Changing one size changes the sum by as much.
LEMMA TotalChange ==
    ASSUME NEW f, NEW g, Sizes(f), Sizes(g), DOMAIN f = DOMAIN g, NEW x \in DOMAIN f,
           \A y \in DOMAIN f \ {x} : g[y] = f[y]
    PROVE  Total(g) - g[x] = Total(f) - f[x]
<1>1. [y \in DOMAIN f \ {x} |-> f[y]] = [y \in DOMAIN g \ {x} |-> g[y]]
  OBVIOUS
<1>2. Total([y \in DOMAIN f \ {x} |-> f[y]]) \in Nat
  <2>1. Sizes([y \in DOMAIN f \ {x} |-> f[y]])
    BY FS_RemoveElement DEF Sizes
  <2> QED
    BY <2>1, BlocksAre
<1>3. f[x] \in Nat /\ g[x] \in Nat
  BY DEF Sizes
<1>4. /\ Total(f) = f[x] + Total([y \in DOMAIN f \ {x} |-> f[y]])
      /\ Total(g) = g[x] + Total([y \in DOMAIN f \ {x} |-> f[y]])
  BY <1>1, TotalSplit
<1> QED
  BY <1>2, <1>3, <1>4

\* One size is at most the sum.
LEMMA TotalPart ==
    ASSUME NEW f, Sizes(f), NEW x \in DOMAIN f
    PROVE  f[x] <= Total(f)
<1>1. Sizes([y \in DOMAIN f \ {x} |-> f[y]])
  BY FS_RemoveElement DEF Sizes
<1>2. Total([y \in DOMAIN f \ {x} |-> f[y]]) \in Nat
  BY <1>1, BlocksAre
<1>3. f[x] \in Nat
  BY DEF Sizes
<1> QED
  BY <1>2, <1>3, TotalSplit

\* A new size adds itself to the sum.
LEMMA TotalGrows ==
    ASSUME NEW f, NEW g, Sizes(f), NEW x, x \notin DOMAIN f, DOMAIN g = DOMAIN f \cup {x},
           g[x] \in Nat, \A y \in DOMAIN f : g[y] = f[y]
    PROVE  Sizes(g) /\ Total(g) = Total(f) + g[x]
<1>1. Sizes(g)
  BY FS_AddElement DEF Sizes
<1>2. [y \in DOMAIN g \ {x} |-> g[y]] = [y \in DOMAIN f |-> f[y]]
  OBVIOUS
<1>3. Total([y \in DOMAIN f |-> f[y]]) = Total(f)
  BY DEF Total, Blocks
<1>4. Total(f) \in Nat
  BY BlocksAre
<1>5. Total(g) = g[x] + Total(f)
  BY <1>1, <1>2, <1>3, TotalSplit
<1> QED
  BY <1>1, <1>4, <1>5

-----------------------------------------------------------------------------
(* Names *)

\* A non-empty set of numbers has a smallest one.
LEMMA LeastNumber ==
    ASSUME NEW S, S \subseteq Nat, S # {}
    PROVE  \E n \in S : \A k \in S : n <= k
<1> DEFINE Less == {p \in Nat \X Nat : p[1] < p[2]}
<1>1. IsWellFoundedOn(Less, Nat)
  BY NatLessThanWellFounded, Zenon DEF OpToRel
<1> HIDE DEF Less
<1>2. PICK n \in S : \A k \in S : ~(<<k, n>> \in Less)
  BY <1>1, WFMin
<1>3. \A k \in S : ~(k < n)
  BY <1>2 DEF Less
<1> QED
  BY <1>3

\* UniqueFileName finds a free name as long as fewer than MaxFiles are taken: it
\* tries MaxFiles numbers, and no two of them give the same name.
LEMMA NameIsFree ==
    ASSUME NEW taken, IsFiniteSet(taken), Cardinality(taken) < MaxFiles, NEW name \in DisplayName
    PROVE  UniqueFileName(taken, name) \in Seq(Nat) \ taken
<1>1. name \in Seq(Nat) /\ MaxFiles \in Nat \ {0}
  BY IntakeAssumption
<1>2. CASE name \notin taken
  BY <1>1, <1>2 DEF UniqueFileName
<1>3. CASE name \in taken
  <2> DEFINE N == 2 .. MaxFiles + 1
             h == [n \in N |-> Append(name, n)]
             P(n) == /\ Append(name, n) \notin taken
                     /\ \A k \in 2 .. n - 1 : Append(name, k) \in taken
  <2>1. IsFiniteSet(N) /\ Cardinality(N) = MaxFiles
    <3>1. 2 \in Int /\ MaxFiles + 1 \in Int
      BY <1>1
    <3>2. IsFiniteSet(N) /\ Cardinality(N) = IF 2 > MaxFiles + 1 THEN 0 ELSE (MaxFiles + 1) - 2 + 1
      BY <3>1, FS_Interval
    <3> QED
      BY <1>1, <3>2
  <2>2. \A m, n \in N : h[m] = h[n] => m = n
    <3> SUFFICES ASSUME NEW m \in N, NEW n \in N, Append(name, m) = Append(name, n) PROVE m = n
      OBVIOUS
    <3>1. Append(name, m)[Len(name) + 1] = m /\ Append(name, n)[Len(name) + 1] = n
      BY <1>1
    <3> QED
      BY <3>1
  <2>3. \E n \in N : Append(name, n) \notin taken
    <3> SUFFICES ASSUME \A n \in N : Append(name, n) \in taken PROVE FALSE
      OBVIOUS
    <3>1. h \in [N -> taken]
      OBVIOUS
    <3> HIDE DEF h
    <3>2. \E m, n \in N : m # n /\ h[m] = h[n]
      BY <2>1, <3>1, FS_PigeonHole
    <3> QED
      BY <2>2, <3>2
  <2>4. PICK n \in N : Append(name, n) \notin taken /\ \A k \in N : Append(name, k) \notin taken => n <= k
    <3> DEFINE S == {m \in N : Append(name, m) \notin taken}
    <3>1. S \subseteq Nat /\ S # {}
      BY <1>1, <2>3
    <3>2. PICK m \in S : \A k \in S : m <= k
      BY <3>1, LeastNumber
    <3> QED
      BY <3>2
  <2>5. P(n)
    <3> SUFFICES ASSUME NEW k \in 2 .. n - 1 PROVE Append(name, k) \in taken
      BY <2>4
    <3>1. k \in N /\ ~(n <= k)
      BY <1>1
    <3> QED
      BY <2>4, <3>1
  <2> DEFINE c == CHOOSE m \in N : P(m)
  <2>6. c \in N /\ P(c)
    BY <2>5
  <2>7. UniqueFileName(taken, name) = Append(name, c)
    BY <1>3 DEF UniqueFileName
  <2> HIDE DEF c
  <2>8. Append(name, c) \in Seq(Nat)
    BY <1>1, <2>6
  <2> QED
    BY <2>6, <2>7, <2>8
<1> QED
  BY <1>2, <1>3

-----------------------------------------------------------------------------
(* One request *)

\* What receive has stored: sizes by stored name.
Files == UNION {[S -> Nat] : S \in SUBSET Seq(Nat)}

RequestType ==
    [pc : {"idle", "create", "next", "copy", "save", "discard", "return", "answered", "refused"},
     budget : Nat, limitErr : {"tooLarge", "insufficientSpace"}, remaining : Nat,
     count : Nat, fields : Nat, files : Files, part : Seq(Nat), written : Nat,
     total : Nat, body : Nat, stalled : BOOLEAN, err : Errors, status : Nat]

\* Every stored file has a byte, and the part being copied has a name of its own.
FilesInv(r) ==
    /\ IsFiniteSet(DOMAIN r.files)
    /\ \A n \in DOMAIN r.files : r.files[n] > 0
    /\ r.pc # "copy" => r.written = 0
    /\ r.pc = "copy" => r.part \notin DOMAIN r.files

\* receive and save go on only without an error, and a rejected request keeps its
\* files no longer than until Accept deletes the job.
ErrorInv(r) ==
    /\ r.pc \in {"idle", "create", "next", "copy", "save"} => r.err = "none"
    /\ r.pc \in {"discard", "refused"} => r.err # "none"
    /\ r.pc \in {"return", "answered"} /\ r.err # "none" => DOMAIN r.files = {}
    /\ r.pc \in {"idle", "create", "refused"} => DOMAIN r.files = {}

\* As long as nothing failed, the locals of receive agree with the files.
LedgerInv(r) ==
    r.err = "none" =>
        /\ Cardinality(DOMAIN r.files) = IF r.pc = "copy" THEN r.count - 1 ELSE r.count
        /\ r.total = Total(r.files)
        /\ r.remaining + r.total = r.budget
        /\ r.written <= r.remaining
        /\ r.total + r.written <= r.body

\* The bounds, and what an error of either kind says about them.
LimitInv(r) ==
    /\ r.budget <= MaxUploadSize
    /\ r.count <= MaxFiles
    /\ r.pc \notin {"idle", "refused"} =>
        (r.limitErr = "tooLarge" <=> r.budget = MaxUploadSize)
    /\ r.err = "tooLarge" => r.body >= MaxUploadSize
    /\ r.err = "insufficientSpace" /\ r.pc # "refused" => r.budget < MaxUploadSize

StatusInv(r) == r.pc = "answered" => r.status = Status(r)

RequestInv(r) ==
    /\ r \in RequestType
    /\ FilesInv(r) /\ ErrorInv(r) /\ LedgerInv(r) /\ LimitInv(r) /\ StatusInv(r)

\* What a request has reserved, and what it may still write.
Held(r) == IF r.pc \notin {"idle", "answered", "refused"} THEN r.budget ELSE 0

Out(r) == IF r.pc \in {"create", "next", "copy"} THEN r.remaining - r.written ELSE 0

\* These amounts are numbers, and a request never has more to write than it holds.
LEMMA Amounts ==
    ASSUME NEW r, RequestInv(r)
    PROVE  /\ Held(r) \in Nat /\ Out(r) \in Nat /\ OnDisk(r) \in Nat
           /\ Out(r) <= Held(r)
           /\ Sizes(r.files) /\ Total(r.files) \in Nat
<1>1. r \in RequestType /\ FilesInv(r) /\ ErrorInv(r) /\ LedgerInv(r)
  BY DEF RequestInv
<1>2. r.files \in Files /\ r.written \in Nat /\ r.remaining \in Nat /\ r.budget \in Nat /\ r.total \in Nat
  BY <1>1 DEF RequestType
<1>3. Sizes(r.files)
  BY <1>1, <1>2 DEF Files, Sizes, FilesInv
<1>4. Total(r.files) \in Nat
  BY <1>3, BlocksAre
<1>5. Held(r) \in Nat /\ OnDisk(r) \in Nat
  BY <1>2, <1>4 DEF Held, OnDisk
<1>6. Out(r) \in Nat /\ Out(r) <= Held(r)
  BY <1>1, <1>2 DEF Out, Held, ErrorInv, LedgerInv
<1> QED
  BY <1>3, <1>4, <1>5, <1>6

\* A fresh request is in order and owes nothing.
LEMMA FreshRequest ==
    RequestInv(Fresh) /\ Held(Fresh) = 0 /\ Out(Fresh) = 0 /\ OnDisk(Fresh) = 0
<1>1. Fresh.files = <<>> /\ DOMAIN Fresh.files = {}
  BY DEF Fresh
<1>2. Total(Fresh.files) = 0
  BY <1>1, TotalZero
<1>3. IsFiniteSet({}) /\ Cardinality({}) = 0
  BY FS_EmptySet
<1>4. <<>> \in Files
  <2>1. <<>> \in [{} -> Nat]
    OBVIOUS
  <2> QED
    BY <2>1 DEF Files
<1>5. Fresh \in RequestType
  BY <1>4 DEF Fresh, RequestType, Errors
<1>6. FilesInv(Fresh)
  BY <1>1, <1>3 DEF Fresh, FilesInv
<1>7. ErrorInv(Fresh) /\ StatusInv(Fresh)
  BY <1>1 DEF Fresh, ErrorInv, StatusInv
<1>8. LedgerInv(Fresh)
  BY <1>1, <1>2, <1>3 DEF Fresh, LedgerInv
<1>9. LimitInv(Fresh)
  BY IntakeAssumption DEF Fresh, LimitInv
<1> QED
  BY <1>2, <1>5, <1>6, <1>7, <1>8, <1>9 DEF RequestInv, Held, Out, OnDisk, Fresh

-----------------------------------------------------------------------------
(* What a step makes of a request *)

\* Reserve, for a budget within both bounds.
LEMMA Reserving ==
    ASSUME NEW r, RequestInv(r), r.pc = "idle",
           NEW s \in RequestType, s.pc = "create",
           s.budget <= MaxUploadSize, s.remaining = s.budget,
           s.limitErr = "tooLarge" <=> s.budget = MaxUploadSize,
           s.count = r.count, s.files = r.files, s.written = r.written,
           s.total = r.total, s.body = r.body, s.err = r.err
    PROVE  /\ RequestInv(s)
           /\ Held(s) = s.budget /\ Held(r) = 0
           /\ Out(s) = s.budget /\ Out(r) = 0
           /\ OnDisk(s) = OnDisk(r)
<1>1. r \in RequestType /\ FilesInv(r) /\ ErrorInv(r) /\ LedgerInv(r) /\ LimitInv(r)
  BY DEF RequestInv
<1>2. s.budget \in Nat
  BY DEF RequestType
<1>3. /\ r.err = "none" /\ r.written = 0 /\ DOMAIN r.files = {}
      /\ r.count \in Nat /\ r.body \in Nat /\ r.total \in Nat
  BY <1>1 DEF ErrorInv, FilesInv, RequestType
<1>4. Total(r.files) = 0
  BY <1>3, TotalZero
<1>5. FilesInv(s) /\ ErrorInv(s) /\ StatusInv(s)
  BY <1>1, <1>3 DEF FilesInv, ErrorInv, StatusInv
<1>6. LedgerInv(s)
  <2>1. r.total = 0 /\ Cardinality(DOMAIN r.files) = r.count
    BY <1>1, <1>3, <1>4 DEF LedgerInv
  <2> QED
    BY <1>2, <1>3, <1>4, <2>1 DEF LedgerInv
<1>7. LimitInv(s)
  BY <1>1, <1>2, <1>3, IntakeAssumption DEF LimitInv
<1> QED
  BY <1>2, <1>3, <1>5, <1>6, <1>7 DEF RequestInv, Held, Out, OnDisk

\* NoHeadroom.
LEMMA Refusing ==
    ASSUME NEW r, RequestInv(r), r.pc = "idle", NEW status \in Nat,
           NEW s, s = [r EXCEPT !.pc = "refused", !.err = "insufficientSpace",
                                !.status = status]
    PROVE  /\ RequestInv(s)
           /\ Held(s) = Held(r) /\ Out(s) = Out(r) /\ OnDisk(s) = OnDisk(r)
<1>1. r \in RequestType /\ FilesInv(r) /\ ErrorInv(r) /\ LedgerInv(r) /\ LimitInv(r)
  BY DEF RequestInv
<1>2. "insufficientSpace" \in Errors
  BY DEF Errors
<1>3. s \in RequestType
  BY <1>1, <1>2 DEF RequestType
<1>4. /\ s.pc = "refused" /\ s.err = "insufficientSpace" /\ s.budget = r.budget
      /\ s.count = r.count /\ s.files = r.files /\ s.written = r.written
  BY <1>1 DEF RequestType
<1>5. FilesInv(s) /\ ErrorInv(s) /\ StatusInv(s) /\ LedgerInv(s) /\ LimitInv(s)
  BY <1>1, <1>4 DEF FilesInv, ErrorInv, StatusInv, LedgerInv, LimitInv
<1> QED
  BY <1>3, <1>4, <1>5 DEF RequestInv, Held, Out, OnDisk

\* A step that only moves on, without an error.
LEMMA Advancing ==
    ASSUME NEW r, RequestInv(r), r.pc \in {"create", "next", "save"},
           NEW pc, \/ r.pc = "create" /\ pc = "next"
                   \/ r.pc = "next" /\ pc = "save"
                   \/ r.pc = "save" /\ pc = "return",
           NEW s, s = [r EXCEPT !.pc = pc]
    PROVE  /\ RequestInv(s)
           /\ Held(s) = Held(r) /\ Out(s) <= Out(r) /\ OnDisk(s) = OnDisk(r)
<1>1. r \in RequestType /\ FilesInv(r) /\ ErrorInv(r) /\ LedgerInv(r) /\ LimitInv(r)
  BY DEF RequestInv
<1>2. s \in RequestType
  BY <1>1 DEF RequestType
<1>3. /\ s.pc = pc /\ s.err = r.err /\ s.budget = r.budget /\ s.limitErr = r.limitErr
      /\ s.count = r.count /\ s.files = r.files /\ s.written = r.written
      /\ s.total = r.total /\ s.body = r.body /\ s.remaining = r.remaining
  BY <1>1 DEF RequestType
<1>4. FilesInv(s) /\ ErrorInv(s) /\ StatusInv(s) /\ LedgerInv(s) /\ LimitInv(s)
  BY <1>1, <1>3 DEF FilesInv, ErrorInv, StatusInv, LedgerInv, LimitInv
<1>5. Out(r) \in Nat
  BY Amounts
<1> QED
  BY <1>2, <1>3, <1>4, <1>5 DEF RequestInv, Held, Out, OnDisk

\* A request fails before any file is written: Create.  One that fails later, in
\* receive or in save: Rejected, TransportFails and Save.  The part being copied
\* is removed at once; the rest awaits Discard.
LEMMA Failing ==
    ASSUME NEW r, RequestInv(r), r.pc \in {"create", "next", "copy", "save"},
           NEW s \in RequestType,
           s.pc = IF r.pc = "create" THEN "return" ELSE "discard",
           s.err # "none",
           s.err = "tooLarge" => r.body >= MaxUploadSize,
           s.err = "insufficientSpace" => r.budget < MaxUploadSize,
           s.budget = r.budget, s.limitErr = r.limitErr, s.count = r.count,
           s.files = r.files, s.written = 0, s.body = r.body
    PROVE  /\ RequestInv(s)
           /\ Held(s) = Held(r) /\ Out(s) = 0 /\ OnDisk(s) + r.written = OnDisk(r)
<1>1. r \in RequestType /\ FilesInv(r) /\ ErrorInv(r) /\ LedgerInv(r) /\ LimitInv(r)
  BY DEF RequestInv
<1>2. FilesInv(s)
  BY <1>1 DEF FilesInv
<1>3. ErrorInv(s) /\ StatusInv(s) /\ LedgerInv(s)
  BY <1>1 DEF ErrorInv, StatusInv, LedgerInv
<1>4. LimitInv(s)
  BY <1>1 DEF LimitInv
<1>5. Total(r.files) \in Nat /\ r.written \in Nat
  BY <1>1, Amounts DEF RequestType
<1> QED
  BY <1>2, <1>3, <1>4, <1>5 DEF RequestInv, Held, Out, OnDisk

\* FormField: the field's bytes are delivered and dropped.
LEMMA Draining ==
    ASSUME NEW r, RequestInv(r), r.pc = "next",
           NEW s \in RequestType, s.pc = r.pc, s.err = r.err, s.budget = r.budget,
           s.limitErr = r.limitErr, s.count = r.count, s.files = r.files, s.written = r.written,
           s.total = r.total, s.body = r.body + 1, s.remaining = r.remaining
    PROVE  /\ RequestInv(s)
           /\ Held(s) = Held(r) /\ Out(s) = Out(r) /\ OnDisk(s) = OnDisk(r)
<1>1. r \in RequestType /\ FilesInv(r) /\ ErrorInv(r) /\ LedgerInv(r) /\ LimitInv(r)
  BY DEF RequestInv
<1>2. r.body \in Nat /\ r.total \in Nat /\ r.written \in Nat
  BY <1>1 DEF RequestType
<1>3. FilesInv(s) /\ ErrorInv(s) /\ StatusInv(s)
  BY <1>1, <1>2 DEF FilesInv, ErrorInv, StatusInv
<1>4. LedgerInv(s)
  BY <1>1, <1>2 DEF LedgerInv
<1>5. LimitInv(s)
  BY <1>1, <1>2, IntakeAssumption DEF LimitInv, ErrorInv
<1> QED
  BY <1>2, <1>3, <1>4, <1>5 DEF RequestInv, Held, Out, OnDisk

\* FilePart: a part begins under a name that no stored file has.
LEMMA Beginning ==
    ASSUME NEW r, RequestInv(r), r.pc = "next", r.count + 1 <= MaxFiles,
           NEW s \in RequestType, s.part \notin DOMAIN r.files,
           s.pc = "copy", s.err = r.err, s.budget = r.budget, s.limitErr = r.limitErr,
           s.count = r.count + 1, s.files = r.files, s.written = 0,
           s.total = r.total, s.body = r.body, s.remaining = r.remaining
    PROVE  /\ RequestInv(s)
           /\ Held(s) = Held(r) /\ Out(s) = Out(r) /\ OnDisk(s) = OnDisk(r)
<1>1. r \in RequestType /\ FilesInv(r) /\ ErrorInv(r) /\ LedgerInv(r) /\ LimitInv(r)
  BY DEF RequestInv
<1>2. r.count \in Nat
  BY <1>1 DEF RequestType
<1>3. r.written = 0 /\ r.err = "none"
  BY <1>1 DEF FilesInv, ErrorInv
<1>4. FilesInv(s) /\ ErrorInv(s) /\ StatusInv(s)
  BY <1>1, <1>2 DEF FilesInv, ErrorInv, StatusInv
<1>5. LedgerInv(s)
  BY <1>1, <1>2, <1>3 DEF LedgerInv
<1>6. LimitInv(s)
  BY <1>1, <1>2, <1>3 DEF LimitInv
<1> QED
  BY <1>2, <1>3, <1>4, <1>5, <1>6 DEF RequestInv, Held, Out, OnDisk

\* CopyByte: a byte of the part is written.
LEMMA Copying ==
    ASSUME NEW r, RequestInv(r), r.pc = "copy", Room(r),
           NEW s \in RequestType, s.pc = "copy", s.err = r.err, s.budget = r.budget,
           s.limitErr = r.limitErr, s.count = r.count, s.files = r.files,
           s.written = r.written + 1, s.part = r.part, s.total = r.total,
           s.body = r.body + 1, s.remaining = r.remaining
    PROVE  /\ RequestInv(s)
           /\ Held(s) = Held(r) /\ Out(s) = Out(r) - 1 /\ OnDisk(s) = OnDisk(r) + 1
<1>1. r \in RequestType /\ FilesInv(r) /\ ErrorInv(r) /\ LedgerInv(r) /\ LimitInv(r)
  BY DEF RequestInv
<1>2. r.written \in Nat /\ r.remaining \in Nat /\ r.total \in Nat /\ r.body \in Nat
  BY <1>1 DEF RequestType
<1>3. r.err = "none"
  BY <1>1 DEF ErrorInv
<1>4. FilesInv(s) /\ ErrorInv(s) /\ StatusInv(s)
  BY <1>1, <1>2, <1>3 DEF FilesInv, ErrorInv, StatusInv
<1>5. LedgerInv(s)
  BY <1>1, <1>2, <1>3 DEF LedgerInv, Room
<1>6. LimitInv(s)
  BY <1>1, <1>2, <1>3 DEF LimitInv
<1>7. Total(r.files) \in Nat
  BY Amounts
<1> QED
  BY <1>2, <1>4, <1>5, <1>6, <1>7 DEF RequestInv, Held, Out, OnDisk

\* EndOfPart: the part becomes a file.  Its name was free, so its bytes replace none.
LEMMA Storing ==
    ASSUME NEW r, RequestInv(r), r.pc = "copy", r.written > 0
    PROVE  /\ RequestInv(Stored(r)) /\ r.part \notin DOMAIN r.files
           /\ Held(Stored(r)) = Held(r) /\ Out(Stored(r)) = Out(r)
           /\ OnDisk(Stored(r)) = OnDisk(r)
<1> DEFINE files == [n \in (DOMAIN r.files) \cup {r.part} |->
                        IF n = r.part THEN r.written ELSE r.files[n]]
           remaining == r.remaining - r.written
           total == r.total + r.written
           s == Stored(r)
<1>1. r \in RequestType /\ FilesInv(r) /\ ErrorInv(r) /\ LedgerInv(r) /\ LimitInv(r)
  BY DEF RequestInv
<1>2. /\ r.err = "none" /\ r.part \notin DOMAIN r.files /\ r.part \in Seq(Nat)
      /\ r.written \in Nat /\ r.remaining \in Nat /\ r.total \in Nat /\ r.count \in Nat
      /\ r.body \in Nat /\ r.files \in Files
  BY <1>1 DEF ErrorInv, FilesInv, RequestType
<1>3. Sizes(r.files) /\ Total(r.files) \in Nat
  BY Amounts
<1>4. Sizes(files) /\ Total(files) = Total(r.files) + r.written
  <2>1. /\ DOMAIN files = DOMAIN r.files \cup {r.part} /\ files[r.part] = r.written
        /\ \A y \in DOMAIN r.files : files[y] = r.files[y]
    BY <1>2
  <2> HIDE DEF files
  <2>2. files[r.part] \in Nat
    BY <1>2, <2>1
  <2> QED
    BY <1>2, <1>3, <2>1, <2>2, TotalGrows
<1>5. files \in Files
  <2>1. DOMAIN r.files \subseteq Seq(Nat)
    BY <1>2 DEF Files
  <2>2. files \in [(DOMAIN r.files) \cup {r.part} -> Nat]
    BY <1>2, <1>3 DEF Sizes
  <2>3. (DOMAIN r.files) \cup {r.part} \in SUBSET Seq(Nat)
    BY <1>2, <2>1
  <2> HIDE DEF files
  <2> QED
    BY <2>2, <2>3 DEF Files
<1>6. remaining \in Nat /\ total \in Nat /\ total <= r.body
  BY <1>1, <1>2 DEF LedgerInv
<1>7. s = [r EXCEPT !.pc = "next", !.remaining = remaining, !.total = total, !.written = 0,
                    !.part = <<>>, !.files = files]
  BY <1>1 DEF Stored, RequestType
<1>8. IsFiniteSet(DOMAIN files) /\ Cardinality(DOMAIN files) = Cardinality(DOMAIN r.files) + 1
  BY <1>2, <1>3, FS_AddElement DEF Sizes
<1>9. \A n \in DOMAIN files : files[n] > 0
  BY <1>1, <1>2 DEF FilesInv
<1> HIDE DEF files, remaining, total, s
<1>10. s \in RequestType
  <2>1. <<>> \in Seq(Nat)
    OBVIOUS
  <2> QED
    BY <1>1, <1>5, <1>6, <1>7, <2>1 DEF RequestType
<1>11. /\ s.pc = "next" /\ s.err = r.err /\ s.budget = r.budget /\ s.limitErr = r.limitErr
       /\ s.count = r.count /\ s.files = files /\ s.written = 0
       /\ s.total = total /\ s.body = r.body /\ s.remaining = remaining
  BY <1>1, <1>7 DEF RequestType
<1>12. FilesInv(s) /\ ErrorInv(s) /\ StatusInv(s)
  BY <1>2, <1>8, <1>9, <1>11 DEF FilesInv, ErrorInv, StatusInv
<1>13. LedgerInv(s)
  <2>1. s.total = Total(files)
    BY <1>1, <1>2, <1>4, <1>11 DEF LedgerInv, total
  <2>2. Cardinality(DOMAIN files) = s.count
    BY <1>1, <1>2, <1>8, <1>11 DEF LedgerInv
  <2>3. s.remaining + s.total = s.budget
    BY <1>1, <1>2, <1>11 DEF LedgerInv, total, remaining
  <2> QED
    BY <1>6, <1>11, <2>1, <2>2, <2>3 DEF LedgerInv
<1>14. LimitInv(s)
  BY <1>1, <1>2, <1>11 DEF LimitInv
<1>15. RequestInv(s)
  BY <1>10, <1>12, <1>13, <1>14 DEF RequestInv
<1>16. Out(s) = Out(r)
  BY <1>2, <1>11 DEF Out, remaining
<1>17. Held(s) = Held(r)
  BY <1>11 DEF Held
<1>18. OnDisk(s) = OnDisk(r)
  BY <1>2, <1>3, <1>4, <1>11 DEF OnDisk
<1> QED
  BY <1>2, <1>15, <1>16, <1>17, <1>18 DEF s

\* Discard: the files of a rejected request are removed.
LEMMA Discarding ==
    ASSUME NEW r, RequestInv(r), r.pc = "discard",
           NEW s, s = [r EXCEPT !.pc = "return", !.files = <<>>]
    PROVE  /\ RequestInv(s)
           /\ Held(s) = Held(r) /\ Out(s) = Out(r) /\ OnDisk(s) = 0
<1>1. r \in RequestType /\ FilesInv(r) /\ ErrorInv(r) /\ LedgerInv(r) /\ LimitInv(r)
  BY DEF RequestInv
<1>2. <<>> \in Files /\ DOMAIN <<>> = {}
  BY FreshRequest DEF RequestInv, RequestType, Fresh
<1>3. s \in RequestType
  BY <1>1, <1>2 DEF RequestType
<1>4. /\ s.pc = "return" /\ s.err = r.err /\ s.budget = r.budget /\ s.limitErr = r.limitErr
      /\ s.count = r.count /\ s.files = <<>> /\ s.written = r.written /\ s.body = r.body
      /\ r.written = 0 /\ r.err # "none"
  BY <1>1 DEF RequestType, FilesInv, ErrorInv
<1>5. IsFiniteSet({}) /\ Total(<<>>) = 0
  BY <1>2, FS_EmptySet, TotalZero
<1>6. FilesInv(s) /\ ErrorInv(s) /\ StatusInv(s)
  BY <1>2, <1>4, <1>5 DEF FilesInv, ErrorInv, StatusInv
<1>7. LedgerInv(s) /\ LimitInv(s)
  BY <1>1, <1>4 DEF LedgerInv, LimitInv
<1> QED
  BY <1>3, <1>4, <1>5, <1>6, <1>7 DEF RequestInv, Held, Out, OnDisk

\* Return: the reservation is given back and the outcome answered.
LEMMA Answering ==
    ASSUME NEW r, RequestInv(r), r.pc = "return",
           NEW s, s = [r EXCEPT !.pc = "answered", !.status = Status(r)]
    PROVE  /\ RequestInv(s)
           /\ Held(s) = 0 /\ Held(r) = r.budget /\ Out(s) = Out(r) /\ OnDisk(s) = OnDisk(r)
<1> DEFINE status == Status(r)
<1>1. r \in RequestType /\ FilesInv(r) /\ ErrorInv(r) /\ LedgerInv(r) /\ LimitInv(r)
  BY DEF RequestInv
<1>2. status \in Nat
  BY DEF Status, StatusOf
<1>3. s = [r EXCEPT !.pc = "answered", !.status = status]
  OBVIOUS
<1> HIDE DEF status
<1>4. s \in RequestType
  BY <1>1, <1>2, <1>3 DEF RequestType
<1>5. /\ s.pc = "answered" /\ s.err = r.err /\ s.budget = r.budget /\ s.limitErr = r.limitErr
      /\ s.count = r.count /\ s.files = r.files /\ s.written = r.written
      /\ s.total = r.total /\ s.body = r.body /\ s.remaining = r.remaining
      /\ s.stalled = r.stalled /\ s.status = status
  BY <1>1, <1>3 DEF RequestType
<1>6. FilesInv(s) /\ ErrorInv(s) /\ LedgerInv(s) /\ LimitInv(s)
  BY <1>1, <1>5 DEF FilesInv, ErrorInv, LedgerInv, LimitInv
<1>7. Status(s) = Status(r)
  BY <1>5 DEF Status
<1>8. StatusInv(s)
  BY <1>5, <1>7 DEF StatusInv, status
<1> QED
  BY <1>4, <1>5, <1>6, <1>8 DEF RequestInv, Held, Out, OnDisk

-----------------------------------------------------------------------------
(* The inductive invariant *)

\* What all requests together have reserved, may still write and keep on disk.
AllHeld(R) == Total([u \in Request |-> Held(R[u])])

AllOut(R) == Total([u \in Request |-> Out(R[u])])

AllOnDisk(R) == Total([u \in Request |-> OnDisk(R[u])])

Floor == AllOut(req) > 0 => AllOut(req) <= free + foreign - MinFreeSpace

IntakeInv ==
    /\ TypeOK
    /\ \A u \in Request : RequestInv(req[u])
    /\ uploads = AllHeld(req)
    /\ free + foreign + AllOnDisk(req) = DiskSize
    /\ Floor

\* When one request changes, each sum changes by as much as its own amount.
LEMMA SumsChange ==
    ASSUME NEW R, NEW R1, NEW u \in Request, RequestInv(R1[u]),
           \A v \in Request : RequestInv(R[v]),
           \A v \in Request \ {u} : R1[v] = R[v]
    PROVE  /\ AllHeld(R) \in Nat /\ AllHeld(R1) \in Nat /\ Held(R[u]) \in Nat /\ Held(R1[u]) \in Nat
           /\ AllOut(R) \in Nat /\ AllOut(R1) \in Nat /\ Out(R[u]) \in Nat /\ Out(R1[u]) \in Nat
           /\ AllOnDisk(R) \in Nat /\ AllOnDisk(R1) \in Nat
           /\ OnDisk(R[u]) \in Nat /\ OnDisk(R1[u]) \in Nat
           /\ AllHeld(R1) - Held(R1[u]) = AllHeld(R) - Held(R[u])
           /\ AllOut(R1) - Out(R1[u]) = AllOut(R) - Out(R[u])
           /\ AllOnDisk(R1) - OnDisk(R1[u]) = AllOnDisk(R) - OnDisk(R[u])
           /\ AllOut(R) <= AllHeld(R)
<1>1. IsFiniteSet(Request)
  BY IntakeAssumption
<1>2. \A v \in Request : RequestInv(R1[v])
  OBVIOUS
<1>3. \A v \in Request : /\ Held(R[v]) \in Nat /\ Out(R[v]) \in Nat /\ OnDisk(R[v]) \in Nat
                         /\ Out(R[v]) <= Held(R[v])
  BY Amounts
<1>4. \A v \in Request : Held(R1[v]) \in Nat /\ Out(R1[v]) \in Nat /\ OnDisk(R1[v]) \in Nat
  BY <1>2, Amounts
<1> DEFINE h == [v \in Request |-> Held(R[v])]
           h1 == [v \in Request |-> Held(R1[v])]
           o == [v \in Request |-> Out(R[v])]
           o1 == [v \in Request |-> Out(R1[v])]
           d == [v \in Request |-> OnDisk(R[v])]
           d1 == [v \in Request |-> OnDisk(R1[v])]
<1>5. Sizes(h) /\ Sizes(h1) /\ Sizes(o) /\ Sizes(o1) /\ Sizes(d) /\ Sizes(d1)
  BY <1>1, <1>3, <1>4 DEF Sizes
<1>6. /\ DOMAIN h = Request /\ DOMAIN h1 = Request /\ h[u] = Held(R[u]) /\ h1[u] = Held(R1[u])
      /\ \A v \in Request \ {u} : h1[v] = h[v]
  OBVIOUS
<1>7. /\ DOMAIN o = Request /\ DOMAIN o1 = Request /\ o[u] = Out(R[u]) /\ o1[u] = Out(R1[u])
      /\ \A v \in Request \ {u} : o1[v] = o[v]
  OBVIOUS
<1>8. /\ DOMAIN d = Request /\ DOMAIN d1 = Request /\ d[u] = OnDisk(R[u]) /\ d1[u] = OnDisk(R1[u])
      /\ \A v \in Request \ {u} : d1[v] = d[v]
  OBVIOUS
<1>9. \A v \in Request : o[v] <= h[v]
  BY <1>3
<1>10. /\ AllHeld(R) = Total(h) /\ AllHeld(R1) = Total(h1) /\ AllOut(R) = Total(o)
       /\ AllOut(R1) = Total(o1) /\ AllOnDisk(R) = Total(d) /\ AllOnDisk(R1) = Total(d1)
  BY DEF AllHeld, AllOut, AllOnDisk
<1> HIDE DEF h, h1, o, o1, d, d1
<1>11. /\ Total(h) \in Nat /\ Total(h1) \in Nat /\ Total(o) \in Nat
       /\ Total(o1) \in Nat /\ Total(d) \in Nat /\ Total(d1) \in Nat
  BY <1>5, BlocksAre
<1>12. Total(h1) - h1[u] = Total(h) - h[u]
  BY <1>5, <1>6, TotalChange
<1>13. Total(o1) - o1[u] = Total(o) - o[u]
  BY <1>5, <1>7, TotalChange
<1>14. Total(d1) - d1[u] = Total(d) - d[u]
  BY <1>5, <1>8, TotalChange
<1>15. Total(o) <= Total(h)
  BY <1>5, <1>6, <1>7, <1>9, TotalLeq
<1>16. /\ AllHeld(R1) - Held(R1[u]) = AllHeld(R) - Held(R[u])
       /\ AllOut(R1) - Out(R1[u]) = AllOut(R) - Out(R[u])
       /\ AllOnDisk(R1) - OnDisk(R1[u]) = AllOnDisk(R) - OnDisk(R[u])
       /\ AllOut(R) <= AllHeld(R)
  BY <1>6, <1>7, <1>8, <1>10, <1>12, <1>13, <1>14, <1>15
<1>17. /\ AllHeld(R) \in Nat /\ AllHeld(R1) \in Nat /\ AllOut(R) \in Nat
       /\ AllOut(R1) \in Nat /\ AllOnDisk(R) \in Nat /\ AllOnDisk(R1) \in Nat
  BY <1>10, <1>11
<1> QED
  BY <1>3, <1>4, <1>16, <1>17

\* A step of request u to s that changes the free space by df and the reservations
\* by du keeps the invariant if it accounts for both, and if what it may newly
\* write is above the floor: it may write no more than before, or it reserves from
\* what is usable.
LEMMA StepKeepsBooks ==
    ASSUME IntakeInv, NEW u \in Request, NEW s, NEW df \in Int, NEW du \in Int,
           req' = [req EXCEPT ![u] = s], free' = free + df, uploads' = uploads + du,
           foreign' = foreign, free + df >= 0,
           RequestInv(s),
           Held(s) = Held(req[u]) + du,
           OnDisk(s) + df = OnDisk(req[u]),
           \/ /\ du <= 0
              /\ Out(s) <= Out(req[u])
              /\ Out(s) - Out(req[u]) <= df
           \/ /\ df = 0 /\ du <= Usable
              /\ Out(s) = du /\ Out(req[u]) = 0
    PROVE  IntakeInv'
<1>1. /\ DOMAIN req = Request /\ free \in Nat /\ foreign \in Nat /\ foreign <= MaxForeign
      /\ uploads \in Nat /\ free <= DiskSize /\ uploads <= DiskSize
      /\ DiskSize \in Nat /\ MinFreeSpace \in Nat /\ MaxForeign \in Nat
  BY IntakeAssumption DEF IntakeInv, TypeOK
<1>2. /\ DOMAIN req' = Request /\ req'[u] = s
      /\ \A v \in Request \ {u} : req'[v] = req[v]
  BY <1>1
<1>3. \A v \in Request : RequestInv(req[v])
  BY DEF IntakeInv
<1>4. \A v \in Request : RequestInv(req'[v])
  BY <1>2, <1>3
<1>5. /\ AllHeld(req) \in Nat /\ AllHeld(req') \in Nat /\ Held(req[u]) \in Nat /\ Held(s) \in Nat
      /\ AllOut(req) \in Nat /\ AllOut(req') \in Nat /\ Out(req[u]) \in Nat /\ Out(s) \in Nat
      /\ AllOnDisk(req) \in Nat /\ AllOnDisk(req') \in Nat
      /\ OnDisk(req[u]) \in Nat /\ OnDisk(s) \in Nat
      /\ AllHeld(req') - Held(s) = AllHeld(req) - Held(req[u])
      /\ AllOut(req') - Out(s) = AllOut(req) - Out(req[u])
      /\ AllOnDisk(req') - OnDisk(s) = AllOnDisk(req) - OnDisk(req[u])
      /\ AllOut(req) <= AllHeld(req)
  <2>1. RequestInv(req'[u])
    BY <1>4
  <2> DEFINE R1 == req'
  <2>2. RequestInv(R1[u]) /\ \A v \in Request \ {u} : R1[v] = req[v]
    BY <1>2, <2>1
  <2>3. /\ AllHeld(req) \in Nat /\ AllHeld(R1) \in Nat /\ Held(req[u]) \in Nat /\ Held(R1[u]) \in Nat
        /\ AllOut(req) \in Nat /\ AllOut(R1) \in Nat /\ Out(req[u]) \in Nat /\ Out(R1[u]) \in Nat
        /\ AllOnDisk(req) \in Nat /\ AllOnDisk(R1) \in Nat
        /\ OnDisk(req[u]) \in Nat /\ OnDisk(R1[u]) \in Nat
        /\ AllHeld(R1) - Held(R1[u]) = AllHeld(req) - Held(req[u])
        /\ AllOut(R1) - Out(R1[u]) = AllOut(req) - Out(req[u])
        /\ AllOnDisk(R1) - OnDisk(R1[u]) = AllOnDisk(req) - OnDisk(req[u])
        /\ AllOut(req) <= AllHeld(req)
    <3> HIDE DEF R1
    <3> QED
      BY <1>3, <2>2, SumsChange
  <2>4. R1[u] = s
    BY <1>2
  <2> QED
    BY <2>3, <2>4
<1>6. /\ uploads = AllHeld(req) /\ free + foreign + AllOnDisk(req) = DiskSize
      /\ AllOut(req) > 0 => AllOut(req) <= free + foreign - MinFreeSpace
  BY DEF IntakeInv, Floor
<1>7. uploads' = AllHeld(req')
  BY <1>1, <1>5, <1>6
<1>8. free' + foreign' + AllOnDisk(req') = DiskSize
  BY <1>1, <1>5, <1>6
<1>9. AllOut(req') > 0 => AllOut(req') <= free' + foreign' - MinFreeSpace
  BY <1>1, <1>5, <1>6 DEF Usable
<1>10. TypeOK'
  <2>1. free' \in 0 .. DiskSize /\ foreign' \in 0 .. MaxForeign
    BY <1>1, <1>5, <1>8
  <2>2. uploads' \in 0 .. DiskSize
    BY <1>1, <1>5, <1>7 DEF Usable
  <2>3. \A v \in Request : req'[v].err \in Errors
    BY <1>4 DEF RequestInv, RequestType
  <2> QED
    BY <1>2, <2>1, <2>2, <2>3 DEF TypeOK
<1> QED
  BY <1>4, <1>7, <1>8, <1>9, <1>10 DEF IntakeInv, Floor, AllHeld, AllOut, AllOnDisk, Held, Out, OnDisk

-----------------------------------------------------------------------------
(* The actions *)

\* A request fails: Rejected, TransportFails, and the failures of Create and Save.
LEMMA FailureKeepsInv ==
    ASSUME IntakeInv, NEW u \in Request, req[u].pc \in {"create", "next", "copy", "save"},
           NEW s \in RequestType,
           s.pc = IF req[u].pc = "create" THEN "return" ELSE "discard",
           s.err # "none",
           s.err = "tooLarge" => req[u].body >= MaxUploadSize,
           s.err = "insufficientSpace" => req[u].budget < MaxUploadSize,
           s.budget = req[u].budget, s.limitErr = req[u].limitErr, s.count = req[u].count,
           s.files = req[u].files, s.written = 0, s.body = req[u].body,
           req' = [req EXCEPT ![u] = s], free' = free + req[u].written,
           UNCHANGED <<foreign, uploads>>
    PROVE  IntakeInv'
<1>1. RequestInv(req[u]) /\ req[u].written \in Nat /\ free \in Nat /\ uploads \in Nat
  BY DEF IntakeInv, RequestInv, RequestType, TypeOK
<1>2. /\ RequestInv(s)
      /\ Held(s) = Held(req[u]) /\ Out(s) = 0 /\ OnDisk(s) + req[u].written = OnDisk(req[u])
  BY <1>1, Failing
<1>3. Out(req[u]) \in Nat /\ Held(req[u]) \in Nat
  BY <1>1, Amounts
<1>4. /\ req[u].written \in Int /\ 0 \in Int /\ uploads' = uploads + 0 /\ foreign' = foreign
      /\ free + req[u].written >= 0 /\ Held(s) = Held(req[u]) + 0
      /\ Out(s) <= Out(req[u]) /\ Out(s) - Out(req[u]) <= req[u].written
  BY <1>1, <1>2, <1>3
<1> DEFINE df == req[u].written
<1>5. /\ df \in Int /\ free' = free + df /\ free + df >= 0 /\ OnDisk(s) + df = OnDisk(req[u])
      /\ Out(s) - Out(req[u]) <= df /\ 0 <= 0
  BY <1>2, <1>4
<1> HIDE DEF df
<1> QED
  BY <1>2, <1>4, <1>5, StepKeepsBooks, Zenon

\* Rejected.
LEMMA RejectedKeepsInv ==
    ASSUME IntakeInv, NEW u \in Request, req[u].pc \in {"next", "copy"},
           NEW err \in Errors \ {"none"}, Rejected(u, err),
           err = "tooLarge" => req[u].body >= MaxUploadSize,
           err = "insufficientSpace" => req[u].budget < MaxUploadSize
    PROVE  IntakeInv'
<1> DEFINE s == [req[u] EXCEPT !.pc = "discard", !.err = err, !.written = 0, !.part = <<>>]
<1>1. req[u] \in RequestType /\ DOMAIN req = Request
  BY DEF IntakeInv, RequestInv, TypeOK
<1>2. req' = [req EXCEPT ![u] = s]
  BY <1>1 DEF Rejected
<1>3. s \in RequestType
  <2>1. <<>> \in Seq(Nat)
    OBVIOUS
  <2> QED
    BY <1>1, <2>1 DEF RequestType
<1>4. /\ s.pc = (IF req[u].pc = "create" THEN "return" ELSE "discard") /\ s.err = err
      /\ s.budget = req[u].budget /\ s.limitErr = req[u].limitErr /\ s.count = req[u].count
      /\ s.files = req[u].files /\ s.written = 0 /\ s.body = req[u].body
  BY <1>1 DEF RequestType
<1>5. free' = free + req[u].written /\ UNCHANGED <<foreign, uploads>>
  BY DEF Rejected
<1> HIDE DEF s
<1> QED
  BY <1>2, <1>3, <1>4, <1>5, FailureKeepsInv

\* TransportFails: the error tooLarge means that the whole allowance was delivered.
LEMMA TransportFailsKeepsInv ==
    ASSUME IntakeInv, NEW u \in Request, req[u].pc \in {"next", "copy"},
           NEW kind \in TransportError, TransportFails(u, kind)
    PROVE  IntakeInv'
<1>1. PICK err \in {kind, "invalid"} :
        /\ req' = [req EXCEPT ![u].pc = "discard", ![u].err = err, ![u].written = 0,
                              ![u].part = <<>>, ![u].stalled = (kind = "stalled")]
        /\ free' = free + req[u].written
        /\ UNCHANGED <<foreign, uploads>>
  BY DEF TransportFails
<1>2. err \in Errors \ {"none"} /\ err # "insufficientSpace"
  BY DEF TransportError, Errors
<1>3. err = "tooLarge" => req[u].body >= MaxUploadSize
  BY IntakeAssumption DEF TransportFails
<1> DEFINE stalled == (kind = "stalled")
           s == [req[u] EXCEPT !.pc = "discard", !.err = err, !.written = 0, !.part = <<>>,
                               !.stalled = stalled]
<1>4. req[u] \in RequestType /\ DOMAIN req = Request /\ stalled \in BOOLEAN /\ <<>> \in Seq(Nat)
  BY DEF IntakeInv, RequestInv, TypeOK
<1>5. req' = [req EXCEPT ![u].pc = "discard", ![u].err = err, ![u].written = 0,
                         ![u].part = <<>>, ![u].stalled = stalled]
  BY <1>1
<1> HIDE DEF stalled
<1>6. req' = [req EXCEPT ![u] = s]
  BY <1>4, <1>5
<1>7. s \in RequestType
  BY <1>2, <1>4 DEF RequestType
<1>8. /\ s.pc = (IF req[u].pc = "create" THEN "return" ELSE "discard") /\ s.err = err
      /\ s.budget = req[u].budget /\ s.limitErr = req[u].limitErr /\ s.count = req[u].count
      /\ s.files = req[u].files /\ s.written = 0 /\ s.body = req[u].body
  BY <1>4 DEF RequestType
<1> HIDE DEF s
<1> QED
  BY <1>1, <1>2, <1>3, <1>6, <1>7, <1>8, FailureKeepsInv

\* A step that only moves a request on, or drops what it delivers.
LEMMA QuietStepKeepsInv ==
    ASSUME IntakeInv, NEW u \in Request, NEW s, req' = [req EXCEPT ![u] = s],
           UNCHANGED <<free, foreign, uploads>>, RequestInv(s),
           Held(s) = Held(req[u]), Out(s) <= Out(req[u]), OnDisk(s) = OnDisk(req[u])
    PROVE  IntakeInv'
<1>1. RequestInv(req[u]) /\ free \in Nat /\ uploads \in Nat
  BY DEF IntakeInv, TypeOK
<1>2. /\ Held(req[u]) \in Nat /\ Out(req[u]) \in Nat /\ OnDisk(req[u]) \in Nat
      /\ Held(s) \in Nat /\ Out(s) \in Nat
  BY <1>1, Amounts
<1>3. /\ 0 \in Int /\ free' = free + 0 /\ uploads' = uploads + 0 /\ foreign' = foreign
      /\ free + 0 >= 0 /\ Held(s) = Held(req[u]) + 0 /\ OnDisk(s) + 0 = OnDisk(req[u])
      /\ 0 <= 0 /\ Out(s) - Out(req[u]) <= 0
  BY <1>1, <1>2
<1> QED
  BY <1>3, StepKeepsBooks

\* Reserve takes the budget from what is usable.
LEMMA ReserveKeepsInv ==
    ASSUME IntakeInv, NEW u \in Request, Reserve(u)
    PROVE  IntakeInv'
<1> DEFINE budget == Min({Usable, MaxUploadSize})
           limit == IF Usable < MaxUploadSize THEN "insufficientSpace" ELSE "tooLarge"
           s == [req[u] EXCEPT !.pc = "create", !.budget = budget, !.remaining = budget,
                               !.limitErr = limit]
<1>1. /\ RequestInv(req[u]) /\ req[u].pc = "idle" /\ DOMAIN req = Request
      /\ free \in Nat /\ uploads \in Nat /\ Usable \in Nat \ {0} /\ MaxUploadSize \in Nat \ {0}
  BY IntakeAssumption DEF IntakeInv, TypeOK, Reserve, Usable
<1>2. budget = IF Usable < MaxUploadSize THEN Usable ELSE MaxUploadSize
  BY <1>1 DEF Min
<1>3. /\ req' = [req EXCEPT ![u].pc = "create", ![u].budget = budget, ![u].remaining = budget,
                            ![u].limitErr = limit]
      /\ uploads' = uploads + budget /\ UNCHANGED <<free, foreign>>
  BY DEF Reserve
<1>4. /\ budget \in Nat /\ budget <= MaxUploadSize /\ budget <= Usable
      /\ limit \in {"tooLarge", "insufficientSpace"}
      /\ limit = "tooLarge" => budget = MaxUploadSize
      /\ limit = "insufficientSpace" => budget # MaxUploadSize
  BY <1>1, <1>2
<1> HIDE DEF budget, limit
<1>5. req' = [req EXCEPT ![u] = s]
  BY <1>1, <1>3
<1>6. s \in RequestType
  BY <1>1, <1>4 DEF RequestInv, RequestType
<1>7. /\ RequestInv(s)
      /\ Held(s) = budget /\ Held(req[u]) = 0
      /\ Out(s) = budget /\ Out(req[u]) = 0
      /\ OnDisk(s) = OnDisk(req[u])
  <2>1. /\ s.pc = "create" /\ s.budget = budget /\ s.remaining = budget /\ s.limitErr = limit
        /\ s.count = req[u].count /\ s.files = req[u].files /\ s.written = req[u].written
        /\ s.total = req[u].total /\ s.body = req[u].body /\ s.err = req[u].err
    BY <1>1 DEF RequestInv, RequestType
  <2> HIDE DEF s
  <2> QED
    BY <1>1, <1>4, <1>6, <2>1, Reserving
<1> HIDE DEF s
<1>8. OnDisk(req[u]) \in Nat
  BY <1>1, Amounts
<1>9. /\ budget \in Int /\ 0 \in Int /\ free' = free + 0 /\ free + 0 >= 0 /\ foreign' = foreign
      /\ Held(s) = Held(req[u]) + budget /\ OnDisk(s) + 0 = OnDisk(req[u])
  BY <1>1, <1>3, <1>4, <1>7, <1>8
<1> QED
  BY <1>3, <1>4, <1>5, <1>7, <1>9, StepKeepsBooks

\* NoHeadroom.
LEMMA NoHeadroomKeepsInv ==
    ASSUME IntakeInv, NEW u \in Request, NoHeadroom(u)
    PROVE  IntakeInv'
<1> DEFINE status == StatusOf("insufficientSpace")
           s == [req[u] EXCEPT !.pc = "refused", !.err = "insufficientSpace", !.status = status]
<1>1. RequestInv(req[u]) /\ req[u].pc = "idle" /\ DOMAIN req = Request /\ status \in Nat
  BY DEF IntakeInv, TypeOK, NoHeadroom, StatusOf
<1>2. /\ req' = [req EXCEPT ![u].pc = "refused", ![u].err = "insufficientSpace",
                            ![u].status = status]
      /\ UNCHANGED <<free, foreign, uploads>>
  BY DEF NoHeadroom
<1> HIDE DEF status
<1>3. req' = [req EXCEPT ![u] = s]
  BY <1>1, <1>2
<1>4. s = [req[u] EXCEPT !.pc = "refused", !.err = "insufficientSpace", !.status = status]
  OBVIOUS
<1> HIDE DEF s
<1>5. RequestInv(s) /\ Held(s) = Held(req[u]) /\ Out(s) = Out(req[u]) /\ OnDisk(s) = OnDisk(req[u])
  BY <1>1, <1>4, Refusing
<1>6. Out(req[u]) <= Out(req[u])
  BY <1>1, Amounts
<1> QED
  BY <1>2, <1>3, <1>5, <1>6, QuietStepKeepsInv

\* Create, EndOfBody and Save when they succeed.
LEMMA AdvanceKeepsInv ==
    ASSUME IntakeInv, NEW u \in Request,
           NEW pc, \/ req[u].pc = "create" /\ pc = "next"
                   \/ req[u].pc = "next" /\ pc = "save"
                   \/ req[u].pc = "save" /\ pc = "return",
           req' = [req EXCEPT ![u].pc = pc], UNCHANGED <<free, foreign, uploads>>
    PROVE  IntakeInv'
<1> DEFINE s == [req[u] EXCEPT !.pc = pc]
<1>1. RequestInv(req[u]) /\ DOMAIN req = Request
  BY DEF IntakeInv, TypeOK
<1>2. req' = [req EXCEPT ![u] = s] /\ s = [req[u] EXCEPT !.pc = pc]
  BY <1>1
<1> HIDE DEF s
<1>3. RequestInv(s) /\ Held(s) = Held(req[u]) /\ Out(s) <= Out(req[u]) /\ OnDisk(s) = OnDisk(req[u])
  BY <1>1, <1>2, Advancing
<1> QED
  BY <1>2, <1>3, QuietStepKeepsInv

\* Create and Save when they fail.
LEMMA EarlyFailureKeepsInv ==
    ASSUME IntakeInv, NEW u \in Request,
           NEW pc, \/ req[u].pc = "create" /\ pc = "return"
                   \/ req[u].pc = "save" /\ pc = "discard",
           req' = [req EXCEPT ![u].pc = pc, ![u].err = "io"], UNCHANGED <<free, foreign, uploads>>
    PROVE  IntakeInv'
<1> DEFINE s == [req[u] EXCEPT !.pc = pc, !.err = "io"]
<1>1. req[u] \in RequestType /\ FilesInv(req[u]) /\ DOMAIN req = Request /\ "io" \in Errors
  BY DEF IntakeInv, RequestInv, TypeOK, Errors
<1>2. req' = [req EXCEPT ![u] = s]
  BY <1>1
<1>3. s \in RequestType
  BY <1>1 DEF RequestType
<1>4. req[u].written = 0
  BY <1>1 DEF FilesInv
<1>5. /\ s.pc = (IF req[u].pc = "create" THEN "return" ELSE "discard") /\ s.err = "io"
      /\ s.budget = req[u].budget /\ s.limitErr = req[u].limitErr /\ s.count = req[u].count
      /\ s.files = req[u].files /\ s.written = 0 /\ s.body = req[u].body
  BY <1>1, <1>4 DEF RequestType
<1>6. free' = free + req[u].written
  BY <1>4 DEF IntakeInv, TypeOK
<1> HIDE DEF s
<1> QED
  BY <1>2, <1>3, <1>5, <1>6, FailureKeepsInv

\* FormField.
LEMMA FormFieldKeepsInv ==
    ASSUME IntakeInv, NEW u \in Request, FormField(u)
    PROVE  IntakeInv'
<1>1. RequestInv(req[u]) /\ req[u] \in RequestType /\ req[u].pc = "next" /\ DOMAIN req = Request
  BY DEF IntakeInv, RequestInv, TypeOK, FormField
<1>2. CASE Rejected(u, "invalid")
  BY <1>1, <1>2, RejectedKeepsInv DEF Errors
<1>3. CASE /\ req' = [req EXCEPT ![u].fields = @ + 1, ![u].body = @ + 1]
           /\ UNCHANGED <<free, foreign, uploads>>
  <2> DEFINE fields == req[u].fields + 1
             body == req[u].body + 1
             s == [req[u] EXCEPT !.fields = fields, !.body = body]
  <2>1. req' = [req EXCEPT ![u] = s]
    BY <1>1, <1>3 DEF RequestType
  <2>2. fields \in Nat /\ body \in Nat /\ body = req[u].body + 1
    BY <1>1 DEF RequestType
  <2> HIDE DEF fields, body
  <2>3. s \in RequestType
    BY <1>1, <2>2 DEF RequestType
  <2>4. /\ s.pc = req[u].pc /\ s.err = req[u].err /\ s.budget = req[u].budget
        /\ s.limitErr = req[u].limitErr /\ s.count = req[u].count /\ s.files = req[u].files
        /\ s.written = req[u].written /\ s.total = req[u].total /\ s.body = req[u].body + 1
        /\ s.remaining = req[u].remaining
    BY <1>1, <2>2 DEF RequestType
  <2> HIDE DEF s
  <2>5. RequestInv(s) /\ Held(s) = Held(req[u]) /\ Out(s) = Out(req[u]) /\ OnDisk(s) = OnDisk(req[u])
    BY <1>1, <2>3, <2>4, Draining
  <2>6. Out(req[u]) <= Out(req[u])
    BY <1>1, Amounts
  <2> QED
    BY <1>3, <2>1, <2>5, <2>6, QuietStepKeepsInv
<1> QED
  BY <1>2, <1>3 DEF FormField

\* FilePart: an upload that has used up its budget is told which bound it met, and
\* another one finds a free name, since it has fewer than MaxFiles files.
LEMMA FilePartKeepsInv ==
    ASSUME IntakeInv, NEW u \in Request, NEW name \in DisplayName, FilePart(u, name)
    PROVE  IntakeInv'
<1>1. RequestInv(req[u]) /\ req[u] \in RequestType /\ req[u].pc = "next" /\ DOMAIN req = Request
  BY DEF IntakeInv, RequestInv, TypeOK, FilePart
<1>2. /\ req[u].count \in Nat /\ req[u].remaining \in Nat /\ req[u].budget \in Nat
      /\ req[u].body \in Nat /\ req[u].total \in Nat /\ req[u].written = 0 /\ req[u].err = "none"
      /\ req[u].limitErr \in {"tooLarge", "insufficientSpace"} /\ MaxFiles \in Nat
      /\ MaxUploadSize \in Nat
  BY <1>1, IntakeAssumption DEF RequestInv, RequestType, FilesInv, ErrorInv
<1>3. CASE req[u].count + 1 > MaxFiles /\ Rejected(u, "tooManyFiles")
  BY <1>1, <1>3, RejectedKeepsInv DEF Errors
<1>4. CASE req[u].remaining <= 0 /\ Rejected(u, req[u].limitErr)
  <2>1. req[u].limitErr = "tooLarge" => req[u].body >= MaxUploadSize
    BY <1>1, <1>2, <1>4 DEF RequestInv, LedgerInv, LimitInv
  <2>2. req[u].limitErr = "insufficientSpace" => req[u].budget < MaxUploadSize
    BY <1>1, <1>2 DEF RequestInv, LimitInv
  <2>3. PICK err : err = req[u].limitErr
    OBVIOUS
  <2>4. err \in Errors \ {"none"} /\ Rejected(u, err)
    BY <1>2, <1>4, <2>3 DEF Errors
  <2> QED
    BY <1>1, <2>1, <2>2, <2>3, <2>4, RejectedKeepsInv
<1>5. CASE /\ ~(req[u].count + 1 > MaxFiles)
           /\ req' = [req EXCEPT ![u].pc = "copy", ![u].count = @ + 1, ![u].written = 0,
                                 ![u].part = UniqueFileName(DOMAIN req[u].files, name)]
           /\ UNCHANGED <<free, foreign, uploads>>
  <2> DEFINE count == req[u].count + 1
             part == UniqueFileName(DOMAIN req[u].files, name)
             s == [req[u] EXCEPT !.pc = "copy", !.count = count, !.written = 0, !.part = part]
  <2>1. req' = [req EXCEPT ![u] = s]
    <3> HIDE DEF part
    <3> QED
      BY <1>1, <1>5 DEF RequestType, part
  <2>2. count \in Nat /\ count = req[u].count + 1 /\ req[u].count + 1 <= MaxFiles
    BY <1>2, <1>5
  <2>3. IsFiniteSet(DOMAIN req[u].files) /\ Cardinality(DOMAIN req[u].files) < MaxFiles
    BY <1>1, <1>2, <2>2 DEF RequestInv, FilesInv, LedgerInv
  <2>4. part \in Seq(Nat) /\ part \notin DOMAIN req[u].files
    BY <2>3, NameIsFree
  <2> HIDE DEF count, part
  <2>5. s \in RequestType
    BY <1>1, <2>2, <2>4 DEF RequestType
  <2>6. /\ s.pc = "copy" /\ s.err = req[u].err /\ s.budget = req[u].budget
        /\ s.limitErr = req[u].limitErr /\ s.count = req[u].count + 1 /\ s.files = req[u].files
        /\ s.written = 0 /\ s.part = part /\ s.total = req[u].total /\ s.body = req[u].body
        /\ s.remaining = req[u].remaining
    BY <1>1, <2>2 DEF RequestType
  <2> HIDE DEF s
  <2>7. RequestInv(s) /\ Held(s) = Held(req[u]) /\ Out(s) = Out(req[u]) /\ OnDisk(s) = OnDisk(req[u])
    BY <1>1, <2>2, <2>4, <2>5, <2>6, Beginning
  <2>8. Out(req[u]) <= Out(req[u])
    BY <1>1, Amounts
  <2> QED
    BY <1>5, <2>1, <2>7, <2>8, QuietStepKeepsInv
<1> QED
  BY <1>3, <1>4, <1>5 DEF FilePart

\* CopyByte: what is written is no longer outstanding.
LEMMA CopyByteKeepsInv ==
    ASSUME IntakeInv, NEW u \in Request, CopyByte(u)
    PROVE  IntakeInv'
<1>1. /\ RequestInv(req[u]) /\ req[u] \in RequestType /\ req[u].pc = "copy" /\ DOMAIN req = Request
      /\ Room(req[u]) /\ free \in Nat /\ free > 0 /\ uploads \in Nat
  BY DEF IntakeInv, RequestInv, TypeOK, CopyByte
<1> DEFINE written == req[u].written + 1
           body == req[u].body + 1
           s == [req[u] EXCEPT !.written = written, !.body = body]
<1>2. req' = [req EXCEPT ![u] = s]
  BY <1>1 DEF CopyByte, RequestType
<1>3. /\ written \in Nat /\ body \in Nat /\ written = req[u].written + 1 /\ body = req[u].body + 1
  BY <1>1 DEF RequestType
<1> HIDE DEF written, body
<1>4. s \in RequestType
  BY <1>1, <1>3 DEF RequestType
<1>5. /\ s.pc = "copy" /\ s.err = req[u].err /\ s.budget = req[u].budget
      /\ s.limitErr = req[u].limitErr /\ s.count = req[u].count /\ s.files = req[u].files
      /\ s.written = req[u].written + 1 /\ s.part = req[u].part /\ s.total = req[u].total
      /\ s.body = req[u].body + 1 /\ s.remaining = req[u].remaining
  BY <1>1, <1>3 DEF RequestType
<1> HIDE DEF s
<1>6. /\ RequestInv(s)
      /\ Held(s) = Held(req[u]) /\ Out(s) = Out(req[u]) - 1 /\ OnDisk(s) = OnDisk(req[u]) + 1
  BY <1>1, <1>4, <1>5, Copying
<1>7. Held(req[u]) \in Nat /\ Out(req[u]) \in Nat /\ OnDisk(req[u]) \in Nat
  BY <1>1, Amounts
<1>8. /\ 0 \in Int /\ -1 \in Int /\ free' = free + -1 /\ uploads' = uploads + 0 /\ foreign' = foreign
      /\ free + -1 >= 0 /\ Held(s) = Held(req[u]) + 0 /\ OnDisk(s) + -1 = OnDisk(req[u])
      /\ 0 <= 0 /\ Out(s) <= Out(req[u]) /\ Out(s) - Out(req[u]) <= -1
  BY <1>1, <1>6, <1>7 DEF CopyByte
<1> QED
  BY <1>2, <1>6, <1>8, StepKeepsBooks

\* Overflow: a part longer than the budget left is told which bound it met.
LEMMA OverflowKeepsInv ==
    ASSUME IntakeInv, NEW u \in Request, Overflow(u)
    PROVE  IntakeInv'
<1>1. RequestInv(req[u]) /\ req[u] \in RequestType /\ req[u].pc = "copy" /\ ~Room(req[u])
  BY DEF IntakeInv, RequestInv, Overflow
<1>2. /\ req[u].remaining \in Nat /\ req[u].budget \in Nat /\ req[u].written \in Nat
      /\ req[u].body \in Nat /\ req[u].total \in Nat /\ req[u].err = "none"
      /\ req[u].limitErr \in {"tooLarge", "insufficientSpace"} /\ MaxUploadSize \in Nat
  BY <1>1, IntakeAssumption DEF RequestInv, RequestType, ErrorInv
<1>3. req[u].limitErr = "tooLarge" => req[u].body >= MaxUploadSize
  BY <1>1, <1>2 DEF RequestInv, LedgerInv, LimitInv, Room
<1>4. req[u].limitErr = "insufficientSpace" => req[u].budget < MaxUploadSize
  BY <1>1, <1>2 DEF RequestInv, LimitInv
<1>5. PICK err : err = req[u].limitErr
  OBVIOUS
<1>6. err \in Errors \ {"none"} /\ Rejected(u, err)
  BY <1>2, <1>5 DEF Errors, Overflow
<1> QED
  BY <1>1, <1>3, <1>4, <1>5, <1>6, RejectedKeepsInv

\* EndOfPart.
LEMMA EndOfPartKeepsInv ==
    ASSUME IntakeInv, NEW u \in Request, EndOfPart(u)
    PROVE  IntakeInv'
<1>1. RequestInv(req[u]) /\ req[u].pc = "copy"
  BY DEF IntakeInv, EndOfPart
<1>2. CASE Rejected(u, "invalid")
  BY <1>1, <1>2, RejectedKeepsInv DEF Errors
<1>3. CASE Rejected(u, "io")
  BY <1>1, <1>3, RejectedKeepsInv DEF Errors
<1>4. CASE /\ req[u].written > 0
           /\ req' = [req EXCEPT ![u] = Stored(req[u])]
           /\ free' = IF req[u].part \in DOMAIN req[u].files
                      THEN free + req[u].files[req[u].part] ELSE free
           /\ UNCHANGED <<foreign, uploads>>
  <2> DEFINE s == Stored(req[u])
  <2>1. /\ RequestInv(s) /\ req[u].part \notin DOMAIN req[u].files
        /\ Held(s) = Held(req[u]) /\ Out(s) = Out(req[u]) /\ OnDisk(s) = OnDisk(req[u])
    BY <1>1, <1>4, Storing
  <2>2. UNCHANGED <<free, foreign, uploads>> /\ req' = [req EXCEPT ![u] = s]
    BY <1>4, <2>1
  <2>3. Out(s) <= Out(req[u])
    BY <1>1, <2>1, Amounts
  <2> HIDE DEF s
  <2> QED
    BY <2>1, <2>2, <2>3, QuietStepKeepsInv
<1> QED
  BY <1>2, <1>3, <1>4 DEF EndOfPart

\* Discard: the bytes of the rejected request are free again.
LEMMA DiscardKeepsInv ==
    ASSUME IntakeInv, NEW u \in Request, Discard(u)
    PROVE  IntakeInv'
<1> DEFINE s == [req[u] EXCEPT !.pc = "return", !.files = <<>>]
           df == OnDisk(req[u])
<1>1. /\ RequestInv(req[u]) /\ req[u].pc = "discard" /\ DOMAIN req = Request
      /\ free \in Nat /\ uploads \in Nat
  BY DEF IntakeInv, TypeOK, Discard
<1>2. req' = [req EXCEPT ![u] = s] /\ free' = free + df /\ UNCHANGED <<foreign, uploads>>
  BY <1>1 DEF Discard
<1>3. RequestInv(s) /\ Held(s) = Held(req[u]) /\ Out(s) = Out(req[u]) /\ OnDisk(s) = 0
  BY <1>1, Discarding
<1>4. Held(req[u]) \in Nat /\ Out(req[u]) \in Nat /\ df \in Nat
  BY <1>1, Amounts
<1> HIDE DEF s
<1>5. /\ 0 \in Int /\ df \in Int /\ uploads' = uploads + 0 /\ foreign' = foreign
      /\ free + df >= 0 /\ Held(s) = Held(req[u]) + 0 /\ OnDisk(s) + df = OnDisk(req[u])
      /\ 0 <= 0 /\ Out(s) <= Out(req[u]) /\ Out(s) - Out(req[u]) <= df
  <2>1. OnDisk(s) + df = df
    BY <1>3, <1>4
  <2> QED
    BY <1>1, <1>2, <1>3, <1>4, <2>1
<1> HIDE DEF df
<1> QED
  BY <1>2, <1>3, <1>5, StepKeepsBooks

\* Return: exactly what was reserved is given back.
LEMMA ReturnKeepsInv ==
    ASSUME IntakeInv, NEW u \in Request, Return(u)
    PROVE  IntakeInv'
<1> DEFINE status == Status(req[u])
           s == [req[u] EXCEPT !.pc = "answered", !.status = status]
           du == 0 - req[u].budget
<1>1. /\ RequestInv(req[u]) /\ req[u].pc = "return" /\ DOMAIN req = Request
      /\ free \in Nat /\ uploads \in Nat /\ req[u].budget \in Nat
  BY DEF IntakeInv, TypeOK, Return, RequestInv, RequestType
<1>2. req' = [req EXCEPT ![u].pc = "answered", ![u].status = status]
  BY DEF Return
<1>3. req' = [req EXCEPT ![u] = s]
  <2> HIDE DEF status
  <2> QED
    BY <1>1, <1>2
<1>4. /\ RequestInv(s)
      /\ Held(s) = 0 /\ Held(req[u]) = req[u].budget /\ Out(s) = Out(req[u])
      /\ OnDisk(s) = OnDisk(req[u])
  BY <1>1, Answering
<1>5. Out(req[u]) \in Nat /\ OnDisk(req[u]) \in Nat
  BY <1>1, Amounts
<1> HIDE DEF s
<1>6. /\ 0 \in Int /\ du \in Int /\ uploads' = uploads + du /\ foreign' = foreign
      /\ free' = free + 0 /\ free + 0 >= 0 /\ Held(s) = Held(req[u]) + du
      /\ OnDisk(s) + 0 = OnDisk(req[u])
      /\ du <= 0 /\ Out(s) <= Out(req[u]) /\ Out(s) - Out(req[u]) <= 0
  BY <1>1, <1>4, <1>5 DEF Return
<1> HIDE DEF du
<1> QED
  BY <1>3, <1>4, <1>6, StepKeepsBooks

\* Forget: a later deletion frees what the job still has on disk.
LEMMA ForgetKeepsInv ==
    ASSUME IntakeInv, NEW u \in Request, Forget(u)
    PROVE  IntakeInv'
<1> DEFINE df == OnDisk(req[u])
<1>1. /\ RequestInv(req[u]) /\ req[u].pc \in {"answered", "refused"}
      /\ free \in Nat /\ uploads \in Nat
  BY DEF IntakeInv, TypeOK, Forget
<1>2. req' = [req EXCEPT ![u] = Fresh] /\ free' = free + df /\ UNCHANGED <<foreign, uploads>>
  BY DEF Forget
<1>3. RequestInv(Fresh) /\ Held(Fresh) = 0 /\ Out(Fresh) = 0 /\ OnDisk(Fresh) = 0
  BY FreshRequest
<1>4. df \in Nat /\ Held(req[u]) = 0 /\ Out(req[u]) = 0
  BY <1>1, Amounts DEF Held, Out
<1>5. /\ 0 \in Int /\ df \in Int /\ uploads' = uploads + 0 /\ foreign' = foreign
      /\ free + df >= 0 /\ Held(Fresh) = Held(req[u]) + 0 /\ OnDisk(Fresh) + df = OnDisk(req[u])
      /\ 0 <= 0 /\ Out(Fresh) <= Out(req[u]) /\ Out(Fresh) - Out(req[u]) <= df
  <2>1. OnDisk(Fresh) + df = df
    BY <1>3, <1>4
  <2> QED
    BY <1>1, <1>2, <1>3, <1>4, <2>1
<1> HIDE DEF df
<1> QED
  BY <1>2, <1>3, <1>5, StepKeepsBooks

\* ForeignWrite moves bytes between free and foreign.
LEMMA ForeignWriteKeepsInv ==
    ASSUME IntakeInv, ForeignWrite
    PROVE  IntakeInv'
<1>1. /\ UNCHANGED <<uploads, req>>
      /\ free' + foreign' = free + foreign
      /\ free' \in 0 .. DiskSize /\ foreign' \in 0 .. MaxForeign
  <2>1. /\ free \in Nat /\ foreign \in Nat /\ AllOnDisk(req) \in Nat
        /\ free + foreign + AllOnDisk(req) = DiskSize /\ DiskSize \in Nat /\ MaxForeign \in Nat
        /\ foreign <= MaxForeign
    <3>1. Sizes([u \in Request |-> OnDisk(req[u])])
      BY IntakeAssumption, Amounts DEF IntakeInv, Sizes
    <3> QED
      BY <3>1, BlocksAre, IntakeAssumption DEF IntakeInv, TypeOK, AllOnDisk
  <2> QED
    BY <2>1 DEF ForeignWrite
<1>2. TypeOK'
  BY <1>1 DEF IntakeInv, TypeOK
<1>3. (\A u \in Request : RequestInv(req[u]))' /\ (uploads = AllHeld(req))'
  BY <1>1 DEF IntakeInv, AllHeld, Held
<1>4. AllOnDisk(req)' = AllOnDisk(req) /\ AllOut(req)' = AllOut(req)
  BY <1>1 DEF AllOnDisk, OnDisk, AllOut, Out
<1>5. (free + foreign + AllOnDisk(req) = DiskSize)' /\ Floor'
  <2>1. /\ free \in Nat /\ foreign \in Nat /\ free' \in Nat /\ foreign' \in Nat
        /\ MinFreeSpace \in Nat
    BY <1>1, IntakeAssumption DEF IntakeInv, TypeOK
  <2>2. free' + foreign' + AllOnDisk(req)' = DiskSize
    BY <1>1, <1>4, <2>1 DEF IntakeInv
  <2>3. AllOut(req)' > 0 => AllOut(req)' <= free' + foreign' - MinFreeSpace
    <3>1. free' + foreign' - MinFreeSpace = free + foreign - MinFreeSpace
      <4>1. PICK f \in Nat, g \in Nat : f = free' /\ g = foreign'
        BY <2>1
      <4>2. f + g = free + foreign
        BY <1>1, <4>1
      <4>3. f + g - MinFreeSpace = free + foreign - MinFreeSpace
        BY <2>1, <4>2
      <4> QED
        BY <4>1, <4>3
    <3>2. AllOut(req) > 0 => AllOut(req) <= free + foreign - MinFreeSpace
      BY DEF IntakeInv, Floor
    <3>3. AllOut(req') = AllOut(req)
      BY <1>4
    <3> QED
      BY <3>1, <3>2, <3>3
  <2> QED
    BY <2>2, <2>3 DEF Floor
<1> QED
  BY <1>2, <1>3, <1>5 DEF IntakeInv

-----------------------------------------------------------------------------
(* Theorems *)

\* The disk starts empty and no request has begun.
LEMMA InitEstablishes == Init => IntakeInv
<1> SUFFICES ASSUME Init PROVE IntakeInv
  OBVIOUS
<1>1. /\ free = DiskSize /\ foreign = 0 /\ uploads = 0 /\ req = [u \in Request |-> Fresh]
      /\ DiskSize \in Nat /\ MaxForeign \in Nat
  BY IntakeAssumption DEF Init
<1>2. \A u \in Request : RequestInv(req[u])
  BY <1>1, FreshRequest
<1>3. TypeOK
  BY <1>1, <1>2 DEF TypeOK, RequestInv, RequestType
<1>4. \A u \in Request : Held(req[u]) = 0 /\ Out(req[u]) = 0 /\ OnDisk(req[u]) = 0
  BY <1>1, FreshRequest
<1>5. AllHeld(req) = 0 /\ AllOut(req) = 0 /\ AllOnDisk(req) = 0
  BY <1>4, TotalZero DEF AllHeld, AllOut, AllOnDisk
<1> QED
  BY <1>1, <1>2, <1>3, <1>5 DEF IntakeInv, Floor

\* Every step keeps it.
LEMMA NextKeepsInv == IntakeInv /\ [Next]_vars => IntakeInv'
<1> SUFFICES ASSUME IntakeInv, [Next]_vars PROVE IntakeInv'
  OBVIOUS
<1>1. CASE UNCHANGED vars
  BY <1>1 DEF vars, IntakeInv, TypeOK, AllHeld, AllOut, AllOnDisk, Floor, Held, Out, OnDisk
<1>2. CASE ForeignWrite
  BY <1>2, ForeignWriteKeepsInv
<1>3. ASSUME NEW u \in Request,
             \/ Reserve(u) \/ NoHeadroom(u) \/ Create(u)
             \/ BodyBroken(u) \/ Canceled(u) \/ FormField(u)
             \/ \E name \in DisplayName : FilePart(u, name)
             \/ CopyByte(u) \/ Overflow(u) \/ DiskFull(u) \/ EndOfPart(u) \/ EndOfBody(u)
             \/ Save(u) \/ Discard(u) \/ Return(u) \/ Forget(u)
      PROVE  IntakeInv'
  <2>1. CASE Reserve(u)
    BY <2>1, ReserveKeepsInv
  <2>2. CASE NoHeadroom(u)
    BY <2>2, NoHeadroomKeepsInv
  <2>3. CASE Create(u)
    BY <2>3, AdvanceKeepsInv, EarlyFailureKeepsInv DEF Create
  <2>4. CASE BodyBroken(u)
    BY <2>4, TransportFailsKeepsInv DEF BodyBroken
  <2>5. CASE Canceled(u)
    BY <2>5, RejectedKeepsInv DEF Canceled, Errors
  <2>6. CASE FormField(u)
    BY <2>6, FormFieldKeepsInv
  <2>7. CASE \E name \in DisplayName : FilePart(u, name)
    BY <2>7, FilePartKeepsInv
  <2>8. CASE CopyByte(u)
    BY <2>8, CopyByteKeepsInv
  <2>9. CASE Overflow(u)
    BY <2>9, OverflowKeepsInv
  <2>10. CASE DiskFull(u)
    BY <2>10, RejectedKeepsInv DEF DiskFull, Errors
  <2>11. CASE EndOfPart(u)
    BY <2>11, EndOfPartKeepsInv
  <2>12. CASE EndOfBody(u)
    <3>1. CASE Rejected(u, "noFiles")
      BY <2>12, <3>1, RejectedKeepsInv DEF EndOfBody, Errors
    <3>2. CASE Rejected(u, "io")
      BY <2>12, <3>2, RejectedKeepsInv DEF EndOfBody, Errors
    <3>3. CASE req' = [req EXCEPT ![u].pc = "save"] /\ UNCHANGED <<free, foreign, uploads>>
      BY <2>12, <3>3, AdvanceKeepsInv DEF EndOfBody
    <3> QED
      BY <2>12, <3>1, <3>2, <3>3 DEF EndOfBody
  <2>13. CASE Save(u)
    BY <2>13, AdvanceKeepsInv, EarlyFailureKeepsInv DEF Save
  <2>14. CASE Discard(u)
    BY <2>14, DiscardKeepsInv
  <2>15. CASE Return(u)
    BY <2>15, ReturnKeepsInv
  <2>16. CASE Forget(u)
    BY <2>16, ForgetKeepsInv
  <2> QED
    BY <1>3, <2>1, <2>2, <2>3, <2>4, <2>5, <2>6, <2>7, <2>8, <2>9, <2>10, <2>11, <2>12,
       <2>13, <2>14, <2>15, <2>16
<1> QED
  BY <1>1, <1>2, <1>3 DEF Next

\* The intake's books balance in every reachable state: each request's locals agree
\* with its files, the reservations and the disk add up, and what may still be
\* written fits above the floor.
THEOREM IntakeInvariance == Spec => []IntakeInv
  BY InitEstablishes, NextKeepsInv, PTL DEF Spec

\* Uploads never cross the free-space floor, whatever their number and sizes:
\* reserve counts what other requests may still write (upload.go:145-147, 159-163).
THEOREM FloorIsSpared == Spec => []UploadsSpareTheFloor
<1>1. IntakeInv => UploadsSpareTheFloor
  BY DEF IntakeInv, Floor, AllOut, Out, UploadsSpareTheFloor, Outstanding
<1> QED
  BY <1>1, IntakeInvariance, PTL

\* An answer matches the disk: a rejected upload leaves neither bytes nor a
\* reservation, an accepted one the files that its manifest lists
\* (upload.go:100-106, names.go:85-106).
THEOREM AnswersMatchDisk == Spec => []AnswerMatchesDisk
<1>1. IntakeInv => AnswerMatchesDisk
  <2> SUFFICES ASSUME IntakeInv PROVE AnswerMatchesDisk
    OBVIOUS
  <2>1. uploads = Total([u \in Request |-> IF Active(u) THEN req[u].budget ELSE 0])
    BY DEF IntakeInv, AllHeld, Held, Active
  <2>2. free + foreign + Total([u \in Request |-> OnDisk(req[u])]) = DiskSize
    BY DEF IntakeInv, AllOnDisk
  <2>3. ASSUME NEW u \in Request, req[u].pc = "answered"
        PROVE  IF req[u].status = 200
               THEN /\ Cardinality(DOMAIN req[u].files) = req[u].count
                    /\ \A n \in DOMAIN req[u].files : req[u].files[n] > 0
                    /\ req[u].total = OnDisk(req[u]) /\ req[u].total <= MaxUploadSize
               ELSE OnDisk(req[u]) = 0
    <3>1. /\ req[u] \in RequestType /\ FilesInv(req[u]) /\ ErrorInv(req[u]) /\ LedgerInv(req[u])
          /\ LimitInv(req[u]) /\ StatusInv(req[u])
      BY DEF IntakeInv, RequestInv
    <3>2. req[u].written = 0 /\ Total(req[u].files) \in Nat
      BY <2>3, <3>1, Amounts DEF FilesInv, IntakeInv
    <3>3. CASE req[u].err = "none"
      <4>1. req[u].status = 200
        BY <2>3, <3>1, <3>3 DEF StatusInv, Status, StatusOf
      <4>2. /\ Cardinality(DOMAIN req[u].files) = req[u].count
            /\ req[u].total = Total(req[u].files) /\ req[u].remaining + req[u].total = req[u].budget
        BY <2>3, <3>1, <3>3 DEF LedgerInv
      <4>3. req[u].total <= MaxUploadSize
        <5>1. /\ req[u].total \in Nat /\ req[u].remaining \in Nat /\ req[u].budget \in Nat
              /\ MaxUploadSize \in Nat /\ req[u].budget <= MaxUploadSize
          BY <3>1, IntakeAssumption DEF LimitInv, RequestType
        <5> QED
          BY <4>2, <5>1
      <4> QED
        BY <3>1, <3>2, <4>1, <4>2, <4>3 DEF FilesInv, OnDisk
    <3>4. CASE req[u].err # "none"
      <4>1. req[u].status # 200
        BY <2>3, <3>1, <3>4 DEF StatusInv, Status, StatusOf, RequestType, Errors
      <4>2. Total(req[u].files) = 0
        BY <2>3, <3>1, <3>4, TotalZero DEF ErrorInv
      <4> QED
        BY <3>2, <4>1, <4>2 DEF OnDisk
    <3> QED
      BY <3>3, <3>4
  <2> QED
    BY <2>1, <2>2, <2>3 DEF AnswerMatchesDisk
<1> QED
  BY <1>1, IntakeInvariance, PTL

\* The status tells the reason: 413 for the size only when the maximum was sent, 507
\* only when the disk allowed less, 408 whenever the body was cut for lack of
\* progress (handlers.go:121-128, upload.go:163-170).
THEOREM StatusesAreHonest == Spec => []StatusIsHonest
<1>1. IntakeInv => StatusIsHonest
  <2> SUFFICES ASSUME IntakeInv, NEW u \in Request, req[u].pc = "answered"
               PROVE  /\ req[u].status = 413 => req[u].err = "tooManyFiles" \/ req[u].body >= MaxUploadSize
                      /\ req[u].status = 507 => req[u].budget < MaxUploadSize
                      /\ req[u].stalled /\ req[u].err # "none" => req[u].status = 408
    BY DEF StatusIsHonest
  <2>1. LimitInv(req[u]) /\ req[u].status = Status(req[u]) /\ req[u].err \in Errors
    BY DEF IntakeInv, RequestInv, StatusInv, RequestType
  <2>2. req[u].status = 413 => req[u].err \in {"tooManyFiles", "tooLarge"}
    BY <2>1 DEF Status, StatusOf, Errors
  <2>3. req[u].status = 507 => req[u].err = "insufficientSpace"
    BY <2>1 DEF Status, StatusOf, Errors
  <2>4. req[u].stalled /\ req[u].err # "none" => req[u].status = 408
    BY <2>1 DEF Status
  <2> QED
    BY <2>1, <2>2, <2>3, <2>4 DEF LimitInv
<1> QED
  BY <1>1, IntakeInvariance, PTL
=============================================================================
