------------------------- MODULE CommandLineProofs -------------------------
(***************************************************************************)
(* The lines that netcage hands to podman, for any arguments on netcage's  *)
(* own line.  In this order:                                               *)
(*                                                                         *)
(*   - how podman reads a line: one argument at a time, so that a line can *)
(*     be taken to pieces (Says) and the values of a flag be collected     *)
(*     from the pieces;                                                    *)
(*   - what it reads on the line of a run and of a ps, which gives whose   *)
(*     the jail's flags are;                                               *)
(*   - what it would read on the user's line, and that netcage's scan has  *)
(*     at every argument understood the same (UserInv);                    *)
(*   - that what netcage then writes is read as that.                      *)
(*                                                                         *)
(* The theorems themselves are in MainCommandProofs, of the whole program. *)
(***************************************************************************)
EXTENDS CommandLine, SequenceTheorems, WellFoundedInduction, TLAPS

-----------------------------------------------------------------------------
(* Induction over numbers and over sequences, for sets. *)

\* A set that has 0 and with every natural number the next one has them all.
LEMMA NatSetInduction ==
    ASSUME NEW T, 0 \in T, \A n \in Nat : n \in T => n + 1 \in T
    PROVE  Nat \subseteq T
<1> SUFFICES ASSUME Nat \ T # {} PROVE FALSE
  OBVIOUS
<1> DEFINE R == OpToRel(<, Nat)
<1>1. IsWellFoundedOn(R, Nat)
  BY NatLessThanWellFounded, Zenon
<1>2. \A x, y \in Nat : <<x, y>> \in R <=> x < y
  BY DEF OpToRel
<1> HIDE DEF R
<1>3. PICK x \in Nat \ T : \A y \in Nat \ T : ~ (<<y, x>> \in R)
  <2>1. Nat \ T \subseteq Nat
    OBVIOUS
  <2> QED BY <1>1, <2>1, WFMin
<1>4. x # 0 /\ x - 1 \in Nat /\ x - 1 < x
  OBVIOUS
<1>5. x - 1 \notin T
  <2>1. ASSUME x - 1 \in T PROVE FALSE
    <3>1. (x - 1) + 1 \in T
      BY <1>4, <2>1
    <3>2. (x - 1) + 1 = x
      OBVIOUS
    <3> QED BY <3>1, <3>2
  <2> QED BY <2>1
<1> QED BY <1>2, <1>3, <1>4, <1>5

\* A set that has the empty sequence and with every sequence the longer ones has them all.
LEMMA SeqSetInduction ==
    ASSUME NEW S, NEW T, <<>> \in T,
           \A s \in Seq(S), e \in S : s \in T => Append(s, e) \in T
    PROVE  \A s \in Seq(S) : s \in T
<1> DEFINE N == {n \in Nat : \A s \in Seq(S) : Len(s) = n => s \in T}
<1>1. 0 \in N
  BY EmptySeq
<1>2. ASSUME NEW n \in Nat, n \in N PROVE n + 1 \in N
  <2> SUFFICES ASSUME NEW s \in Seq(S), Len(s) = n + 1 PROVE s \in T
    OBVIOUS
  <2>1. PICK seq \in Seq(S), e \in S : s = Append(seq, e)
    BY SequenceEmptyOrAppend
  <2>2. Len(seq) = n
    BY <2>1, AppendProperties
  <2>3. seq \in T
    BY <1>2, <2>2
  <2> QED BY <2>1, <2>3
<1> HIDE DEF N
<1>3. Nat \subseteq N
  BY <1>1, <1>2, NatSetInduction
<1> QED BY <1>3, LenProperties DEF N


-----------------------------------------------------------------------------
(* Flattening, and podman's reading, one element after the other. *)
Flattened(q, n) ==
    CHOOSE g : g = [i \in 1 .. n |-> IF i = 1 THEN q[i] ELSE g[i - 1] \o q[i]]

\* The recursive function behind FlattenSeq exists, on any prefix.
LEMMA FlattenedExists ==
    ASSUME NEW q, NEW n \in Nat
    PROVE  Flattened(q, n) =
             [i \in 1 .. n |-> IF i = 1 THEN q[i] ELSE Flattened(q, n)[i - 1] \o q[i]]
<1> DEFINE Is(g, m) == g = [i \in 1 .. m |-> IF i = 1 THEN q[i] ELSE g[i - 1] \o q[i]]
           T == {m \in Nat : \E g : Is(g, m)}
<1>1. 0 \in T
  <2>1. Is([i \in 1 .. 0 |-> q[i]], 0)
    OBVIOUS
  <2> QED BY <2>1
<1>2. ASSUME NEW m \in Nat, m \in T PROVE m + 1 \in T
  <2>1. PICK g : Is(g, m)
    BY <1>2
  <2> DEFINE h == [i \in 1 .. m + 1 |->
                     IF i <= m THEN g[i] ELSE IF i = 1 THEN q[i] ELSE g[i - 1] \o q[i]]
  <2>2. \A i \in 1 .. m : g[i] = IF i = 1 THEN q[i] ELSE g[i - 1] \o q[i]
    BY <2>1
  <2>3. \A i \in 1 .. m + 1 : h[i] = IF i = 1 THEN q[i] ELSE h[i - 1] \o q[i]
    <3> SUFFICES ASSUME NEW i \in 1 .. m + 1
                 PROVE  h[i] = IF i = 1 THEN q[i] ELSE h[i - 1] \o q[i]
      OBVIOUS
    <3>1. i # 1 => i - 1 \in 1 .. m /\ h[i - 1] = g[i - 1]
      OBVIOUS
    <3>2. CASE i <= m
      <4>1. i \in 1 .. m /\ h[i] = g[i]
        BY <3>2
      <4> HIDE DEF h
      <4> QED BY <4>1, <2>2, <3>1
    <3>3. CASE ~(i <= m)
      <4>1. h[i] = IF i = 1 THEN q[i] ELSE g[i - 1] \o q[i]
        BY <3>3
      <4> HIDE DEF h
      <4> QED BY <4>1, <3>1
    <3> QED BY <3>2, <3>3
  <2>4. h = [i \in 1 .. m + 1 |-> h[i]]
    OBVIOUS
  <2> HIDE DEF h
  <2>5. Is(h, m + 1)
    BY <2>3, <2>4
  <2>6. \E k : Is(k, m + 1)
    <3> HIDE DEF Is
    <3> QED BY <2>5
  <2> HIDE DEF Is
  <2> QED BY <2>6
<1> HIDE DEF T
<1>3. n \in T
  BY <1>1, <1>2, NatSetInduction
<1>4. PICK g : Is(g, n)
  BY <1>3 DEF T
<1> QED BY <1>4 DEF Flattened

\* FlattenSeq is that function at the length of its argument.
LEMMA FlattenSeqIs ==
    ASSUME NEW S, NEW q \in Seq(S), q # <<>>
    PROVE  FlattenSeq(q) = Flattened(q, Len(q))[Len(q)]
<1>1. Len(q) # 0
  BY EmptySeq
<1> QED BY <1>1, Zenon DEF FlattenSeq, Flattened

\* One more sequence is flattened to what there was and its elements.
LEMMA FlattenGrows ==
    ASSUME NEW S, NEW q \in Seq(S), NEW s \in S, NEW X, s \in Seq(X)
    PROVE  /\ FlattenSeq(<<>>) = <<>>
           /\ FlattenSeq(Append(q, s)) = FlattenSeq(q) \o s
<1>1. FlattenSeq(<<>>) = <<>>
  BY DEF FlattenSeq
<1> DEFINE n == Len(q)
           p == Append(q, s)
<1>2. /\ n \in Nat /\ p \in Seq(S) /\ p # <<>> /\ Len(p) = n + 1 /\ p[n + 1] = s
      /\ \A i \in 1 .. n : p[i] = q[i]
  BY AppendProperties
<1>3. FlattenSeq(p) = Flattened(p, n + 1)[n + 1]
  BY <1>2, FlattenSeqIs
<1> DEFINE G == Flattened(p, n + 1)
           H == Flattened(q, n)
<1>4. \A i \in 1 .. n + 1 : G[i] = IF i = 1 THEN p[i] ELSE G[i - 1] \o p[i]
  <2>1. G = [i \in 1 .. n + 1 |-> IF i = 1 THEN p[i] ELSE G[i - 1] \o p[i]]
    <3>1. n + 1 \in Nat
      BY <1>2
    <3> HIDE DEF p, n
    <3> QED BY <3>1, FlattenedExists
  <2> HIDE DEF G, p
  <2> QED BY <2>1
<1>5. \A i \in 1 .. n : H[i] = IF i = 1 THEN q[i] ELSE H[i - 1] \o q[i]
  <2>1. H = [i \in 1 .. n |-> IF i = 1 THEN q[i] ELSE H[i - 1] \o q[i]]
    BY <1>2, FlattenedExists
  <2> HIDE DEF H
  <2> QED BY <2>1
<1> HIDE DEF G, H, n, p
<1>6. CASE n = 0
  <2>1. q = <<>>
    BY <1>6, EmptySeq DEF n
  <2>2. G[1] = s
    BY <1>2, <1>4, <1>6
  <2>3. <<>> \o s = s
    BY ConcatEmptySeq
  <2> QED BY <1>1, <1>2, <1>3, <1>6, <2>1, <2>2, <2>3 DEF G, p
<1>7. CASE n # 0
  <2> DEFINE T == {i \in Nat : i \in 1 .. n => G[i] = H[i]}
  <2>1. 0 \in T
    OBVIOUS
  <2>2. ASSUME NEW i \in Nat, i \in T PROVE i + 1 \in T
    <3> SUFFICES ASSUME i + 1 \in 1 .. n PROVE G[i + 1] = H[i + 1]
      OBVIOUS
    <3>1. G[i + 1] = IF i + 1 = 1 THEN p[i + 1] ELSE G[i] \o p[i + 1]
      BY <1>2, <1>4
    <3>2. H[i + 1] = IF i + 1 = 1 THEN q[i + 1] ELSE H[i] \o q[i + 1]
      BY <1>2, <1>5
    <3>3. i # 0 => G[i] = H[i]
      BY <2>2, <1>2
    <3>4. p[i + 1] = q[i + 1]
      BY <1>2
    <3> QED BY <3>1, <3>2, <3>3, <3>4
  <2> HIDE DEF T
  <2>3. n \in T
    BY <1>2, <2>1, <2>2, NatSetInduction
  <2>4. G[n] = H[n]
    BY <1>2, <1>7, <2>3 DEF T
  <2>5. G[n + 1] = G[n] \o s
    <3>1. n + 1 \in 1 .. n + 1 /\ n + 1 # 1 /\ (n + 1) - 1 = n
      BY <1>2, <1>7
    <3> QED BY <3>1, <1>2, <1>4
  <2>6. FlattenSeq(q) = H[n]
    <3>1. q # <<>>
      BY <1>7, EmptySeq DEF n
    <3> QED BY <3>1, FlattenSeqIs DEF H, n
  <2> QED BY <1>1, <1>3, <2>4, <2>5, <2>6 DEF G, p
<1> QED BY <1>6, <1>7

\* Sequences of elements of S are flattened to one of elements of S.
LEMMA FlattenType ==
    ASSUME NEW S PROVE \A q \in Seq(Seq(S)) : FlattenSeq(q) \in Seq(S)
<1> DEFINE T == {q \in Seq(Seq(S)) : FlattenSeq(q) \in Seq(S)}
<1>1. <<>> \in T
  BY FlattenGrows, EmptySeq DEF FlattenSeq
<1>2. ASSUME NEW q \in Seq(Seq(S)), NEW s \in Seq(S), q \in T PROVE Append(q, s) \in T
  <2>1. FlattenSeq(Append(q, s)) = FlattenSeq(q) \o s
    BY FlattenGrows, Zenon
  <2>2. FlattenSeq(q) \o s \in Seq(S)
    BY <1>2, ConcatProperties
  <2>3. Append(q, s) \in Seq(Seq(S))
    BY AppendProperties
  <2> QED BY <2>1, <2>2, <2>3
<1> HIDE DEF T
<1>3. \A q \in Seq(Seq(S)) : q \in T
  BY <1>1, <1>2, SeqSetInduction
<1> QED BY <1>3 DEF T

Read(v, t, args) ==
    CHOOSE g : g = [n \in 0 .. Len(args) |->
                      IF n = 0 THEN Fresh ELSE Reads(v, t, g[n - 1], args[n])]

\* The recursive function behind Reading exists.
LEMMA ReadExists ==
    ASSUME NEW v, NEW t, NEW args, Len(args) \in Nat
    PROVE  Read(v, t, args) =
             [n \in 0 .. Len(args) |->
                IF n = 0 THEN Fresh ELSE Reads(v, t, Read(v, t, args)[n - 1], args[n])]
<1> DEFINE Is(g, m) == g = [n \in 0 .. m |->
                              IF n = 0 THEN Fresh ELSE Reads(v, t, g[n - 1], args[n])]
           T == {m \in Nat : \E g : Is(g, m)}
<1>1. 0 \in T
  <2>1. Is([n \in 0 .. 0 |-> Fresh], 0)
    OBVIOUS
  <2> QED BY <2>1
<1>2. ASSUME NEW m \in Nat, m \in T PROVE m + 1 \in T
  <2>1. PICK g : Is(g, m)
    BY <1>2
  <2> DEFINE h == [n \in 0 .. m + 1 |->
                     IF n <= m THEN g[n] ELSE Reads(v, t, g[n - 1], args[n])]
  <2>2. \A n \in 0 .. m : g[n] = IF n = 0 THEN Fresh ELSE Reads(v, t, g[n - 1], args[n])
    BY <2>1
  <2>3. \A n \in 0 .. m + 1 : h[n] = IF n = 0 THEN Fresh ELSE Reads(v, t, h[n - 1], args[n])
    <3> SUFFICES ASSUME NEW n \in 0 .. m + 1
                 PROVE  h[n] = IF n = 0 THEN Fresh ELSE Reads(v, t, h[n - 1], args[n])
      OBVIOUS
    <3>1. n # 0 => n - 1 \in 0 .. m /\ h[n - 1] = g[n - 1]
      OBVIOUS
    <3>2. CASE n <= m
      <4>1. n \in 0 .. m /\ h[n] = g[n]
        BY <3>2
      <4> HIDE DEF h
      <4> QED BY <4>1, <2>2, <3>1
    <3>3. CASE ~(n <= m)
      <4>1. h[n] = Reads(v, t, g[n - 1], args[n]) /\ n # 0
        BY <3>3
      <4> HIDE DEF h
      <4> QED BY <4>1, <3>1
    <3> QED BY <3>2, <3>3
  <2>4. h = [n \in 0 .. m + 1 |-> h[n]]
    OBVIOUS
  <2> HIDE DEF h
  <2>5. Is(h, m + 1)
    BY <2>3, <2>4
  <2> QED BY <2>5
<1> HIDE DEF T
<1>3. Len(args) \in T
  BY <1>1, <1>2, NatSetInduction
<1>4. PICK g : Is(g, Len(args))
  BY <1>3 DEF T
<1> QED BY <1>4 DEF Read

\* Reading is that function at the length of the line.
LEMMA ReadingIs ==
    ASSUME NEW v, NEW extra, NEW args
    PROVE  Reading(v, extra, args) = Read(v, ReadingTable(v, extra), args)[Len(args)]
BY Zenon DEF Reading, Read

\* podman reads a line from left to right: one more argument is one step of Reads.
LEMMA ReadingGrows ==
    ASSUME NEW v, NEW extra, NEW S, NEW args \in Seq(S), NEW a \in S
    PROVE  /\ Reading(v, extra, <<>>) = Fresh
           /\ Reading(v, extra, Append(args, a)) =
                Reads(v, ReadingTable(v, extra), Reading(v, extra, args), a)
<1> DEFINE t == ReadingTable(v, extra)
           n == Len(args)
           more == Append(args, a)
           G == Read(v, t, more)
           H == Read(v, t, args)
<1> HIDE DEF t
<1>1. Reading(v, extra, <<>>) = Fresh
  <2> DEFINE F == Read(v, t, <<>>)
  <2>1. F = [k \in 0 .. Len(<<>>) |-> IF k = 0 THEN Fresh ELSE Reads(v, t, F[k - 1], <<>>[k])]
    <3>1. Len(<<>>) \in Nat
      OBVIOUS
    <3> DEFINE none == <<>>
    <3> HIDE DEF none
    <3>2. Len(none) \in Nat
      BY <3>1 DEF none
    <3>3. Read(v, t, none) = [k \in 0 .. Len(none) |->
             IF k = 0 THEN Fresh ELSE Reads(v, t, Read(v, t, none)[k - 1], none[k])]
      BY <3>2, ReadExists
    <3> QED BY <3>3 DEF none
  <2>2. Len(<<>>) = 0
    OBVIOUS
  <2> HIDE DEF F
  <2>3. F[0] = Fresh
    BY <2>1, <2>2
  <2> QED BY <2>2, <2>3, ReadingIs DEF F, t
<1>2. /\ n \in Nat /\ Len(more) = n + 1 /\ more[n + 1] = a
      /\ \A i \in 1 .. n : more[i] = args[i]
  BY AppendProperties
<1>3. \A k \in 0 .. n + 1 : G[k] = IF k = 0 THEN Fresh ELSE Reads(v, t, G[k - 1], more[k])
  <2>1. G = [k \in 0 .. n + 1 |-> IF k = 0 THEN Fresh ELSE Reads(v, t, G[k - 1], more[k])]
    <3>1. Len(more) \in Nat /\ Len(more) = n + 1
      BY <1>2
    <3> HIDE DEF more, n
    <3> QED BY <3>1, ReadExists
  <2> HIDE DEF G, more
  <2> QED BY <2>1
<1>4. \A k \in 0 .. n : H[k] = IF k = 0 THEN Fresh ELSE Reads(v, t, H[k - 1], args[k])
  <2>1. H = [k \in 0 .. n |-> IF k = 0 THEN Fresh ELSE Reads(v, t, H[k - 1], args[k])]
    BY <1>2, ReadExists
  <2> HIDE DEF H
  <2> QED BY <2>1
<1>5. Reading(v, extra, more) = G[n + 1] /\ Reading(v, extra, args) = H[n]
  BY <1>2, ReadingIs DEF t
<1> HIDE DEF G, H, n, more
<1> DEFINE T == {k \in Nat : k \in 0 .. n => G[k] = H[k]}
<1>6. 0 \in T
  BY <1>2, <1>3, <1>4
<1>7. ASSUME NEW k \in Nat, k \in T PROVE k + 1 \in T
  <2> SUFFICES ASSUME k + 1 \in 0 .. n PROVE G[k + 1] = H[k + 1]
    OBVIOUS
  <2>1. G[k + 1] = Reads(v, t, G[k], more[k + 1])
    <3>1. k + 1 \in 0 .. n + 1 /\ k + 1 # 0 /\ (k + 1) - 1 = k
      BY <1>2
    <3> QED BY <3>1, <1>3
  <2>2. H[k + 1] = Reads(v, t, H[k], args[k + 1])
    <3>1. k + 1 # 0 /\ (k + 1) - 1 = k
      OBVIOUS
    <3> QED BY <3>1, <1>4
  <2>3. G[k] = H[k]
    BY <1>2, <1>7
  <2>4. more[k + 1] = args[k + 1]
    BY <1>2
  <2> QED BY <2>1, <2>2, <2>3, <2>4
<1> HIDE DEF T
<1>8. n \in T
  BY <1>2, <1>6, <1>7, NatSetInduction
<1>9. G[n] = H[n]
  BY <1>2, <1>8 DEF T
<1>10. G[n + 1] = Reads(v, t, G[n], a)
  <2>1. n + 1 \in 0 .. n + 1 /\ n + 1 # 0 /\ (n + 1) - 1 = n
    BY <1>2
  <2> QED BY <2>1, <1>2, <1>3
<1> QED BY <1>1, <1>5, <1>9, <1>10 DEF more, t

-----------------------------------------------------------------------------
(* What podman makes of one more argument, when it has taken all so far. *)
Reader(f, p, w, e) ==
    [flags |-> f, pos |-> p, pending |-> w, ended |-> e, ok |-> TRUE]

(* No flag waits for its value; flags may come, or no more of them. *)
None == ""
Open == FALSE
Over == TRUE

\* podman begins with nothing read and flags allowed.
LEMMA FreshReader == Fresh = Reader(<<>>, <<>>, None, Open)
BY DEF Fresh, Reader, None, Open

Waits(r, w) == [r EXCEPT !.pending = w]

\* The two updates Reads makes of a reader.
LEMMA ReaderUpdates ==
    ASSUME NEW f, NEW p, NEW w, NEW e, NEW x
    PROVE  /\ Waits(Reader(f, p, w, e), x) = Reader(f, p, x, e)
           /\ Got(Reader(f, p, w, e), x) = Reader(f \o x, p, w, e)
<1> DEFINE k == TRUE
<1> HIDE DEF k
<1>1. [[flags |-> f, pos |-> p, pending |-> w, ended |-> e, ok |-> k] EXCEPT !.pending = x] =
        [flags |-> f, pos |-> p, pending |-> x, ended |-> e, ok |-> k]
  OBVIOUS
<1>2. [[flags |-> f, pos |-> p, pending |-> w, ended |-> e, ok |-> k] EXCEPT !.flags = @ \o x] =
        [flags |-> f \o x, pos |-> p, pending |-> w, ended |-> e, ok |-> k]
  OBVIOUS
<1> QED BY <1>1, <1>2, Zenon DEF Reader, Got, None, Waits, k

\* An argument that a flag waits for is its value, whatever it looks like.
LEMMA ReadsValue ==
    ASSUME NEW v, NEW t, NEW f, NEW p, NEW w, NEW e \in BOOLEAN, NEW a, w # None
    PROVE  Reads(v, t, Reader(f, p, w, e), a) = Reader(f \o <<<<w, a>>>>, p, None, e)
BY DEF Reads, Reader, Got, None, Open

\* An argument without a dash, or any after the flags are over, is positional.
LEMMA ReadsPositional ==
    ASSUME NEW v, NEW t, NEW f, NEW p, NEW e \in BOOLEAN, NEW a, e \/ ~Dashed(a)
    PROVE  Reads(v, t, Reader(f, p, None, e), a) =
             Reader(f, Append(p, a), None, e \/ v \in {"run", "exec"})
<1> DEFINE d == Dashed(a)
<1> HIDE DEF d
<1>1. Reads(v, t, Reader(f, p, None, e), a) =
        [Reader(f, p, None, e) EXCEPT !.pos = Append(@, a), !.ended = @ \/ v \in {"run", "exec"}]
  BY DEF Reads, Reader, None, d
<1> QED BY <1>1 DEF Reader

\* A bare -- ends the flags.
LEMMA ReadsMarker ==
    ASSUME NEW v, NEW t, NEW f, NEW p, NEW a, a = <<"--">>
    PROVE  Reads(v, t, Reader(f, p, None, Open), a) = Reader(f, p, None, Over)
<1>1. Dashed(a)
  BY DEF Dashed, DashedWords
<1> QED BY <1>1 DEF Reads, Reader, None, Open, Over

\* -it and -ti are two switches.
LEMMA ReadsBundle ==
    ASSUME NEW v, NEW t, NEW f, NEW p, NEW a, a[1] \in Bundles, Dashed(a), a # <<"--">>
    PROVE  Reads(v, t, Reader(f, p, None, Open), a) =
             Reader(f \o <<<<"--interactive", Yes>>, <<"--tty", Yes>>>>, p, None, Open)
BY DEF Reads, Reader, Got, None, Open

(* A word that podman takes for a flag. *)
AsFlag(a) == Dashed(a) /\ a # <<"--">> /\ a[1] \notin Bundles

\* A switch is read with the value it has, or as true.
LEMMA ReadsSwitch ==
    ASSUME NEW v, NEW t, NEW f, NEW p, NEW a, AsFlag(a), LongName(t, a) \in t.switch
    PROVE  Reads(v, t, Reader(f, p, None, Open), a) =
             Reader(f \o <<<<LongName(t, a), IF Len(a) > 1 THEN Tail(a) ELSE Yes>>>>,
                    p, None, Open)
BY DEF Reads, Reader, Got, None, AsFlag, Open

\* A flag with a value has it attached or waits for it.
LEMMA ReadsFlag ==
    ASSUME NEW v, NEW t, NEW f, NEW p, NEW a, AsFlag(a),
           LongName(t, a) \in t.valued \ t.switch
    PROVE  Reads(v, t, Reader(f, p, None, Open), a) =
             IF Len(a) = 1 THEN Reader(f, p, LongName(t, a), Open)
             ELSE Reader(f \o <<<<LongName(t, a), Tail(a)>>>>, p, None, Open)
<1> DEFINE name == LongName(t, a)
           rest == Tail(a)
           r == Reader(f, p, None, Open)
<1> HIDE DEF name, rest
<1>1. Reads(v, t, r, a) = IF Len(a) = 1 THEN Waits(r, name)
                          ELSE Got(r, <<<<name, rest>>>>)
  BY DEF Reads, AsFlag, Reader, None, Open, Waits, name, rest
<1>2. Waits(r, name) = Reader(f, p, name, Open)
  BY ReaderUpdates
<1>3. Got(r, <<<<name, rest>>>>) = Reader(f \o <<<<name, rest>>>>, p, None, Open)
  BY ReaderUpdates
<1> QED BY <1>1, <1>2, <1>3 DEF name, rest

-----------------------------------------------------------------------------
(* The pieces of an emitted line, from left to right. *)
Given == UNION {Arguments[v] : v \in DOMAIN Arguments}
ValuesGiven == Given \union {Tail(a) : a \in Given} \union {Yes, <<"false">>}
Readers == {"run", "exec", "commit", "inspect", "ps"}
Names == {"", "--proxy", "--allow"} \union Bundles
           \union UNION {Words(PodmanTable(v)) : v \in Readers}
Fixed == {Tool, Sidecar, JailNetwork, RunLabel, Fixtures, FixedHostname, DefaultImage,
          ManagedFilter, Empty, <<"/work">>, <<"--pause", "false">>}
Mounts == {MountOf(m) : m \in ValuesGiven}
NameArgs == {<<w>> : w \in Names}
Emitted == ValuesGiven \union Mounts \union NameArgs \union Fixed
Pairs == Names \X Emitted

Clear(v, args, f, p) ==
    /\ args \in Seq(Emitted) /\ f \in Seq(Pairs) /\ p \in Seq(Emitted)
    /\ Reading(v, {}, args) = Reader(f, p, None, Open)

FlagWord(v, w, name) ==
    /\ w \in Names /\ name \in Names /\ name # None
    /\ AsFlag(<<w>>) /\ LongName(ReadingTable(v, {}), <<w>>) = name
    /\ name \in ReadingTable(v, {}).valued \ ReadingTable(v, {}).switch
SwitchWord(v, w, name) ==
    /\ w \in Names /\ name \in Names
    /\ AsFlag(<<w>>) /\ LongName(ReadingTable(v, {}), <<w>>) = name
    /\ name \in ReadingTable(v, {}).switch

\* Membership in a product, component by component.
LEMMA PairTyped ==
    ASSUME NEW A, NEW B, NEW x \in A, NEW y \in B PROVE <<x, y>> \in A \X B
OBVIOUS

\* Every word of a flag may stand on an emitted line.
LEMMA WordsEmitted == (\A w \in Names : <<w>> \in Emitted) /\ Yes \in Emitted
<1>1. \A w \in Names : <<w>> \in NameArgs
  BY Zenon DEF NameArgs
<1>2. Yes \in ValuesGiven
  BY Zenon DEF ValuesGiven
<1> QED BY <1>1, <1>2, Zenon DEF Emitted

\* A sequence with one or two elements more.
LEMMA OneMore ==
    ASSUME NEW S, NEW s \in Seq(S), NEW x \in S, NEW y \in S
    PROVE  /\ s \o <<x>> = Append(s, x) /\ s \o <<x>> \in Seq(S)
           /\ s \o <<x, y>> = Append(Append(s, x), y) /\ s \o <<x, y>> \in Seq(S)
OBVIOUS

\* The empty line is clear.
LEMMA ClearStart == ASSUME NEW v PROVE Clear(v, <<>>, <<>>, <<>>)
<1>1. Reading(v, {}, <<>>) = Fresh
  BY ReadingGrows, EmptySeq, WordsEmitted
<1> QED BY <1>1, FreshReader, EmptySeq DEF Clear

\* A switch added to a clear line is read as that switch.
LEMMA SaysSwitch ==
    ASSUME NEW v, NEW args, NEW f, NEW p, NEW w, NEW name,
           Clear(v, args, f, p), SwitchWord(v, w, name)
    PROVE  Clear(v, args \o <<<<w>>>>, f \o <<<<name, Yes>>>>, p)
<1>1. args \in Seq(Emitted) /\ <<w>> \in Emitted
  BY WordsEmitted DEF Clear, SwitchWord
<1>2. Reading(v, {}, Append(args, <<w>>)) = Reads(v, ReadingTable(v, {}), Reading(v, {}, args), <<w>>)
  BY <1>1, ReadingGrows
<1> DEFINE t == ReadingTable(v, {})
           a == <<w>>
<1> HIDE DEF t, a
<1>3. Reads(v, t, Reader(f, p, None, Open), a) =
        Reader(f \o <<<<name, IF Len(a) > 1 THEN Tail(a) ELSE Yes>>>>, p, None, Open)
  <2>1. AsFlag(a) /\ LongName(t, a) = name /\ name \in t.switch
    BY DEF SwitchWord, t, a
  <2>2. LongName(t, a) \in t.switch
    BY <2>1
  <2>3. Reads(v, t, Reader(f, p, None, Open), a) =
          Reader(f \o <<<<LongName(t, a), IF Len(a) > 1 THEN Tail(a) ELSE Yes>>>>,
                 p, None, Open)
    BY <2>1, <2>2, ReadsSwitch
  <2> QED BY <2>1, <2>3
<1>4. Reading(v, {}, Append(args, <<w>>)) = Reader(f \o <<<<name, Yes>>>>, p, None, Open)
  <2>1. ~(Len(a) > 1)
    BY DEF a
  <2> QED BY <1>2, <1>3, <2>1 DEF Clear, t, a
<1>5. args \o <<<<w>>>> = Append(args, <<w>>) /\ args \o <<<<w>>>> \in Seq(Emitted)
  BY <1>1, OneMore
<1>6. f \o <<<<name, Yes>>>> \in Seq(Pairs)
  <2>1. <<name, Yes>> \in Pairs
    <3>1. name \in Names /\ Yes \in Emitted
      BY WordsEmitted, Zenon DEF SwitchWord
    <3> QED BY <3>1, PairTyped, Zenon DEF Pairs
  <2> QED BY <2>1, OneMore DEF Clear
<1> QED BY <1>4, <1>5, <1>6 DEF Clear

\* A flag and its value added to a clear line are read as that flag with that value.
LEMMA SaysFlag ==
    ASSUME NEW v, NEW args, NEW f, NEW p, NEW w, NEW name, NEW x \in Emitted,
           Clear(v, args, f, p), FlagWord(v, w, name)
    PROVE  Clear(v, args \o <<<<w>>, x>>, f \o <<<<name, x>>>>, p)
<1> DEFINE t == ReadingTable(v, {})
           once == Append(args, <<w>>)
<1> HIDE DEF t
<1>1. args \in Seq(Emitted) /\ <<w>> \in Emitted /\ once \in Seq(Emitted)
  BY WordsEmitted, AppendProperties DEF Clear, FlagWord, once
<1>2. Reading(v, {}, once) = Reads(v, t, Reading(v, {}, args), <<w>>)
  BY <1>1, ReadingGrows DEF t
<1>3. Reads(v, t, Reader(f, p, None, Open), <<w>>) = Reader(f, p, name, Open)
  <2> DEFINE a == <<w>>
  <2>0. Len(a) = 1
    OBVIOUS
  <2>1. /\ AsFlag(a) /\ LongName(t, a) = name /\ name \in t.valued \ t.switch
    BY Zenon DEF FlagWord, t
  <2> HIDE DEF a
  <2>2. Reads(v, t, Reader(f, p, None, Open), a) = Reader(f, p, name, Open)
    <3>1. LongName(t, a) \in t.valued \ t.switch
      BY <2>1
    <3>2. Reads(v, t, Reader(f, p, None, Open), a) =
            IF Len(a) = 1 THEN Reader(f, p, LongName(t, a), Open)
            ELSE Reader(f \o <<<<LongName(t, a), Tail(a)>>>>, p, None, Open)
      BY <2>1, <3>1, ReadsFlag
    <3> QED BY <2>0, <2>1, <3>2
  <2> QED BY <2>2, Zenon DEF a
<1>4. Reading(v, {}, once) = Reader(f, p, name, Open)
  BY <1>2, <1>3 DEF Clear
<1> HIDE DEF once
<1>5. Reading(v, {}, Append(once, x)) = Reads(v, t, Reader(f, p, name, Open), x)
  BY <1>1, <1>4, ReadingGrows DEF t
<1>6. Reading(v, {}, Append(once, x)) = Reader(f \o <<<<name, x>>>>, p, None, Open)
  <2>1. name # None /\ Open \in BOOLEAN
    BY DEF FlagWord, Open
  <2>2. Reads(v, t, Reader(f, p, name, Open), x) = Reader(f \o <<<<name, x>>>>, p, None, Open)
    <3> HIDE DEF t
    <3> QED BY <2>1, ReadsValue
  <2> QED BY <1>5, <2>2
<1>7. args \o <<<<w>>, x>> = Append(once, x) /\ args \o <<<<w>>, x>> \in Seq(Emitted)
  BY <1>1, OneMore DEF once
<1>8. f \o <<<<name, x>>>> \in Seq(Pairs)
  <2>1. <<name, x>> \in Pairs
    BY PairTyped, Zenon DEF Pairs, FlagWord
  <2> QED BY <2>1, OneMore DEF Clear
<1> QED BY <1>6, <1>7, <1>8 DEF Clear

-----------------------------------------------------------------------------
(* A sequence that is put together from a piece for each element of another. *)
FlatMap(F, s) == FlattenSeq([i \in DOMAIN s |-> F[s[i]]])

\* One more element adds its piece.
LEMMA FlatMapGrows ==
    ASSUME NEW S, NEW X, NEW F \in [S -> Seq(X)], NEW s \in Seq(S), NEW x \in S
    PROVE  /\ FlatMap(F, <<>>) = <<>>
           /\ FlatMap(F, Append(s, x)) = FlatMap(F, s) \o F[x]
           /\ FlatMap(F, s) \in Seq(X)
<1> DEFINE M(u) == [i \in DOMAIN u |-> F[u[i]]]
<1>1. M(s) \in Seq(Seq(X)) /\ F[x] \in Seq(X)
  OBVIOUS
<1>2. M(Append(s, x)) = Append(M(s), F[x])
  <2>1. /\ Append(s, x) \in Seq(S) /\ Len(Append(s, x)) = Len(s) + 1 /\ Len(s) \in Nat
        /\ \A i \in 1 .. Len(s) : Append(s, x)[i] = s[i]
        /\ Append(s, x)[Len(s) + 1] = x
    BY AppendProperties
  <2>2. DOMAIN s = 1 .. Len(s) /\ DOMAIN Append(s, x) = 1 .. Len(s) + 1
    BY <2>1, LenProperties
  <2> DEFINE m == M(s)
             u == Append(s, x)
  <2>3. m \in Seq(Seq(X)) /\ Len(m) = Len(s) /\ \A i \in 1 .. Len(s) : m[i] = F[s[i]]
    BY <1>1, <2>1, <2>2
  <2>4. M(u) = [i \in 1 .. Len(s) + 1 |-> F[u[i]]]
    BY <2>2
  <2>5. Append(m, F[x]) = [i \in 1 .. Len(s) + 1 |-> IF i = Len(s) + 1 THEN F[x] ELSE m[i]]
    <3> HIDE DEF m
    <3>1. Append(m, F[x]) = [i \in 1 .. Len(m) + 1 |-> IF i = Len(m) + 1 THEN F[x] ELSE m[i]]
      BY <1>1, <2>3
    <3> QED BY <2>3, <3>1
  <2> HIDE DEF m, u, M
  <2>6. \A i \in 1 .. Len(s) + 1 : F[u[i]] = IF i = Len(s) + 1 THEN F[x] ELSE m[i]
    BY <2>1, <2>3 DEF u
  <2> QED BY <2>4, <2>5, <2>6 DEF m, u
<1>3. FlattenSeq(Append(M(s), F[x])) = FlattenSeq(M(s)) \o F[x]
  BY <1>1, FlattenGrows
<1>4. FlattenSeq(M(s)) \in Seq(X)
  BY <1>1, FlattenType
<1>5. M(<<>>) = <<>>
  OBVIOUS
<1>6. FlattenSeq(<<>>) = <<>>
  BY <1>1, FlattenGrows
<1> HIDE DEF M
<1>7. \A u : FlatMap(F, u) = FlattenSeq(M(u))
  BY Zenon DEF FlatMap, M
<1> QED BY <1>2, <1>3, <1>4, <1>5, <1>6, <1>7

Maps(F, S, X) == F \in [S -> Seq(X)] /\ S # {}
FlatMapLaws(F, S, X) ==
    /\ FlatMap(F, <<>>) = <<>>
    /\ \A s \in Seq(S) : FlatMap(F, s) \in Seq(X)
    /\ \A s \in Seq(S), x \in S : FlatMap(F, Append(s, x)) = FlatMap(F, s) \o F[x]
    /\ \A s \in Seq(S), u \in Seq(S) : FlatMap(F, s \o u) = FlatMap(F, s) \o FlatMap(F, u)

\* The pieces of a concatenation are those of the first part, then of the second.
LEMMA FlatMapConcat ==
    ASSUME NEW S, NEW X, NEW F, Maps(F, S, X) PROVE FlatMapLaws(F, S, X)
<1>0. F \in [S -> Seq(X)] /\ S # {}
  BY DEF Maps
<1>1. \A s \in Seq(S), x \in S :
        /\ FlatMap(F, Append(s, x)) = FlatMap(F, s) \o F[x]
        /\ FlatMap(F, s) \in Seq(X) /\ F[x] \in Seq(X)
  <2> TAKE s \in Seq(S), x \in S
  <2> QED BY <1>0, FlatMapGrows
<1>2. FlatMap(F, <<>>) = <<>> /\ \A s \in Seq(S) : FlatMap(F, s) \in Seq(X)
  <2>1. PICK x \in S : TRUE
    BY <1>0
  <2>2. <<>> \in Seq(S)
    BY EmptySeq
  <2>3. FlatMap(F, <<>>) = <<>>
    BY <1>0, <2>1, <2>2, FlatMapGrows
  <2> QED BY <1>1, <2>1, <2>3
<1>3. ASSUME NEW s \in Seq(S)
      PROVE  \A u \in Seq(S) : FlatMap(F, s \o u) = FlatMap(F, s) \o FlatMap(F, u)
  <2> DEFINE T == {u \in Seq(S) : FlatMap(F, s \o u) = FlatMap(F, s) \o FlatMap(F, u)}
  <2>1. <<>> \in T
    <3>1. s \o <<>> = s /\ FlatMap(F, s) \o <<>> = FlatMap(F, s)
      BY <1>2, ConcatEmptySeq
    <3> QED BY <1>2, <3>1, EmptySeq
  <2>2. ASSUME NEW u \in Seq(S), NEW x \in S, u \in T PROVE Append(u, x) \in T
    <3>1. s \o Append(u, x) = Append(s \o u, x)
      OBVIOUS
    <3>2. s \o u \in Seq(S) /\ Append(u, x) \in Seq(S)
      BY ConcatProperties, AppendProperties
    <3>3. FlatMap(F, Append(s \o u, x)) = FlatMap(F, s \o u) \o F[x]
      <4> DEFINE y == s \o u
      <4> HIDE DEF y
      <4>1. y \in Seq(S)
        BY <3>2 DEF y
      <4>2. FlatMap(F, Append(y, x)) = FlatMap(F, y) \o F[x]
        BY <1>1, <4>1
      <4> QED BY <4>2 DEF y
    <3>4. /\ FlatMap(F, Append(u, x)) = FlatMap(F, u) \o F[x] /\ FlatMap(F, u) \in Seq(X)
          /\ FlatMap(F, s) \in Seq(X) /\ F[x] \in Seq(X)
      BY <1>1
    <3>5. (FlatMap(F, s) \o FlatMap(F, u)) \o F[x] = FlatMap(F, s) \o (FlatMap(F, u) \o F[x])
      <4> DEFINE j == FlatMap(F, s)
                 k == FlatMap(F, u)
                 l == F[x]
      <4>1. j \in Seq(X) /\ k \in Seq(X) /\ l \in Seq(X)
        BY <3>4
      <4> HIDE DEF j, k, l
      <4>2. (j \o k) \o l = j \o (k \o l)
        BY <4>1
      <4> QED BY <4>2 DEF j, k, l
    <3>6. FlatMap(F, s \o u) = FlatMap(F, s) \o FlatMap(F, u)
      BY <2>2
    <3> QED BY <3>1, <3>2, <3>3, <3>4, <3>5, <3>6
  <2> HIDE DEF T
  <2>3. \A u \in Seq(S) : u \in T
    BY <2>1, <2>2, SeqSetInduction
  <2> QED BY <2>3 DEF T
<1> QED BY <1>1, <1>2, <1>3 DEF FlatMapLaws

-----------------------------------------------------------------------------
(* What was parsed, one flag after the other. *)
Hit(name) == [f \in Pairs |-> IF f[1] = name THEN <<f[2]>> ELSE <<>>]

\* Hit is a function to sequences of values.
LEMMA HitTyped == ASSUME NEW name PROVE Hit(name) \in [Pairs -> Seq(Emitted)]
<1> SUFFICES ASSUME NEW f \in Pairs
             PROVE  (IF f[1] = name THEN <<f[2]>> ELSE <<>>) \in Seq(Emitted)
  BY DEF Hit
<1>1. f[2] \in Emitted
  BY DEF Pairs
<1> HIDE DEF Emitted
<1> QED BY <1>1

\* The values of a flag are put together from a piece for each pair.
LEMMA ValuesInIs ==
    ASSUME NEW parsed \in Seq(Pairs), NEW name
    PROVE  ValuesIn(parsed, name) = FlatMap(Hit(name), parsed)
<1>1. \A i \in DOMAIN parsed : parsed[i] \in Pairs
  OBVIOUS
<1>2. [i \in DOMAIN parsed |-> Hit(name)[parsed[i]]] =
        [i \in DOMAIN parsed |-> IF parsed[i][1] = name THEN <<parsed[i][2]>> ELSE <<>>]
  BY <1>1, Zenon DEF Hit
<1> QED BY <1>2, Zenon DEF ValuesIn, FlatMap

\* There are pairs to speak of.
LEMMA PairsExist == Pairs # {} /\ <<"", Yes>> \in Pairs
<1>1. "" \in Names
  BY DEF Names
<1> QED BY <1>1, WordsEmitted, PairTyped, Zenon DEF Pairs

\* The laws of FlatMap, for Hit.
LEMMA HitLaws == ASSUME NEW name PROVE FlatMapLaws(Hit(name), Pairs, Emitted)
<1>1. Maps(Hit(name), Pairs, Emitted)
  BY HitTyped, PairsExist DEF Maps
<1> QED BY <1>1, FlatMapConcat

\* The values of a flag in two pieces are those of the first, then of the second.
LEMMA ValuesInConcat ==
    ASSUME NEW p \in Seq(Pairs), NEW q \in Seq(Pairs), NEW name
    PROVE  /\ ValuesIn(p \o q, name) = ValuesIn(p, name) \o ValuesIn(q, name)
           /\ ValuesIn(p, name) \in Seq(Emitted)
           /\ ValuesIn(<<>>, name) = <<>>
<1>1. p \o q \in Seq(Pairs) /\ <<>> \in Seq(Pairs)
  BY ConcatProperties, EmptySeq
<1>2. FlatMap(Hit(name), p \o q) = FlatMap(Hit(name), p) \o FlatMap(Hit(name), q)
  BY HitLaws DEF FlatMapLaws
<1>3. FlatMap(Hit(name), p) \in Seq(Emitted) /\ FlatMap(Hit(name), <<>>) = <<>>
  BY HitLaws DEF FlatMapLaws
<1> QED BY <1>1, <1>2, <1>3, ValuesInIs

\* One more pair adds its value to its own flag, and to no other.
LEMMA ValuesInAppend ==
    ASSUME NEW p \in Seq(Pairs), NEW f \in Pairs, NEW name
    PROVE  /\ Append(p, f) = p \o <<f>> /\ p \o <<f>> \in Seq(Pairs)
           /\ ValuesIn(p \o <<f>>, name) =
                IF f[1] = name THEN ValuesIn(p, name) \o <<f[2]>> ELSE ValuesIn(p, name)
<1>1. Append(p, f) = p \o <<f>> /\ Append(p, f) \in Seq(Pairs)
  BY OneMore, AppendProperties
<1>2. FlatMap(Hit(name), Append(p, f)) = FlatMap(Hit(name), p) \o Hit(name)[f]
  BY HitLaws DEF FlatMapLaws
<1>3. Hit(name)[f] = IF f[1] = name THEN <<f[2]>> ELSE <<>>
  BY Zenon DEF Hit
<1>4. /\ FlatMap(Hit(name), p) = ValuesIn(p, name)
      /\ FlatMap(Hit(name), Append(p, f)) = ValuesIn(Append(p, f), name)
  BY <1>1, ValuesInIs
<1>5. ValuesIn(p, name) \o <<>> = ValuesIn(p, name)
  BY ValuesInConcat, ConcatEmptySeq
<1>6. ValuesIn(p \o <<f>>, name) = ValuesIn(p, name) \o (IF f[1] = name THEN <<f[2]>> ELSE <<>>)
  BY <1>1, <1>2, <1>3, <1>4
<1>7. CASE f[1] = name
  BY <1>1, <1>6, <1>7
<1>8. CASE f[1] # name
  BY <1>1, <1>5, <1>6, <1>8
<1> QED BY <1>7, <1>8

\* The same, for a pair that is spelled out.
LEMMA ValuesInGrows ==
    ASSUME NEW p \in Seq(Pairs), NEW n \in Names, NEW x \in Emitted, NEW name
    PROVE  ValuesIn(p \o <<<<n, x>>>>, name) =
             IF n = name THEN ValuesIn(p, name) \o <<x>> ELSE ValuesIn(p, name)
<1> DEFINE f == <<n, x>>
<1>1. f \in Pairs /\ f[1] = n /\ f[2] = x
  BY PairTyped, Zenon DEF Pairs
<1> HIDE DEF f
<1>2. ValuesIn(p \o <<f>>, name) =
        IF f[1] = name THEN ValuesIn(p, name) \o <<f[2]>> ELSE ValuesIn(p, name)
  BY <1>1, ValuesInAppend
<1> QED BY <1>1, <1>2 DEF f

-----------------------------------------------------------------------------
(* A piece of a line, and what podman parses it to wherever flags may come. *)
Says(v, add, parsed) ==
    /\ add \in Seq(Emitted) /\ parsed \in Seq(Pairs)
    /\ \A args, f, p : Clear(v, args, f, p) => Clear(v, args \o add, f \o parsed, p)

\* Concatenation is associative.
LEMMA Assoc ==
    ASSUME NEW S, NEW a \in Seq(S), NEW b \in Seq(S), NEW c \in Seq(S)
    PROVE  (a \o b) \o c = a \o (b \o c) /\ a \o b \in Seq(S)
BY ConcatAssociative, ConcatProperties

\* Two pieces that are read as f and as g are read, in a row, as f and then g.
LEMMA SaysConcat ==
    ASSUME NEW v, NEW a, NEW f, NEW b, NEW g, Says(v, a, f), Says(v, b, g)
    PROVE  Says(v, a \o b, f \o g)
<1>1. /\ a \in Seq(Emitted) /\ f \in Seq(Pairs) /\ b \in Seq(Emitted) /\ g \in Seq(Pairs)
      /\ a \o b \in Seq(Emitted) /\ f \o g \in Seq(Pairs)
  BY Assoc DEF Says
<1>2. ASSUME NEW args, NEW h, NEW p, Clear(v, args, h, p)
      PROVE  Clear(v, args \o (a \o b), h \o (f \o g), p)
  <2>1. Clear(v, (args \o a) \o b, (h \o f) \o g, p)
    <3> DEFINE y == args \o a
               k == h \o f
    <3>1. Clear(v, y, k, p)
      BY <1>2 DEF Says
    <3> HIDE DEF y, k
    <3>2. Clear(v, y \o b, k \o g, p)
      BY <3>1 DEF Says
    <3> QED BY <3>2 DEF y, k
  <2>2. args \in Seq(Emitted) /\ h \in Seq(Pairs)
    BY <1>2 DEF Clear
  <2>3. (args \o a) \o b = args \o (a \o b) /\ (h \o f) \o g = h \o (f \o g)
    <3>1. (args \o a) \o b = args \o (a \o b)
      <4>1. args \in Seq(Emitted) /\ a \in Seq(Emitted) /\ b \in Seq(Emitted)
        BY <1>1, <2>2
      <4> QED BY <4>1
    <3>2. (h \o f) \o g = h \o (f \o g)
      <4>1. h \in Seq(Pairs) /\ f \in Seq(Pairs) /\ g \in Seq(Pairs)
        BY <1>1, <2>2
      <4> QED BY <4>1
    <3> QED BY <3>1, <3>2
  <2> QED BY <2>1, <2>3
<1> QED BY <1>1, <1>2 DEF Says

\* Nothing is read as nothing.
LEMMA SaysNothing == ASSUME NEW v PROVE Says(v, <<>>, <<>>)
<1>1. \A args, f, p : Clear(v, args, f, p) => args \o <<>> = args /\ f \o <<>> = f
  BY ConcatEmptySeq DEF Clear
<1> QED BY <1>1, EmptySeq DEF Says

\* A whole line that is such a piece leaves podman ready for the next argument.
LEMMA SaysAll == ASSUME NEW v, NEW a, NEW f, Says(v, a, f) PROVE Clear(v, a, f, <<>>)
<1>1. Clear(v, <<>> \o a, <<>> \o f, <<>>)
  BY ClearStart DEF Says
<1>2. <<>> \o a = a /\ <<>> \o f = f
  BY ConcatEmptySeq DEF Says
<1> QED BY <1>1, <1>2

\* A switch, as a piece.
LEMMA SaysASwitch ==
    ASSUME NEW v, NEW w, NEW name, SwitchWord(v, w, name)
    PROVE  Says(v, <<<<w>>>>, <<<<name, Yes>>>>)
<1>1. <<w>> \in Emitted /\ name \in Names /\ Yes \in Emitted
  BY WordsEmitted DEF SwitchWord
<1>2. <<name, Yes>> \in Pairs
  BY <1>1, PairTyped, Zenon DEF Pairs
<1>3. \A args, f, p : Clear(v, args, f, p) => Clear(v, args \o <<<<w>>>>, f \o <<<<name, Yes>>>>, p)
  BY SaysSwitch
<1>4. <<<<w>>>> \in Seq(Emitted) /\ <<<<name, Yes>>>> \in Seq(Pairs)
  <2> DEFINE a == <<w>>
             f == <<name, Yes>>
  <2>1. a \in Emitted /\ f \in Pairs
    BY <1>1, <1>2
  <2> HIDE DEF a, f
  <2>2. <<a>> \in Seq(Emitted) /\ <<f>> \in Seq(Pairs)
    BY <2>1
  <2> QED BY <2>2 DEF a, f
<1> QED BY <1>3, <1>4 DEF Says

\* A flag and its value, as a piece.
LEMMA SaysAFlag ==
    ASSUME NEW v, NEW w, NEW name, NEW x \in Emitted, FlagWord(v, w, name)
    PROVE  Says(v, <<<<w>>, x>>, <<<<name, x>>>>)
<1>1. <<w>> \in Emitted /\ name \in Names
  BY WordsEmitted DEF FlagWord
<1>2. <<name, x>> \in Pairs
  BY <1>1, PairTyped, Zenon DEF Pairs
<1>3. \A args, f, p : Clear(v, args, f, p) => Clear(v, args \o <<<<w>>, x>>, f \o <<<<name, x>>>>, p)
  BY SaysFlag
<1>4. <<<<w>>, x>> \in Seq(Emitted) /\ <<<<name, x>>>> \in Seq(Pairs)
  <2> DEFINE a == <<w>>
             f == <<name, x>>
  <2>1. a \in Emitted /\ f \in Pairs
    BY <1>1, <1>2
  <2> HIDE DEF a, f
  <2>2. <<a, x>> \in Seq(Emitted) /\ <<f>> \in Seq(Pairs)
    BY <2>1
  <2> QED BY <2>2 DEF a, f
<1> QED BY <1>3, <1>4 DEF Says

OneFlag(name, value) == IF value = Empty THEN <<>> ELSE <<<<name, value>>>>

\* A flag that is written only when it has a value.
LEMMA SaysOne ==
    ASSUME NEW v, NEW w, NEW name, NEW x \in Emitted, FlagWord(v, w, name)
    PROVE  Says(v, One(w, x), OneFlag(name, x))
<1>1. CASE x = Empty
  BY <1>1, SaysNothing DEF One, OneFlag
<1>2. CASE x # Empty
  <2>1. One(w, x) = <<<<w>>, x>> /\ OneFlag(name, x) = <<<<name, x>>>>
    BY <1>2 DEF One, OneFlag
  <2> QED BY <2>1, SaysAFlag
<1> QED BY <1>1, <1>2

\* A piece that is written on a condition.
LEMMA SaysIf ==
    ASSUME NEW v, NEW c \in BOOLEAN, NEW a, NEW f, Says(v, a, f)
    PROVE  Says(v, If(c, a), If(c, f))
BY SaysNothing DEF If

-----------------------------------------------------------------------------
(* A piece for each element of a sequence. *)
LEMMA SaysMap ==
    ASSUME NEW v, NEW S, NEW F, NEW G, Maps(F, S, Emitted), Maps(G, S, Pairs),
           \A x \in S : Says(v, F[x], G[x])
    PROVE  \A s \in Seq(S) : Says(v, FlatMap(F, s), FlatMap(G, s))
<1> DEFINE T == {s \in Seq(S) : Says(v, FlatMap(F, s), FlatMap(G, s))}
<1>1. FlatMapLaws(F, S, Emitted) /\ FlatMapLaws(G, S, Pairs)
  BY FlatMapConcat
<1>2. <<>> \in T
  <2>1. FlatMap(F, <<>>) = <<>> /\ FlatMap(G, <<>>) = <<>>
    BY <1>1 DEF FlatMapLaws
  <2> QED BY <2>1, SaysNothing, EmptySeq
<1>3. ASSUME NEW s \in Seq(S), NEW x \in S, s \in T PROVE Append(s, x) \in T
  <2>1. /\ FlatMap(F, Append(s, x)) = FlatMap(F, s) \o F[x]
        /\ FlatMap(G, Append(s, x)) = FlatMap(G, s) \o G[x]
    BY <1>1 DEF FlatMapLaws
  <2>2. Says(v, FlatMap(F, s), FlatMap(G, s)) /\ Says(v, F[x], G[x])
    BY <1>3
  <2>3. Says(v, FlatMap(F, s) \o F[x], FlatMap(G, s) \o G[x])
    BY <2>2, SaysConcat
  <2>4. Append(s, x) \in Seq(S)
    BY AppendProperties
  <2> QED BY <2>1, <2>3, <2>4
<1> HIDE DEF T
<1>4. \A s \in Seq(S) : s \in T
  BY <1>2, <1>3, SeqSetInduction
<1> QED BY <1>4 DEF T

EachMap(word) == [x \in Emitted |-> <<<<word>>, x>>]
TagMap(name) == [x \in Emitted |-> <<<<name, x>>>>]
Tagged(name, values) == FlatMap(TagMap(name), values)

\* Each value of a repeated flag has its words, and its pair.
LEMMA EachTyped ==
    ASSUME NEW w \in Names, NEW name \in Names
    PROVE  Maps(EachMap(w), Emitted, Emitted) /\ Maps(TagMap(name), Emitted, Pairs)
<1>1. ASSUME NEW x \in Emitted
      PROVE  <<<<w>>, x>> \in Seq(Emitted) /\ <<<<name, x>>>> \in Seq(Pairs)
  <2> DEFINE a == <<w>>
             f == <<name, x>>
  <2>1. a \in Emitted /\ f \in Pairs
    BY WordsEmitted, PairTyped, Zenon DEF Pairs
  <2> HIDE DEF a, f
  <2>2. <<a, x>> \in Seq(Emitted) /\ <<f>> \in Seq(Pairs)
    BY <2>1
  <2> QED BY <2>2 DEF a, f
<1>2. EachMap(w) \in [Emitted -> Seq(Emitted)]
  <2> HIDE DEF Emitted
  <2> QED BY <1>1 DEF EachMap
<1>3. TagMap(name) \in [Emitted -> Seq(Pairs)]
  BY <1>1 DEF TagMap
<1> QED BY <1>2, <1>3, WordsEmitted, Zenon DEF Maps

\* Each writes a repeated flag once for every value.
LEMMA EachIs ==
    ASSUME NEW w, NEW values \in Seq(Emitted)
    PROVE  Each(w, values) = FlatMap(EachMap(w), values)
<1>1. \A i \in DOMAIN values : values[i] \in Emitted
  OBVIOUS
<1>2. [i \in DOMAIN values |-> EachMap(w)[values[i]]] =
        [i \in DOMAIN values |-> <<<<w>>, values[i]>>]
  BY <1>1, Zenon DEF EachMap
<1> QED BY <1>2, Zenon DEF Each, FlatMap

\* A repeated flag is read with all its values, in their order.
LEMMA SaysEach ==
    ASSUME NEW v, NEW w, NEW name, NEW values \in Seq(Emitted), FlagWord(v, w, name)
    PROVE  Says(v, Each(w, values), Tagged(name, values))
<1>1. w \in Names /\ name \in Names
  BY DEF FlagWord
<1>2. Maps(EachMap(w), Emitted, Emitted) /\ Maps(TagMap(name), Emitted, Pairs)
  BY <1>1, EachTyped
<1>3. \A x \in Emitted : Says(v, EachMap(w)[x], TagMap(name)[x])
  <2> TAKE x \in Emitted
  <2>1. EachMap(w)[x] = <<<<w>>, x>> /\ TagMap(name)[x] = <<<<name, x>>>>
    BY Zenon DEF EachMap, TagMap
  <2>2. Says(v, <<<<w>>, x>>, <<<<name, x>>>>)
    BY SaysAFlag
  <2> QED BY <2>1, <2>2
<1>4. Says(v, FlatMap(EachMap(w), values), FlatMap(TagMap(name), values))
  BY <1>2, <1>3, SaysMap
<1> QED BY <1>4, EachIs DEF Tagged

-----------------------------------------------------------------------------
(* The values of a flag in the pieces of what podman parses. *)

\* The values in a single pair.
LEMMA ValuesInOnePair ==
    ASSUME NEW m \in Names, NEW x \in Emitted, NEW n
    PROVE  /\ <<<<m, x>>>> \in Seq(Pairs)
           /\ ValuesIn(<<<<m, x>>>>, n) = IF m = n THEN <<x>> ELSE <<>>
<1> DEFINE f == <<m, x>>
<1>1. f \in Pairs /\ f[1] = m /\ f[2] = x
  BY PairTyped, Zenon DEF Pairs
<1> HIDE DEF f
<1>2. <<f>> \in Seq(Pairs) /\ <<>> \o <<f>> = <<f>> /\ <<>> \in Seq(Pairs)
  BY <1>1, ConcatEmptySeq, EmptySeq
<1>3. ValuesIn(<<>> \o <<f>>, n) =
        IF f[1] = n THEN ValuesIn(<<>>, n) \o <<f[2]>> ELSE ValuesIn(<<>>, n)
  BY <1>1, <1>2, ValuesInAppend
<1>4. ValuesIn(<<>>, n) = <<>>
  BY <1>2, ValuesInConcat
<1>5. <<>> \o <<x>> = <<x>>
  BY ConcatEmptySeq
<1> QED BY <1>1, <1>2, <1>3, <1>4, <1>5 DEF f

\* The values in a flag that is written only when it has one.
LEMMA ValuesInOneFlag ==
    ASSUME NEW m \in Names, NEW x \in Emitted, NEW n
    PROVE  /\ OneFlag(m, x) \in Seq(Pairs)
           /\ ValuesIn(OneFlag(m, x), n) = IF m = n /\ x # Empty THEN <<x>> ELSE <<>>
<1>1. ValuesIn(<<>>, n) = <<>> /\ <<>> \in Seq(Pairs)
  BY ValuesInConcat, EmptySeq
<1> QED BY <1>1, ValuesInOnePair DEF OneFlag

\* The values in a conditional piece.
LEMMA ValuesInIf ==
    ASSUME NEW c \in BOOLEAN, NEW f \in Seq(Pairs), NEW n
    PROVE  /\ If(c, f) \in Seq(Pairs)
           /\ ValuesIn(If(c, f), n) = IF c THEN ValuesIn(f, n) ELSE <<>>
<1>1. ValuesIn(<<>>, n) = <<>> /\ <<>> \in Seq(Pairs)
  BY ValuesInConcat, EmptySeq
<1> QED BY <1>1 DEF If

\* The values in a repeated flag are those it was written for.
LEMMA ValuesInTagged ==
    ASSUME NEW name \in Names, NEW n
    PROVE  \A vs \in Seq(Emitted) :
             /\ Tagged(name, vs) \in Seq(Pairs)
             /\ ValuesIn(Tagged(name, vs), n) = IF name = n THEN vs ELSE <<>>
<1> DEFINE T == {vs \in Seq(Emitted) :
                   /\ Tagged(name, vs) \in Seq(Pairs)
                   /\ ValuesIn(Tagged(name, vs), n) = IF name = n THEN vs ELSE <<>>}
<1>1. FlatMapLaws(TagMap(name), Emitted, Pairs)
  BY EachTyped, FlatMapConcat
<1>2. <<>> \in T
  <2>1. Tagged(name, <<>>) = <<>> /\ ValuesIn(<<>>, n) = <<>> /\ <<>> \in Seq(Pairs)
    BY <1>1, ValuesInConcat, EmptySeq DEF Tagged, FlatMapLaws
  <2> QED BY <2>1, EmptySeq
<1>3. ASSUME NEW vs \in Seq(Emitted), NEW x \in Emitted, vs \in T PROVE Append(vs, x) \in T
  <2>1. Tagged(name, Append(vs, x)) = Tagged(name, vs) \o <<<<name, x>>>>
    <3>1. TagMap(name)[x] = <<<<name, x>>>>
      BY Zenon DEF TagMap
    <3> QED BY <1>1, <3>1 DEF Tagged, FlatMapLaws
  <2>2. Tagged(name, vs) \in Seq(Pairs) /\ <<<<name, x>>>> \in Seq(Pairs)
    BY <1>3, ValuesInOnePair
  <2>3. ValuesIn(Tagged(name, vs) \o <<<<name, x>>>>, n) =
          IF name = n THEN ValuesIn(Tagged(name, vs), n) \o <<x>> ELSE ValuesIn(Tagged(name, vs), n)
    BY <2>2, ValuesInGrows
  <2>4. Tagged(name, vs) \o <<<<name, x>>>> \in Seq(Pairs)
    BY <2>2, ConcatProperties
  <2>5. Append(vs, x) \in Seq(Emitted) /\ Append(vs, x) = vs \o <<x>>
    BY OneMore, AppendProperties
  <2>6. ValuesIn(Tagged(name, vs), n) = IF name = n THEN vs ELSE <<>>
    BY <1>3
  <2> QED BY <2>1, <2>3, <2>4, <2>5, <2>6
<1> HIDE DEF T
<1>4. \A vs \in Seq(Emitted) : vs \in T
  BY <1>2, <1>3, SeqSetInduction
<1> QED BY <1>4 DEF T

(* The flags a run passes through as they are. *)
KeepMap == [f \in Pairs |-> IF IsPassThrough(f) THEN <<f>> ELSE <<>>]
PassedNames == passThroughValueFlags \union {"--label", "--read-only"}

\* The laws of FlatMap, for the flags that are passed through.
LEMMA KeepLaws == FlatMapLaws(KeepMap, Pairs, Pairs)
<1>1. KeepMap \in [Pairs -> Seq(Pairs)]
  <2> HIDE DEF Pairs
  <2> QED BY DEF KeepMap
<1>2. Maps(KeepMap, Pairs, Pairs)
  BY <1>1, PairsExist, Zenon DEF Maps
<1> QED BY <1>2, FlatMapConcat

\* What is passed through is put together from a piece for each flag.
LEMMA PassThroughIs ==
    ASSUME flags \in Seq(Pairs) PROVE PassThroughFlags = FlatMap(KeepMap, flags)
<1>1. \A i \in DOMAIN flags : flags[i] \in Pairs
  OBVIOUS
<1>2. [i \in DOMAIN flags |-> KeepMap[flags[i]]] =
        [i \in DOMAIN flags |-> IF IsPassThrough(flags[i]) THEN <<flags[i]>> ELSE <<>>]
  BY <1>1, Zenon DEF KeepMap
<1> QED BY <1>2, Zenon DEF PassThroughFlags, FlatMap

\* Passing flags through keeps every value of theirs, and none of another's.
LEMMA ValuesInKept ==
    ASSUME NEW n
    PROVE  \A s \in Seq(Pairs) :
             ValuesIn(FlatMap(KeepMap, s), n) =
               IF n \in PassedNames THEN ValuesIn(s, n) ELSE <<>>
<1> DEFINE T == {s \in Seq(Pairs) :
                   ValuesIn(FlatMap(KeepMap, s), n) =
                     IF n \in PassedNames THEN ValuesIn(s, n) ELSE <<>>}
<1>1. <<>> \in T
  <2>1. ValuesIn(<<>>, n) = <<>> /\ FlatMap(KeepMap, <<>>) = <<>>
    BY KeepLaws, ValuesInConcat, EmptySeq DEF FlatMapLaws
  <2> QED BY <2>1, EmptySeq
<1>2. ASSUME NEW s \in Seq(Pairs), NEW f \in Pairs, s \in T PROVE Append(s, f) \in T
  <2>2. ValuesIn(Append(s, f), n) =
          IF f[1] = n THEN ValuesIn(s, n) \o <<f[2]>> ELSE ValuesIn(s, n)
    <3>1. Append(s, f) = s \o <<f>>
      BY OneMore
    <3>2. ValuesIn(s \o <<f>>, n) =
            IF f[1] = n THEN ValuesIn(s, n) \o <<f[2]>> ELSE ValuesIn(s, n)
      BY ValuesInAppend
    <3> QED BY <3>1, <3>2
  <2>3. FlatMap(KeepMap, Append(s, f)) = FlatMap(KeepMap, s) \o KeepMap[f]
        /\ FlatMap(KeepMap, s) \in Seq(Pairs)
    BY KeepLaws DEF FlatMapLaws
  <2>4. KeepMap[f] = IF f[1] \in PassedNames THEN <<f>> ELSE <<>>
    <3>1. IsPassThrough(f) <=> f[1] \in PassedNames
      BY DEF IsPassThrough, PassedNames
    <3>2. KeepMap[f] = IF IsPassThrough(f) THEN <<f>> ELSE <<>>
      BY Zenon DEF KeepMap
    <3> QED BY <3>1, <3>2
  <2>5. ValuesIn(FlatMap(KeepMap, s), n) = IF n \in PassedNames THEN ValuesIn(s, n) ELSE <<>>
    BY <1>2
  <2>6. Append(s, f) \in Seq(Pairs)
    BY AppendProperties
  <2>7. CASE f[1] \in PassedNames
    <3>1. ValuesIn(FlatMap(KeepMap, s) \o <<f>>, n) =
            IF f[1] = n THEN ValuesIn(FlatMap(KeepMap, s), n) \o <<f[2]>>
            ELSE ValuesIn(FlatMap(KeepMap, s), n)
      <4> DEFINE q == FlatMap(KeepMap, s)
      <4>1. q \in Seq(Pairs)
        BY <2>3
      <4> HIDE DEF q
      <4>2. ValuesIn(q \o <<f>>, n) =
              IF f[1] = n THEN ValuesIn(q, n) \o <<f[2]>> ELSE ValuesIn(q, n)
        BY <4>1, ValuesInAppend
      <4> QED BY <4>2 DEF q
    <3>2. FlatMap(KeepMap, Append(s, f)) = FlatMap(KeepMap, s) \o <<f>>
      BY <2>3, <2>4, <2>7
    <3>3. ValuesIn(FlatMap(KeepMap, Append(s, f)), n) =
            IF n \in PassedNames THEN ValuesIn(Append(s, f), n) ELSE <<>>
      BY <2>2, <2>5, <2>7, <3>1, <3>2
    <3> QED BY <2>6, <3>3
  <2>8. CASE f[1] \notin PassedNames
    <3>1. FlatMap(KeepMap, s) \o <<>> = FlatMap(KeepMap, s)
      BY <2>3, ConcatEmptySeq
    <3> QED BY <2>2, <2>3, <2>4, <2>5, <2>6, <2>8, <3>1
  <2> QED BY <2>7, <2>8
<1> HIDE DEF T
<1>3. \A s \in Seq(Pairs) : s \in T
  BY <1>1, <1>2, SeqSetInduction
<1> QED BY <1>3 DEF T

-----------------------------------------------------------------------------
(* podman's own words. *)

\* What podman run knows: netcage's flags of a run but its own two, and the denied ones.
LEMMA RunTableIs ==
    /\ ReadingTable("run", {}).switch =
         {"--interactive", "--tty", "--rm", "--read-only", "--privileged"}
    /\ ReadingTable("run", {}).valued =
         (RunValued \ {"--proxy", "--allow"}) \union (denyReasons \ {"-p", "--privileged"})
    /\ DOMAIN ReadingTable("run", {}).short = DOMAIN Short \union {"-p"}
    /\ \A w \in DOMAIN Short \union {"-p"} :
         ReadingTable("run", {}).short[w] = IF w = "-p" THEN "--publish" ELSE Short[w]
<1> DEFINE T == [w \in DOMAIN Short \union {"-p"} |-> IF w = "-p" THEN "--publish" ELSE Short[w]]
           A == {"--interactive", "--tty", "--rm", "--read-only", "--privileged"}
           B == (RunValued \ {"--proxy", "--allow"}) \union (denyReasons \ {"-p", "--privileged"})
<1>1. PodmanTable("run") = [switch |-> A, valued |-> B, short |-> T]
  BY Zenon DEF PodmanTable, Table
<1>2. DOMAIN T = DOMAIN Short \union {"-p"}
      /\ \A w \in DOMAIN Short \union {"-p"} : T[w] = IF w = "-p" THEN "--publish" ELSE Short[w]
  OBVIOUS
<1> HIDE DEF T, A, B
<1>3. ReadingTable("run", {}) = [switch |-> A, valued |-> B, short |-> T]
  BY <1>1 DEF ReadingTable
<1>4. /\ ReadingTable("run", {}).switch = A /\ ReadingTable("run", {}).valued = B
      /\ ReadingTable("run", {}).short = T
  BY <1>3
<1> QED BY <1>2, <1>4, Zenon DEF A, B

\* Without further names podman reads a verb by podman's own table.
LEMMA TableIs ==
    ASSUME NEW v \in Readers
    PROVE  /\ ReadingTable(v, {}).switch = PodmanTable(v).switch
           /\ ReadingTable(v, {}).valued = PodmanTable(v).valued
           /\ ReadingTable(v, {}).short = PodmanTable(v).short
BY DEF ReadingTable, PodmanTable, Table, TableOf, Readers, JailVerbs

\* The words of podman's tables begin with a dash.
LEMMA WordsDashed ==
    ASSUME NEW v \in Readers, v \in DOMAIN Arguments, NEW w \in Words(PodmanTable(v))
    PROVE  w \in DashedWords /\ w \in Names
<1>1. w \in DashedWords
  <2>1. w \in Words(TableOf(v)) \union Words(PodmanTable(v))
    OBVIOUS
  <2>2. w \in UNION {Words(TableOf(u)) \union Words(PodmanTable(u)) : u \in DOMAIN Arguments}
    BY <2>1, Zenon
  <2> QED BY <2>2 DEF DashedWords
<1>2. w \in Names
  <2>1. w \in UNION {Words(PodmanTable(u)) : u \in Readers}
    BY Zenon
  <2> QED BY <2>1 DEF Names
<1> QED BY <1>1, <1>2

\* A long flag of podman's is neither a bundle, a marker nor a short form, nor both kinds.
LEMMA LongWordPlain ==
    ASSUME NEW v \in Readers,
           NEW w \in PodmanTable(v).valued \union PodmanTable(v).switch
    PROVE  /\ w \in Words(PodmanTable(v)) /\ w \notin Bundles \union {"--", None}
           /\ w \notin DOMAIN PodmanTable(v).short
           /\ PodmanTable(v).valued \intersect PodmanTable(v).switch = {}
<1>0. w \in Words(PodmanTable(v))
  BY DEF Words
<1>1. CASE v = "run"
  <2> DEFINE p == PodmanTable("run")
  <2>1. /\ p.switch = {"--interactive", "--tty", "--rm", "--read-only", "--privileged"}
        /\ p.valued =
             (RunValued \ {"--proxy", "--allow"}) \union (denyReasons \ {"-p", "--privileged"})
        /\ DOMAIN p.short = DOMAIN Short \union {"-p"}
    <3>1. "run" \in Readers
      BY DEF Readers
    <3>2. /\ ReadingTable("run", {}).switch = p.switch
          /\ ReadingTable("run", {}).valued = p.valued
          /\ ReadingTable("run", {}).short = p.short
      BY <3>1, TableIs
    <3> QED BY <3>2, RunTableIs
  <2> HIDE DEF p
  <2>2. w \in p.valued \union p.switch
    BY <1>1 DEF p
  <2>3. w \notin Bundles \union {"--", None} /\ w \notin DOMAIN p.short
    BY <2>1, <2>2 DEF RunValued, passThroughValueFlags, denyReasons, Bundles, None, Short
  <2>4. p.valued \intersect p.switch = {}
    BY <2>1 DEF RunValued, passThroughValueFlags, denyReasons
  <2> QED BY <1>0, <1>1, <2>3, <2>4 DEF p
<1>2. CASE v = "exec"
  BY <1>0, <1>2 DEF PodmanTable, TableOf, Table, JailVerbs, Bundles, None, ExecShort
<1>3. CASE v = "commit"
  BY <1>0, <1>3 DEF PodmanTable, TableOf, Table, JailVerbs, Bundles, None, CommitShort
<1>4. CASE v = "inspect"
  BY <1>0, <1>4 DEF PodmanTable, TableOf, Table, JailVerbs, Bundles, None, InspectShort
<1>5. CASE v = "ps"
  BY <1>0, <1>5 DEF PodmanTable, TableOf, Table, JailVerbs, Bundles, None
<1> QED BY <1>1, <1>2, <1>3, <1>4, <1>5 DEF Readers

\* podman takes a long flag for what it is.
LEMMA LongWord ==
    ASSUME NEW v \in Readers, v \in DOMAIN Arguments
    PROVE  /\ \A w \in PodmanTable(v).valued : FlagWord(v, w, w)
           /\ \A w \in PodmanTable(v).switch : SwitchWord(v, w, w)
<1> DEFINE t == ReadingTable(v, {})
           p == PodmanTable(v)
<1>0. t.switch = p.switch /\ t.valued = p.valued /\ t.short = p.short
  BY TableIs
<1>1. ASSUME NEW w \in p.valued \union p.switch
      PROVE  /\ AsFlag(<<w>>) /\ LongName(t, <<w>>) = w /\ w \in Names /\ w # None
             /\ p.valued \intersect p.switch = {}
  <2>1. /\ w \in Words(p) /\ w \notin Bundles \union {"--", None} /\ w \notin DOMAIN p.short
        /\ p.valued \intersect p.switch = {}
    BY LongWordPlain
  <2>2. w \in DashedWords /\ w \in Names
    BY <2>1, WordsDashed
  <2> HIDE DEF t, p
  <2>3. LongName(t, <<w>>) = w
    BY <1>0, <2>1 DEF LongName
  <2>4. AsFlag(<<w>>)
    BY <2>1, <2>2 DEF AsFlag, Dashed
  <2> QED BY <2>1, <2>2, <2>3, <2>4
<1> HIDE DEF p
<1>2. ASSUME NEW w \in p.valued PROVE FlagWord(v, w, w)
  BY <1>0, <1>1 DEF FlagWord
<1>3. ASSUME NEW w \in p.switch PROVE SwitchWord(v, w, w)
  BY <1>0, <1>1 DEF SwitchWord
<1> QED BY <1>2, <1>3 DEF p

\* podman takes a short flag for the long one it abbreviates.
LEMMA ShortWord ==
    ASSUME NEW v \in Readers, v \in DOMAIN Arguments, NEW w \in DOMAIN PodmanTable(v).short
    PROVE  LET name == PodmanTable(v).short[w] IN
             /\ name \in PodmanTable(v).valued => FlagWord(v, w, name)
             /\ name \in PodmanTable(v).switch => SwitchWord(v, w, name)
<1> DEFINE t == ReadingTable(v, {})
           p == PodmanTable(v)
           name == p.short[w]
<1>0. t.switch = p.switch /\ t.valued = p.valued /\ t.short = p.short
  BY TableIs
<1>1. w \in Words(p) /\ w \notin Bundles \union {"--"}
  <2>0. w \in Words(p)
    BY DEF Words
  <2>1. CASE v = "run"
    BY <2>0, <2>1, RunTableIs, TableIs DEF Bundles, Readers, Short
  <2>2. CASE v = "exec"
    BY <2>0, <2>2 DEF PodmanTable, TableOf, Table, JailVerbs, Bundles, ExecShort
  <2>3. CASE v = "commit"
    BY <2>0, <2>3 DEF PodmanTable, TableOf, Table, JailVerbs, Bundles, CommitShort
  <2>4. CASE v = "inspect"
    BY <2>0, <2>4 DEF PodmanTable, TableOf, Table, JailVerbs, Bundles, InspectShort
  <2>5. CASE v = "ps"
    BY <2>0, <2>5 DEF PodmanTable, TableOf, Table, JailVerbs, Bundles
  <2> QED BY <2>1, <2>2, <2>3, <2>4, <2>5 DEF Readers
<1>2. w \in DashedWords /\ w \in Names
  BY <1>1, WordsDashed
<1>3. ASSUME name \in p.valued \union p.switch
      PROVE  name \in Names /\ name # None /\ p.valued \intersect p.switch = {}
  <2>1. name \in Words(p) /\ name # None /\ p.valued \intersect p.switch = {}
    BY <1>3, LongWordPlain
  <2> QED BY <2>1, WordsDashed
<1> HIDE DEF t, p
<1>4. AsFlag(<<w>>) /\ LongName(t, <<w>>) = name
  BY <1>0, <1>1, <1>2 DEF AsFlag, Dashed, LongName, p
<1> HIDE DEF name
<1>5. ASSUME name \in p.valued PROVE FlagWord(v, w, name)
  BY <1>0, <1>2, <1>3, <1>4, <1>5 DEF FlagWord, t
<1>6. ASSUME name \in p.switch PROVE SwitchWord(v, w, name)
  BY <1>0, <1>2, <1>3, <1>4, <1>6 DEF SwitchWord, t
<1> QED BY <1>5, <1>6 DEF p, name

-----------------------------------------------------------------------------
(* Names of netcage's own are no flags. *)
OwnWords == {"devimage", "netcage-run-id-tool"}

\* Names that netcage makes up are words of no table.
LEMMA TableWordsForeign ==
    ASSUME NEW v, NEW x \in OwnWords
    PROVE  x \notin Words(TableOf(v)) /\ x \notin Words(PodmanTable(v))
<1>1. x \notin Words(RunTable)
  BY DEF RunTable, Words, Table, RunValued, passThroughValueFlags, Short, OwnWords
<1>2. x \notin Words(TableOf(v))
  <2>1. CASE v \in JailVerbs
    <3>1. TableOf(v) = RunTable
      BY <2>1 DEF TableOf, JailVerbs
    <3> QED BY <1>1, <3>1
  <2>2. CASE v \notin JailVerbs
    BY <2>2 DEF TableOf, Words, Table, ExecShort, CommitShort, InspectShort, NoShort, OwnWords
  <2> QED BY <2>1, <2>2
<1>3. x \notin Words(PodmanTable(v))
  <2>1. CASE v = "run"
    BY <2>1, RunTableIs, TableIs DEF Words, RunValued, passThroughValueFlags, denyReasons, Short,
       OwnWords, Readers
  <2>2. CASE v \in {"exec", "commit"}
    <3>1. PodmanTable(v) = TableOf(v)
      BY <2>2 DEF PodmanTable
    <3> QED BY <1>2, <3>1
  <2>3. CASE v = "inspect"
    BY <2>3 DEF PodmanTable, Words, Table, InspectShort, OwnWords
  <2>4. CASE v \notin {"run", "exec", "commit", "inspect"}
    BY <2>4 DEF PodmanTable, Words, Table, OwnWords
  <2> QED BY <2>1, <2>2, <2>3, <2>4
<1> QED BY <1>2, <1>3

\* The default image and the tool's name do not begin with a dash.
LEMMA OwnNames == ~Dashed(DefaultImage) /\ ~Dashed(Tool)
<1>1. ASSUME NEW x \in OwnWords PROVE x \notin DashedWords
  <2>1. x \notin Unknown
    BY CommandAssumption DEF CommandAssumption, OwnWords
  <2>2. x \notin {"--"} \union Bundles \union denyReasons
    BY DEF Bundles, denyReasons, OwnWords
  <2>3. x \notin UNION {Words(TableOf(v)) \union Words(PodmanTable(v)) : v \in DOMAIN Arguments}
    BY TableWordsForeign
  <2> QED BY <2>1, <2>2, <2>3 DEF DashedWords
<1>2. DefaultImage[1] \in OwnWords /\ Tool[1] \in OwnWords
  BY DEF DefaultImage, Tool, OwnWords
<1> QED BY <1>1, <1>2 DEF Dashed

\* What netcage adds by itself may stand on an emitted line.
LEMMA FixedEmitted == Fixed \subseteq Emitted
BY DEF Emitted

-----------------------------------------------------------------------------
\* The first positional of a run or an exec ends the flags.
LEMMA ReadsFirstWord ==
    ASSUME NEW v \in {"run", "exec"}, NEW t, NEW f, NEW p, NEW a, ~Dashed(a)
    PROVE  Reads(v, t, Reader(f, p, None, Open), a) = Reader(f, Append(p, a), None, Over)
BY DEF Reads, Reader, None, Open, Over

\* After that, everything is positional.
LEMMA ReadsLaterWord ==
    ASSUME NEW v, NEW t, NEW f, NEW p, NEW a
    PROVE  Reads(v, t, Reader(f, p, None, Over), a) = Reader(f, Append(p, a), None, Over)
BY DEF Reads, Reader, None, Over

(* After the image or the container, the rest is the command. *)
LEMMA SaysWords ==
    ASSUME NEW v \in {"run", "exec"}, NEW args, NEW f, Clear(v, args, f, <<>>)
    PROVE  \A ps \in Seq(Emitted) :
             ps # <<>> /\ ~Dashed(ps[1]) =>
               Reading(v, {}, args \o ps) = Reader(f, ps, None, Over)
<1> DEFINE T == {ps \in Seq(Emitted) :
                   ps # <<>> /\ ~Dashed(ps[1]) =>
                     Reading(v, {}, args \o ps) = Reader(f, ps, None, Over)}
           t == ReadingTable(v, {})
<1> HIDE DEF t
<1>1. <<>> \in T
  BY EmptySeq
<1>2. ASSUME NEW ps \in Seq(Emitted), NEW x \in Emitted, ps \in T PROVE Append(ps, x) \in T
  <2>1. args \in Seq(Emitted) /\ args \o ps \in Seq(Emitted) /\ Append(ps, x) \in Seq(Emitted)
    BY ConcatProperties, AppendProperties DEF Clear
  <2>2. args \o Append(ps, x) = Append(args \o ps, x)
    BY <2>1
  <2>3. Reading(v, {}, Append(args \o ps, x)) = Reads(v, t, Reading(v, {}, args \o ps), x)
    <3> DEFINE y == args \o ps
    <3>1. y \in Seq(Emitted)
      BY <2>1
    <3> HIDE DEF y
    <3>2. Reading(v, {}, Append(y, x)) = Reads(v, t, Reading(v, {}, y), x)
      BY <3>1, ReadingGrows DEF t
    <3> QED BY <3>2 DEF y
  <2>5. CASE ps = <<>>
    <3>1. Append(ps, x)[1] = x
      BY <2>5
    <3>2. Reading(v, {}, args \o ps) = Reader(f, ps, None, Open)
      <4>1. args \o ps = args
        BY <2>1, <2>5, ConcatEmptySeq
      <4> QED BY <2>5, <4>1 DEF Clear
    <3>3. ~Dashed(x) =>
            Reads(v, t, Reader(f, ps, None, Open), x) = Reader(f, Append(ps, x), None, Over)
      BY ReadsFirstWord
    <3>4. ~Dashed(x) => Reading(v, {}, args \o Append(ps, x)) = Reader(f, Append(ps, x), None, Over)
      BY <2>2, <2>3, <2>5, <3>2, <3>3
    <3> QED BY <2>1, <3>1, <3>4
  <2>6. CASE ps # <<>>
    <3>1. Append(ps, x)[1] = ps[1]
      BY <2>6
    <3>2. Reads(v, t, Reader(f, ps, None, Over), x) = Reader(f, Append(ps, x), None, Over)
      BY ReadsLaterWord
    <3>3. ~Dashed(ps[1]) => Reading(v, {}, args \o ps) = Reader(f, ps, None, Over)
      BY <1>2, <2>6
    <3> QED BY <2>1, <2>2, <2>3, <3>1, <3>2, <3>3
  <2> QED BY <2>5, <2>6
<1> HIDE DEF T
<1>3. \A ps \in Seq(Emitted) : ps \in T
  BY <1>1, <1>2, SeqSetInduction
<1> QED BY <1>3 DEF T

(* Where flags may follow a positional, one more word. *)
LEMMA SaysWord ==
    ASSUME NEW v, v \notin {"run", "exec"}, NEW args, NEW f, NEW p, Clear(v, args, f, p),
           NEW x \in Emitted, ~Dashed(x)
    PROVE  Clear(v, Append(args, x), f, Append(p, x))
<1> DEFINE t == ReadingTable(v, {})
<1> HIDE DEF t
<1>1. /\ args \in Seq(Emitted) /\ f \in Seq(Pairs) /\ p \in Seq(Emitted)
      /\ Append(args, x) \in Seq(Emitted) /\ Append(p, x) \in Seq(Emitted)
  BY AppendProperties DEF Clear
<1>2. Reading(v, {}, Append(args, x)) = Reads(v, t, Reader(f, p, None, Open), x)
  BY <1>1, ReadingGrows DEF t, Clear
<1>3. Reads(v, t, Reader(f, p, None, Open), x) = Reader(f, Append(p, x), None, Open)
  <2>1. Open \in BOOLEAN /\ (Open \/ v \in {"run", "exec"}) = Open
    BY DEF Open
  <2>2. Reads(v, t, Reader(f, p, None, Open), x) =
          Reader(f, Append(p, x), None, Open \/ v \in {"run", "exec"})
    BY <2>1, ReadsPositional
  <2> QED BY <2>1, <2>2
<1> QED BY <1>1, <1>2, <1>3 DEF Clear

-----------------------------------------------------------------------------
(* What was parsed, written out again. *)
WrittenMap == [f \in Pairs |-> AsWritten(f)]

\* A flag written out again is a sequence of arguments.
LEMMA AsWrittenTyped == ASSUME NEW f \in Pairs PROVE AsWritten(f) \in Seq(Emitted)
<1>1. f[1] \in Names /\ f[2] \in Emitted
  BY DEF Pairs
<1>2. <<f[1]>> \in Emitted
  BY <1>1, WordsEmitted
<1> HIDE DEF Emitted
<1> DEFINE a == <<f[1]>>
           b == f[2]
<1>3. a \in Emitted /\ b \in Emitted
  BY <1>1, <1>2
<1>4. AsWritten(f) = IF f[1] = "" THEN <<b>>
                     ELSE IF f[1] \in TableOf(verb).switch THEN <<a>> ELSE <<a, b>>
  BY Zenon DEF AsWritten
<1> HIDE DEF a, b
<1>5. <<a>> \in Seq(Emitted) /\ <<b>> \in Seq(Emitted) /\ <<a, b>> \in Seq(Emitted)
  BY <1>3
<1> QED BY <1>4, <1>5

\* The laws of FlatMap, for what is written out again.
LEMMA WrittenLaws == FlatMapLaws(WrittenMap, Pairs, Emitted)
<1>1. WrittenMap \in [Pairs -> Seq(Emitted)]
  BY AsWrittenTyped DEF WrittenMap
<1>2. Maps(WrittenMap, Pairs, Emitted)
  BY <1>1, PairsExist, Zenon DEF Maps
<1> QED BY <1>2, FlatMapConcat

\* All that is written out again is put together from a piece for each flag.
LEMMA AllAsWrittenIs ==
    ASSUME NEW s \in Seq(Pairs) PROVE AllAsWritten(s) = FlatMap(WrittenMap, s)
<1>1. \A i \in DOMAIN s : s[i] \in Pairs
  OBVIOUS
<1>2. [i \in DOMAIN s |-> WrittenMap[s[i]]] = [i \in DOMAIN s |-> AsWritten(s[i])]
  BY <1>1, Zenon DEF WrittenMap
<1> QED BY <1>2, Zenon DEF AllAsWritten, FlatMap

\* One more flag adds its arguments.
LEMMA AllAsWrittenGrows ==
    ASSUME NEW s \in Seq(Pairs), NEW f \in Pairs
    PROVE  /\ AllAsWritten(<<>>) = <<>>
           /\ AllAsWritten(s \o <<f>>) = AllAsWritten(s) \o AsWritten(f)
           /\ AllAsWritten(s) \in Seq(Emitted)
<1>1. Append(s, f) = s \o <<f>> /\ Append(s, f) \in Seq(Pairs) /\ <<>> \in Seq(Pairs)
  BY OneMore, EmptySeq, AppendProperties
<1>2. /\ FlatMap(WrittenMap, <<>>) = <<>> /\ FlatMap(WrittenMap, s) \in Seq(Emitted)
      /\ FlatMap(WrittenMap, Append(s, f)) = FlatMap(WrittenMap, s) \o WrittenMap[f]
  BY WrittenLaws DEF FlatMapLaws
<1>3. WrittenMap[f] = AsWritten(f)
  BY Zenon DEF WrittenMap
<1>4. /\ AllAsWritten(<<>>) = FlatMap(WrittenMap, <<>>) /\ AllAsWritten(s) = FlatMap(WrittenMap, s)
      /\ AllAsWritten(Append(s, f)) = FlatMap(WrittenMap, Append(s, f))
  BY <1>1, AllAsWrittenIs
<1> QED BY <1>1, <1>2, <1>3, <1>4

(* The flags a run is parsed to. *)
RunPairs ==
    {f \in Names \X ValuesGiven :
       /\ f[1] \in RunTable.switch \union RunTable.valued
       /\ f[1] \in RunTable.switch => f[2] = Yes}

\* The pairs a user can give may stand on an emitted line.
LEMMA GivenPairs == Names \X ValuesGiven \subseteq Pairs /\ ValuesGiven \subseteq Emitted
<1>1. ValuesGiven \subseteq Emitted
  BY DEF Emitted
<1> QED BY <1>1, Zenon DEF Pairs

\* Sequences over a subset.
LEMMA SeqSubset == ASSUME NEW A, NEW B, A \subseteq B PROVE Seq(A) \subseteq Seq(B)
OBVIOUS

\* What netcage knows of a run's flags.
LEMMA RunTableHas ==
    /\ RunTable.switch = {"--interactive", "--tty", "--rm", "--read-only"}
    /\ RunTable.valued = RunValued
BY DEF RunTable, Table

\* One flag that is passed through is read as it was given.
LEMMA SaysKept ==
    ASSUME verb = "run", "run" \in DOMAIN Arguments, NEW f \in RunPairs, IsPassThrough(f)
    PROVE  Says("run", AsWritten(f), <<f>>)
<1>1. /\ f[1] \in Names /\ f[2] \in Emitted /\ f = <<f[1], f[2]>>
      /\ f[1] \in RunTable.switch => f[2] = Yes
  BY GivenPairs DEF RunPairs
<1>2. TableOf(verb) = RunTable
  BY DEF TableOf, JailVerbs
<1>3. f[1] \in PassedNames
  BY DEF IsPassThrough, PassedNames
<1> DEFINE n == f[1]
           x == f[2]
<1>4. f = <<n, x>> /\ n \in PassedNames /\ x \in Emitted
  BY <1>1, <1>3
<1>5. AsWritten(f) = IF n = "" THEN <<x>> ELSE IF n \in RunTable.switch THEN <<<<n>>>> ELSE <<<<n>>, x>>
  BY <1>2 DEF AsWritten
<1>6. n # "" /\ "run" \in Readers
  BY <1>3 DEF PassedNames, passThroughValueFlags, Readers
<1>7. CASE n = "--read-only"
  <2>1. SwitchWord("run", n, n)
    <3>1. n \in PodmanTable("run").switch
      BY <1>6, <1>7, RunTableIs, TableIs
    <3> QED BY <1>6, <3>1, LongWord
  <2>2. n \in RunTable.switch
    BY <1>7, RunTableHas
  <2>3. AsWritten(f) = <<<<n>>>> /\ x = Yes
    BY <1>1, <1>5, <1>6, <2>2
  <2> HIDE DEF n, x
  <2>4. Says("run", <<<<n>>>>, <<<<n, Yes>>>>)
    BY <2>1, SaysASwitch
  <2> QED BY <1>4, <2>3, <2>4
<1>8. CASE n # "--read-only"
  <2>1. FlagWord("run", n, n)
    <3>1. n \in PodmanTable("run").valued
      BY <1>3, <1>6, <1>8, RunTableIs, TableIs DEF PassedNames, passThroughValueFlags, RunValued
    <3> QED BY <1>6, <3>1, LongWord
  <2>2. n \notin RunTable.switch
    BY <1>3, <1>8, RunTableHas DEF PassedNames, passThroughValueFlags
  <2>3. AsWritten(f) = <<<<n>>, x>>
    BY <1>5, <1>6, <2>2
  <2> HIDE DEF n, x
  <2>4. Says("run", <<<<n>>, x>>, <<<<n, x>>>>)
    BY <1>4, <2>1, SaysAFlag
  <2> QED BY <1>4, <2>3, <2>4
<1> QED BY <1>7, <1>8

\* And so are all of them.
LEMMA SaysPassed ==
    ASSUME verb = "run", "run" \in DOMAIN Arguments
    PROVE  \A s \in Seq(RunPairs) :
             Says("run", AllAsWritten(FlatMap(KeepMap, s)), FlatMap(KeepMap, s))
<1> DEFINE Kept(s) == FlatMap(KeepMap, s)
           T == {s \in Seq(RunPairs) : Says("run", AllAsWritten(Kept(s)), Kept(s))}
<1>0. RunPairs \subseteq Pairs /\ Seq(RunPairs) \subseteq Seq(Pairs)
  BY GivenPairs DEF RunPairs
<1>1. <<>> \in T
  <2>1. Kept(<<>>) = <<>> /\ AllAsWritten(<<>>) = <<>>
    BY KeepLaws, AllAsWrittenGrows, PairsExist, EmptySeq DEF FlatMapLaws
  <2> QED BY <2>1, SaysNothing, EmptySeq
<1>2. ASSUME NEW s \in Seq(RunPairs), NEW f \in RunPairs, s \in T PROVE Append(s, f) \in T
  <2>1. s \in Seq(Pairs) /\ f \in Pairs /\ Append(s, f) \in Seq(RunPairs)
    BY <1>0, AppendProperties
  <2>2. Kept(Append(s, f)) = Kept(s) \o KeepMap[f] /\ Kept(s) \in Seq(Pairs)
    BY <2>1, KeepLaws DEF FlatMapLaws
  <2>3. KeepMap[f] = IF IsPassThrough(f) THEN <<f>> ELSE <<>>
    BY <2>1, Zenon DEF KeepMap
  <2> DEFINE k == Kept(s)
  <2>4. k \in Seq(Pairs) /\ Says("run", AllAsWritten(k), k)
    BY <1>2, <2>2
  <2>5. Kept(Append(s, f)) = k \o (IF IsPassThrough(f) THEN <<f>> ELSE <<>>)
    BY <2>2, <2>3
  <2> HIDE DEF k
  <2>6. CASE IsPassThrough(f)
    <3>1. Kept(Append(s, f)) = k \o <<f>>
      BY <2>5, <2>6
    <3>2. AllAsWritten(k \o <<f>>) = AllAsWritten(k) \o AsWritten(f)
      BY <2>1, <2>4, AllAsWrittenGrows
    <3>3. Says("run", AsWritten(f), <<f>>)
      BY <2>6, SaysKept
    <3>4. Says("run", AllAsWritten(k) \o AsWritten(f), k \o <<f>>)
      BY <2>4, <3>3, SaysConcat
    <3>5. Says("run", AllAsWritten(k \o <<f>>), k \o <<f>>)
      BY <3>2, <3>4
    <3> QED BY <2>1, <3>1, <3>5
  <2>7. CASE ~IsPassThrough(f)
    <3>1. Kept(Append(s, f)) = k
      BY <2>4, <2>5, <2>7, ConcatEmptySeq
    <3> QED BY <2>1, <2>4, <3>1
  <2> QED BY <2>6, <2>7
<1> HIDE DEF T
<1>3. \A s \in Seq(RunPairs) : s \in T
  BY <1>1, <1>2, SeqSetInduction
<1> QED BY <1>3 DEF T

-----------------------------------------------------------------------------
(* The values a user gives. *)
LEMMA ValuesInGiven ==
    ASSUME NEW n
    PROVE  \A s \in Seq(Names \X ValuesGiven) : ValuesIn(s, n) \in Seq(ValuesGiven)
<1> DEFINE T == {s \in Seq(Names \X ValuesGiven) : ValuesIn(s, n) \in Seq(ValuesGiven)}
<1>0. Names \X ValuesGiven \subseteq Pairs /\ Seq(Names \X ValuesGiven) \subseteq Seq(Pairs)
  BY GivenPairs
<1>1. <<>> \in T
  <2>1. ValuesIn(<<>>, n) = <<>>
    BY ValuesInConcat, EmptySeq
  <2> QED BY <2>1, EmptySeq
<1>2. ASSUME NEW s \in Seq(Names \X ValuesGiven), NEW f \in Names \X ValuesGiven, s \in T
      PROVE  Append(s, f) \in T
  <2>1. s \in Seq(Pairs) /\ f \in Pairs /\ Append(s, f) \in Seq(Names \X ValuesGiven)
    BY <1>0, AppendProperties
  <2>2. f[2] \in ValuesGiven
    OBVIOUS
  <2>3. /\ Append(s, f) = s \o <<f>>
        /\ ValuesIn(s \o <<f>>, n) =
             IF f[1] = n THEN ValuesIn(s, n) \o <<f[2]>> ELSE ValuesIn(s, n)
    BY <2>1, ValuesInAppend
  <2> DEFINE u == ValuesIn(s, n)
             x == f[2]
  <2>4. u \in Seq(ValuesGiven) /\ x \in ValuesGiven
    BY <1>2, <2>2
  <2>5. ValuesIn(Append(s, f), n) = IF f[1] = n THEN u \o <<x>> ELSE u
    BY <2>3
  <2> HIDE DEF u, x
  <2>6. u \o <<x>> \in Seq(ValuesGiven)
    BY <2>4, OneMore
  <2> QED BY <2>1, <2>4, <2>5, <2>6
<1> HIDE DEF T
<1>3. \A s \in Seq(Names \X ValuesGiven) : s \in T
  BY <1>1, <1>2, SeqSetInduction
<1> QED BY <1>3 DEF T

\* The last of several given values is given.
LEMMA LastGiven ==
    ASSUME NEW s \in Seq(ValuesGiven), s # <<>> PROVE Last(s) \in ValuesGiven
<1>1. Len(s) \in DOMAIN s
  BY EmptySeq
<1> QED BY <1>1 DEF Last

\* What netcage adds by itself, one by one.
LEMMA EmptyEmitted == {Empty, Yes, Fixtures, RunLabel, JailNetwork, Tool, FixedHostname,
                       DefaultImage, ManagedFilter, <<"/work">>, <<"--pause", "false">>,
                       Sidecar} \subseteq Emitted
BY WordsEmitted, FixedEmitted DEF Fixed

\* The value of a flag that counts is a given one, or none.
LEMMA LastInGiven ==
    ASSUME NEW s \in Seq(Names \X ValuesGiven), NEW n
    PROVE  LastIn(s, n) \in ValuesGiven \union {Empty} /\ LastIn(s, n) \in Emitted
<1>1. ValuesIn(s, n) \in Seq(ValuesGiven)
  BY ValuesInGiven
<1>2. LastIn(s, n) \in ValuesGiven \union {Empty}
  BY <1>1, LastGiven DEF LastIn
<1> QED BY <1>2, GivenPairs, EmptyEmitted

\* The volumes of a run, made absolute, may stand on an emitted line.
LEMMA MountsEmitted ==
    ASSUME NEW m \in Seq(ValuesGiven)
    PROVE  [i \in DOMAIN m |-> MountOf(m[i])] \in Seq(Emitted)
<1>1. \A i \in 1 .. Len(m) : MountOf(m[i]) \in Emitted
  <2> TAKE i \in 1 .. Len(m)
  <2>1. m[i] \in ValuesGiven
    OBVIOUS
  <2>2. MountOf(m[i]) \in Mounts
    BY <2>1, Zenon DEF Mounts
  <2> QED BY <2>2, Zenon DEF Emitted
<1>2. Len(m) \in Nat /\ DOMAIN m = 1 .. Len(m)
  OBVIOUS
<1> DEFINE F(i) == MountOf(m[i])
<1> HIDE DEF F
<1>3. [i \in 1 .. Len(m) |-> F(i)] \in Seq(Emitted)
  BY <1>1, <1>2 DEF F
<1> QED BY <1>2, <1>3 DEF F

-----------------------------------------------------------------------------
(* The line of a run. *)
TheMounts == [i \in DOMAIN Values("--volume") |-> MountOf(Values("--volume")[i])]
Image == IF pos = <<>> THEN <<DefaultImage>> ELSE pos
NamesRead == <<<<"--name", Tool>>>>
LabelRead == <<<<"--label", RunLabel>>>>
NetworkRead == <<<<"--network", JailNetwork>>>>
RmRead == If(On("--rm"), <<<<"--rm", Yes>>>>)
TtyRead == If(Interactive, <<<<"--interactive", Yes>>, <<"--tty", Yes>>>>)
FixtureRead == <<<<"--volume", Fixtures>>>>
HostRead == <<<<"--hostname", FixedHostname>>>>

JailRead ==
    NamesRead \o RmRead \o (LabelRead \o NetworkRead) \o TtyRead \o (FixtureRead \o HostRead)
RunRead ==
    JailRead \o Tagged("--volume", TheMounts) \o OneFlag("--workdir", Workdir)
      \o Tagged("--env", Values("--env")) \o OneFlag("--user", Value("--user"))
      \o OneFlag("--entrypoint", Value("--entrypoint")) \o PassThroughFlags

JailArgs ==
    <<<<"--name">>, Tool>> \o If(On("--rm"), <<<<"--rm">>>>)
      \o <<<<"--label">>, RunLabel, <<"--network">>, JailNetwork>>
      \o If(Interactive, <<<<"-it">>>>)
      \o <<<<"-v">>, Fixtures, <<"--hostname">>, FixedHostname>>
FlagArgs ==
    JailArgs \o Each("-v", TheMounts) \o One("-w", Workdir) \o Each("-e", Values("--env"))
      \o One("-u", Value("--user")) \o One("--entrypoint", Value("--entrypoint"))
      \o AllAsWritten(PassThroughFlags)

RunParsed ==
    /\ verb = "run" /\ "run" \in DOMAIN Arguments
    /\ flags \in Seq(RunPairs) /\ pos \in Seq(Given)

\* The types of what a run has parsed, and of what its line is made of.
LEMMA RunParsedTypes ==
    ASSUME RunParsed
    PROVE  /\ flags \in Seq(Names \X ValuesGiven) /\ flags \in Seq(Pairs)
           /\ \A n : Values(n) \in Seq(Emitted) /\ Value(n) \in Emitted
           /\ Workdir \in Emitted /\ TheMounts \in Seq(Emitted)
           /\ Image \in Seq(Emitted) /\ Image # <<>> /\ Interactive \in BOOLEAN
<1>1. flags \in Seq(Names \X ValuesGiven) /\ flags \in Seq(Pairs)
  <2>1. RunPairs \subseteq Names \X ValuesGiven
    BY DEF RunPairs
  <2>2. flags \in Seq(Names \X ValuesGiven)
    BY <2>1, SeqSubset DEF RunParsed
  <2> QED BY <2>2, GivenPairs, SeqSubset
<1>2. \A n : Values(n) \in Seq(ValuesGiven)
  BY <1>1, ValuesInGiven DEF Values
<1>3. Seq(ValuesGiven) \subseteq Seq(Emitted)
  BY GivenPairs
<1>4. \A n : Value(n) \in Emitted
  BY <1>1, LastInGiven DEF Value
<1>5. Workdir \in Emitted
  BY <1>4, EmptyEmitted DEF Workdir
<1>6. TheMounts \in Seq(Emitted)
  BY <1>2, MountsEmitted DEF TheMounts
<1>7. Image \in Seq(Emitted) /\ Image # <<>>
  <2>1. pos \in Seq(Emitted)
    <3>1. Given \subseteq Emitted
      BY DEF Emitted, ValuesGiven
    <3> QED BY <3>1, SeqSubset DEF RunParsed
  <2>2. DefaultImage \in Emitted
    BY EmptyEmitted
  <2>3. <<DefaultImage>> \in Seq(Emitted) /\ <<DefaultImage>> # <<>>
    <3> DEFINE d == DefaultImage
    <3>1. d \in Emitted
      BY <2>2
    <3> HIDE DEF d
    <3>2. <<d>> \in Seq(Emitted) /\ <<d>> # <<>>
      BY <3>1
    <3> QED BY <3>2 DEF d
  <2> QED BY <2>1, <2>3 DEF Image
<1>8. Interactive \in BOOLEAN
  BY DEF Interactive, On
<1> QED BY <1>1, <1>2, <1>3, <1>4, <1>5, <1>6, <1>7, <1>8

\* The words the line of a run is written in.
LEMMA RunWords ==
    ASSUME "run" \in DOMAIN Arguments
    PROVE  /\ FlagWord("run", "--name", "--name") /\ FlagWord("run", "--label", "--label")
           /\ FlagWord("run", "--network", "--network") /\ SwitchWord("run", "--rm", "--rm")
           /\ FlagWord("run", "-v", "--volume") /\ FlagWord("run", "--hostname", "--hostname")
           /\ FlagWord("run", "-w", "--workdir") /\ FlagWord("run", "-e", "--env")
           /\ FlagWord("run", "-u", "--user") /\ FlagWord("run", "--entrypoint", "--entrypoint")
<1> DEFINE p == PodmanTable("run")
<1>0. /\ "run" \in Readers
      /\ {"--name", "--label", "--network", "--hostname", "--entrypoint", "--volume",
          "--workdir", "--env", "--user"} \subseteq p.valued
      /\ "--rm" \in p.switch
  <2>1. "run" \in Readers
    BY DEF Readers
  <2> HIDE DEF p
  <2>2. p.switch = ReadingTable("run", {}).switch /\ p.valued = ReadingTable("run", {}).valued
    BY <2>1, TableIs DEF p
  <2> QED BY <2>1, <2>2, RunTableIs DEF RunValued, denyReasons, passThroughValueFlags
<1>1. /\ {"-v", "-w", "-e", "-u"} \subseteq DOMAIN p.short
      /\ p.short["-v"] = "--volume" /\ p.short["-w"] = "--workdir"
      /\ p.short["-e"] = "--env" /\ p.short["-u"] = "--user"
  <2> HIDE DEF p
  <2>1. p.short = ReadingTable("run", {}).short
    BY <1>0, TableIs DEF p
  <2>2. /\ DOMAIN p.short = DOMAIN Short \union {"-p"}
        /\ \A w \in DOMAIN Short : w # "-p" => p.short[w] = Short[w]
    BY <2>1, RunTableIs
  <2>3. /\ {"-v", "-w", "-e", "-u"} \subseteq DOMAIN Short
        /\ Short["-v"] = "--volume" /\ Short["-w"] = "--workdir"
        /\ Short["-e"] = "--env" /\ Short["-u"] = "--user"
    BY DEF Short
  <2> QED BY <2>2, <2>3
<1>2. /\ \A w \in p.valued : FlagWord("run", w, w)
      /\ \A w \in p.switch : SwitchWord("run", w, w)
  BY <1>0, LongWord
<1>3. \A w \in DOMAIN p.short : p.short[w] \in p.valued => FlagWord("run", w, p.short[w])
  BY <1>0, ShortWord
<1> HIDE DEF p
<1> QED BY <1>0, <1>1, <1>2, <1>3

\* -it on the emitted line is the two switches.
LEMMA SaysBundle ==
    ASSUME "run" \in DOMAIN Arguments
    PROVE  Says("run", <<<<"-it">>>>, <<<<"--interactive", Yes>>, <<"--tty", Yes>>>>)
<1> DEFINE a == <<"-it">>
           two == <<<<"--interactive", Yes>>, <<"--tty", Yes>>>>
           t == ReadingTable("run", {})
<1>1. a[1] \in Bundles /\ Dashed(a) /\ a # <<"--">>
  BY DEF Bundles, Dashed, DashedWords
<1>2. a \in Emitted
  <2>1. "-it" \in Names
    BY DEF Names, Bundles
  <2> QED BY <2>1, WordsEmitted
<1>3. two \in Seq(Pairs)
  <2> DEFINE f == <<"--interactive", Yes>>
             g == <<"--tty", Yes>>
  <2>0. "run" \in Readers
    BY DEF Readers
  <2>1. "--interactive" \in Names /\ "--tty" \in Names
    <3>1. "--interactive" \in PodmanTable("run").switch /\ "--tty" \in PodmanTable("run").switch
      BY <2>0, RunTableIs, TableIs
    <3>2. "--interactive" \in Words(PodmanTable("run")) /\ "--tty" \in Words(PodmanTable("run"))
      BY <3>1 DEF Words
    <3> QED BY <2>0, <3>2, WordsDashed
  <2>2. f \in Pairs /\ g \in Pairs
    BY <2>1, WordsEmitted, PairTyped, Zenon DEF Pairs
  <2> HIDE DEF f, g
  <2>3. <<f, g>> \in Seq(Pairs)
    BY <2>2
  <2> QED BY <2>3 DEF f, g
<1>4. \A f, p : Reads("run", t, Reader(f, p, None, Open), a) = Reader(f \o two, p, None, Open)
  <2> HIDE DEF t, a
  <2> QED BY <1>1, ReadsBundle
<1> HIDE DEF t, a, two
<1>5. ASSUME NEW args, NEW f, NEW p, Clear("run", args, f, p)
      PROVE  Clear("run", args \o <<a>>, f \o two, p)
  <2>1. /\ args \in Seq(Emitted) /\ f \in Seq(Pairs) /\ p \in Seq(Emitted)
        /\ args \o <<a>> = Append(args, a) /\ args \o <<a>> \in Seq(Emitted)
    BY <1>2, <1>5, OneMore DEF Clear
  <2>2. f \o two \in Seq(Pairs)
    BY <1>3, <2>1, ConcatProperties
  <2>3. Reading("run", {}, Append(args, a)) = Reads("run", t, Reader(f, p, None, Open), a)
    BY <1>2, <1>5, <2>1, ReadingGrows DEF t, Clear
  <2> QED BY <1>4, <2>1, <2>2, <2>3 DEF Clear
<1>6. <<a>> \in Seq(Emitted)
  BY <1>2
<1>7. Says("run", <<a>>, two)
  BY <1>3, <1>5, <1>6 DEF Says
<1> QED BY <1>7 DEF a, two

\* Two flags in a row.
LEMMA SaysTwoFlags ==
    ASSUME NEW v, NEW w, NEW m, NEW x \in Emitted, NEW u, NEW n, NEW y \in Emitted,
           FlagWord(v, w, m), FlagWord(v, u, n)
    PROVE  Says(v, <<<<w>>, x, <<u>>, y>>, <<<<m, x>>>> \o <<<<n, y>>>>)
<1> DEFINE a == <<w>>
           b == <<u>>
<1>1. a \in Emitted /\ b \in Emitted
  BY WordsEmitted DEF FlagWord
<1>2. Says(v, <<a, x>>, <<<<m, x>>>>) /\ Says(v, <<b, y>>, <<<<n, y>>>>)
  BY SaysAFlag
<1> HIDE DEF a, b
<1>3. Says(v, <<a, x>> \o <<b, y>>, <<<<m, x>>>> \o <<<<n, y>>>>)
  BY <1>2, SaysConcat
<1>4. <<a, x>> \o <<b, y>> = <<a, x, b, y>>
  <2> DEFINE p == <<a, x>>
             q == <<b, y>>
             r == <<a, x, b, y>>
  <2>1. /\ p \in Seq(Emitted) /\ q \in Seq(Emitted) /\ r \in Seq(Emitted)
        /\ Len(p) = 2 /\ Len(q) = 2 /\ Len(r) = 4
    BY <1>1
  <2>2. p[1] = a /\ p[2] = x /\ q[1] = b /\ q[2] = y
    OBVIOUS
  <2>3. r[1] = a /\ r[2] = x /\ r[3] = b /\ r[4] = y
    OBVIOUS
  <2> HIDE DEF p, q, r
  <2>4. /\ p \o q \in Seq(Emitted) /\ Len(p \o q) = Len(p) + Len(q)
        /\ \A i \in 1 .. Len(p) + Len(q) :
             (p \o q)[i] = IF i <= Len(p) THEN p[i] ELSE q[i - Len(p)]
    BY <2>1, ConcatProperties
  <2>5. Len(p \o q) = 4 /\ \A i \in 1 .. 4 : (p \o q)[i] = r[i]
    BY <2>1, <2>2, <2>3, <2>4
  <2>6. p \o q = r
    BY <2>1, <2>4, <2>5, SeqEqual
  <2> QED BY <2>6 DEF p, q, r
<1>5. Says(v, <<a, x, b, y>>, <<<<m, x>>>> \o <<<<n, y>>>>)
  BY <1>3, <1>4
<1> QED BY <1>5 DEF a, b

\* podman reads the jail's part of the line to the jail's flags.
LEMMA SaysJail == ASSUME RunParsed PROVE Says("run", JailArgs, JailRead)
<1>0. /\ "run" \in DOMAIN Arguments /\ Interactive \in BOOLEAN /\ On("--rm") \in BOOLEAN
      /\ Tool \in Emitted /\ RunLabel \in Emitted /\ JailNetwork \in Emitted
      /\ Fixtures \in Emitted /\ FixedHostname \in Emitted
  BY RunParsedTypes, EmptyEmitted DEF RunParsed, On
<1> DEFINE a1 == <<<<"--name">>, Tool>>
           a2 == If(On("--rm"), <<<<"--rm">>>>)
           a3 == <<<<"--label">>, RunLabel, <<"--network">>, JailNetwork>>
           a4 == If(Interactive, <<<<"-it">>>>)
           a5 == <<<<"-v">>, Fixtures, <<"--hostname">>, FixedHostname>>
           f3 == LabelRead \o NetworkRead
           f5 == FixtureRead \o HostRead
<1>1. Says("run", a1, NamesRead)
  BY <1>0, RunWords, SaysAFlag DEF NamesRead
<1>2. Says("run", a2, RmRead)
  BY <1>0, RunWords, SaysASwitch, SaysIf DEF RmRead
<1>3. Says("run", a3, f3)
  BY <1>0, RunWords, SaysTwoFlags DEF LabelRead, NetworkRead
<1>4. Says("run", a4, TtyRead)
  BY <1>0, SaysBundle, SaysIf DEF TtyRead
<1>5. Says("run", a5, f5)
  BY <1>0, RunWords, SaysTwoFlags DEF FixtureRead, HostRead
<1>6. JailArgs = a1 \o a2 \o a3 \o a4 \o a5 /\ JailRead = NamesRead \o RmRead \o f3 \o TtyRead \o f5
  BY DEF JailArgs, JailRead
<1> HIDE DEF a1, a2, a3, a4, a5, f3, f5
<1>7. Says("run", a1 \o a2 \o a3, NamesRead \o RmRead \o f3)
  <2>1. Says("run", a1 \o a2, NamesRead \o RmRead)
    BY <1>1, <1>2, SaysConcat
  <2> QED BY <1>3, <2>1, SaysConcat
<1>8. Says("run", a1 \o a2 \o a3 \o a4 \o a5, NamesRead \o RmRead \o f3 \o TtyRead \o f5)
  <2>1. Says("run", a1 \o a2 \o a3 \o a4, NamesRead \o RmRead \o f3 \o TtyRead)
    BY <1>4, <1>7, SaysConcat
  <2> QED BY <1>5, <2>1, SaysConcat
<1> QED BY <1>6, <1>8

\* podman reads the flags of the line to the jail's, then the user's.
LEMMA SaysRun == ASSUME RunParsed PROVE Says("run", FlagArgs, RunRead)
<1>0. /\ "run" \in DOMAIN Arguments
      /\ TheMounts \in Seq(Emitted) /\ Workdir \in Emitted /\ Values("--env") \in Seq(Emitted)
      /\ Value("--user") \in Emitted /\ Value("--entrypoint") \in Emitted
  BY RunParsedTypes DEF RunParsed
<1> DEFINE b1 == Each("-v", TheMounts)
           b2 == One("-w", Workdir)
           b3 == Each("-e", Values("--env"))
           b4 == One("-u", Value("--user"))
           b5 == One("--entrypoint", Value("--entrypoint"))
           b6 == AllAsWritten(PassThroughFlags)
           g1 == Tagged("--volume", TheMounts)
           g2 == OneFlag("--workdir", Workdir)
           g3 == Tagged("--env", Values("--env"))
           g4 == OneFlag("--user", Value("--user"))
           g5 == OneFlag("--entrypoint", Value("--entrypoint"))
<1>1. Says("run", b1, g1)
  BY <1>0, RunWords, SaysEach
<1>2. Says("run", b2, g2)
  BY <1>0, RunWords, SaysOne
<1>3. Says("run", b3, g3)
  BY <1>0, RunWords, SaysEach
<1>4. Says("run", b4, g4)
  BY <1>0, RunWords, SaysOne
<1>5. Says("run", b5, g5)
  BY <1>0, RunWords, SaysOne
<1>6. Says("run", b6, PassThroughFlags)
  <2>1. PassThroughFlags = FlatMap(KeepMap, flags)
    BY RunParsedTypes, PassThroughIs
  <2>2. Says("run", AllAsWritten(FlatMap(KeepMap, flags)), FlatMap(KeepMap, flags))
    BY SaysPassed DEF RunParsed
  <2> QED BY <2>1, <2>2
<1>7. /\ FlagArgs = JailArgs \o b1 \o b2 \o b3 \o b4 \o b5 \o b6
      /\ RunRead = JailRead \o g1 \o g2 \o g3 \o g4 \o g5 \o PassThroughFlags
  BY DEF FlagArgs, RunRead
<1> HIDE DEF b1, b2, b3, b4, b5, b6, g1, g2, g3, g4, g5
<1>8. Says("run", JailArgs \o b1, JailRead \o g1)
  BY <1>1, SaysJail, SaysConcat
<1>9. Says("run", JailArgs \o b1 \o b2, JailRead \o g1 \o g2)
  BY <1>2, <1>8, SaysConcat
<1>10. Says("run", JailArgs \o b1 \o b2 \o b3, JailRead \o g1 \o g2 \o g3)
  BY <1>3, <1>9, SaysConcat
<1>11. Says("run", JailArgs \o b1 \o b2 \o b3 \o b4, JailRead \o g1 \o g2 \o g3 \o g4)
  BY <1>4, <1>10, SaysConcat
<1>12. Says("run", JailArgs \o b1 \o b2 \o b3 \o b4 \o b5, JailRead \o g1 \o g2 \o g3 \o g4 \o g5)
  BY <1>5, <1>11, SaysConcat
<1>13. Says("run", JailArgs \o b1 \o b2 \o b3 \o b4 \o b5 \o b6,
            JailRead \o g1 \o g2 \o g3 \o g4 \o g5 \o PassThroughFlags)
  BY <1>6, <1>12, SaysConcat
<1> QED BY <1>7, <1>13

(* podman reads the line of a run to netcage's flags, the user's, and the image
   with its command. *)
LEMMA RunLineRead ==
    ASSUME RunParsed, pos = <<>> \/ ~Dashed(pos[1])
    PROVE  Reading("run", {}, ToolRunArgs) = Reader(RunRead, Image, None, Over)
<1>1. ToolRunArgs = FlagArgs \o Image
  BY Zenon DEF ToolRunArgs, FlagArgs, JailArgs, Image, TheMounts
<1>2. Clear("run", FlagArgs, RunRead, <<>>)
  BY SaysRun, SaysAll
<1>3. Image \in Seq(Emitted) /\ Image # <<>>
  BY RunParsedTypes
<1>4. ~Dashed(Image[1])
  <2>1. CASE pos = <<>>
    <3>1. Image[1] = DefaultImage
      BY <2>1 DEF Image
    <3> QED BY <3>1, OwnNames
  <2>2. CASE pos # <<>>
    BY <2>2 DEF Image
  <2> QED BY <2>1, <2>2
<1>5. Reading("run", {}, FlagArgs \o Image) = Reader(RunRead, Image, None, Over)
  BY <1>2, <1>3, <1>4, SaysWords
<1> QED BY <1>1, <1>5

-----------------------------------------------------------------------------
(* The values podman reads in the line of a run. *)
JailValues(n) ==
    IF n = "--name" THEN <<Tool>>
    ELSE IF n = "--rm" THEN If(On("--rm"), <<Yes>>)
    ELSE IF n = "--label" THEN <<RunLabel>>
    ELSE IF n = "--network" THEN <<JailNetwork>>
    ELSE IF n \in {"--interactive", "--tty"} THEN If(Interactive, <<Yes>>)
    ELSE IF n = "--volume" THEN <<Fixtures>>
    ELSE IF n = "--hostname" THEN <<FixedHostname>>
    ELSE <<>>
OneValue(x) == IF x = Empty THEN <<>> ELSE <<x>>
UserValues(n) ==
    IF n = "--volume" THEN TheMounts
    ELSE IF n = "--workdir" THEN OneValue(Workdir)
    ELSE IF n = "--env" THEN Values("--env")
    ELSE IF n = "--user" THEN OneValue(Value("--user"))
    ELSE IF n = "--entrypoint" THEN OneValue(Value("--entrypoint"))
    ELSE IF n \in PassedNames THEN Values(n)
    ELSE <<>>

\* The flags of the line are among those podman knows.
LEMMA RunNames ==
    ASSUME RunParsed
    PROVE  {"--name", "--rm", "--label", "--network", "--interactive", "--tty", "--volume",
            "--hostname", "--workdir", "--env", "--user", "--entrypoint"} \subseteq Names
<1>1. "run" \in Readers /\ "run" \in DOMAIN Arguments
  BY DEF Readers, RunParsed
<1>2. \A w \in Words(PodmanTable("run")) : w \in Names
  BY <1>1, WordsDashed
<1>3. {"--name", "--rm", "--label", "--network", "--interactive", "--tty", "--volume",
        "--hostname", "--workdir", "--env", "--user", "--entrypoint"} \subseteq Words(PodmanTable("run"))
  BY <1>1, RunTableIs, TableIs DEF Words, RunValued, denyReasons, passThroughValueFlags
<1> QED BY <1>2, <1>3

\* A sequence of two.
LEMMA TwoSeq ==
    ASSUME NEW S, NEW x \in S, NEW y \in S
    PROVE  <<x>> \o <<y>> = <<x, y>> /\ <<x, y>> \in Seq(S)
<1> DEFINE p == <<x>>
           q == <<y>>
           r == <<x, y>>
<1>1. /\ p \in Seq(S) /\ q \in Seq(S) /\ r \in Seq(S)
      /\ Len(p) = 1 /\ Len(q) = 1 /\ Len(r) = 2
  OBVIOUS
<1>2. p[1] = x /\ q[1] = y /\ r[1] = x /\ r[2] = y
  OBVIOUS
<1> HIDE DEF p, q, r
<1>3. /\ p \o q \in Seq(S) /\ Len(p \o q) = Len(p) + Len(q)
      /\ \A i \in 1 .. Len(p) + Len(q) :
           (p \o q)[i] = IF i <= Len(p) THEN p[i] ELSE q[i - Len(p)]
  BY <1>1, ConcatProperties
<1>4. Len(p \o q) = 2 /\ \A i \in 1 .. 2 : (p \o q)[i] = r[i]
  BY <1>1, <1>2, <1>3
<1>5. p \o q = r
  BY <1>1, <1>3, <1>4, SeqEqual
<1> QED BY <1>1, <1>5 DEF p, q, r

\* The values the jail's part has of each flag.
LEMMA JailReadValues ==
    ASSUME RunParsed, NEW n
    PROVE  JailRead \in Seq(Pairs) /\ ValuesIn(JailRead, n) = JailValues(n)
<1>0. /\ Interactive \in BOOLEAN /\ On("--rm") \in BOOLEAN
      /\ Tool \in Emitted /\ RunLabel \in Emitted /\ JailNetwork \in Emitted /\ Yes \in Emitted
      /\ Fixtures \in Emitted /\ FixedHostname \in Emitted
  BY RunParsedTypes, EmptyEmitted DEF On
<1>1. NamesRead \in Seq(Pairs) /\ ValuesIn(NamesRead, n) = IF "--name" = n THEN <<Tool>> ELSE <<>>
  BY <1>0, RunNames, ValuesInOnePair DEF NamesRead
<1>2. RmRead \in Seq(Pairs)
      /\ ValuesIn(RmRead, n) = IF "--rm" = n THEN If(On("--rm"), <<Yes>>) ELSE <<>>
  <2> DEFINE f == <<<<"--rm", Yes>>>>
             c == On("--rm")
  <2>1. f \in Seq(Pairs) /\ ValuesIn(f, n) = IF "--rm" = n THEN <<Yes>> ELSE <<>>
    BY <1>0, RunNames, ValuesInOnePair
  <2> HIDE DEF f
  <2>2. If(c, f) \in Seq(Pairs) /\ ValuesIn(If(c, f), n) = IF c THEN ValuesIn(f, n) ELSE <<>>
    BY <1>0, <2>1, ValuesInIf
  <2>3. RmRead = If(c, f)
    BY Zenon DEF RmRead, f
  <2> QED BY <2>1, <2>2, <2>3 DEF If
<1>3. LabelRead \in Seq(Pairs)
      /\ ValuesIn(LabelRead, n) = IF "--label" = n THEN <<RunLabel>> ELSE <<>>
  BY <1>0, RunNames, ValuesInOnePair DEF LabelRead
<1>4. NetworkRead \in Seq(Pairs)
      /\ ValuesIn(NetworkRead, n) = IF "--network" = n THEN <<JailNetwork>> ELSE <<>>
  BY <1>0, RunNames, ValuesInOnePair DEF NetworkRead
<1>5. TtyRead \in Seq(Pairs)
      /\ ValuesIn(TtyRead, n) =
           IF n \in {"--interactive", "--tty"} THEN If(Interactive, <<Yes>>) ELSE <<>>
  <2> DEFINE f == <<"--interactive", Yes>>
             g == <<"--tty", Yes>>
             two == <<f, g>>
  <2>1. f \in Pairs /\ g \in Pairs
    BY <1>0, RunNames, PairTyped, Zenon DEF Pairs
  <2>2. /\ <<f>> \in Seq(Pairs)
        /\ ValuesIn(<<f>>, n) = IF "--interactive" = n THEN <<Yes>> ELSE <<>>
    BY <1>0, RunNames, ValuesInOnePair
  <2>3. f[1] = "--interactive" /\ g[1] = "--tty" /\ g[2] = Yes
    OBVIOUS
  <2>4. TtyRead = If(Interactive, two)
    BY Zenon DEF TtyRead
  <2> HIDE DEF f, g
  <2>5. ValuesIn(<<f>> \o <<g>>, n) =
          IF g[1] = n THEN ValuesIn(<<f>>, n) \o <<g[2]>> ELSE ValuesIn(<<f>>, n)
    BY <2>1, <2>2, ValuesInAppend
  <2>6. <<f>> \o <<g>> = <<f, g>> /\ <<f, g>> \in Seq(Pairs)
    BY <2>1, TwoSeq
  <2>7. <<>> \o <<Yes>> = <<Yes>>
    BY <1>0, ConcatEmptySeq
  <2>8. ValuesIn(two, n) = IF n \in {"--interactive", "--tty"} THEN <<Yes>> ELSE <<>>
    <3>1. ValuesIn(two, n) = IF g[1] = n THEN ValuesIn(<<f>>, n) \o <<g[2]>> ELSE ValuesIn(<<f>>, n)
      BY <2>5, <2>6
    <3> DEFINE k == ValuesIn(<<f>>, n)
               j == ValuesIn(two, n)
               y == Yes
    <3>2. k = IF "--interactive" = n THEN <<y>> ELSE <<>>
      BY <2>2
    <3>3. j = IF "--tty" = n THEN k \o <<y>> ELSE k
      BY <3>1, <2>3
    <3>4. <<>> \o <<y>> = <<y>>
      BY <2>7
    <3> HIDE DEF k, j, y
    <3>5. j = IF n \in {"--interactive", "--tty"} THEN <<y>> ELSE <<>>
      BY <3>2, <3>3, <3>4
    <3> QED BY <3>5 DEF j, y
  <2> HIDE DEF two
  <2>9. two \in Seq(Pairs)
    BY <2>6 DEF two
  <2>10. If(Interactive, two) \in Seq(Pairs)
         /\ ValuesIn(If(Interactive, two), n) = IF Interactive THEN ValuesIn(two, n) ELSE <<>>
    BY <1>0, <2>9, ValuesInIf
  <2> QED BY <2>4, <2>8, <2>10 DEF If
<1>6. FixtureRead \in Seq(Pairs)
      /\ ValuesIn(FixtureRead, n) = IF "--volume" = n THEN <<Fixtures>> ELSE <<>>
  BY <1>0, RunNames, ValuesInOnePair DEF FixtureRead
<1>7. HostRead \in Seq(Pairs)
      /\ ValuesIn(HostRead, n) = IF "--hostname" = n THEN <<FixedHostname>> ELSE <<>>
  BY <1>0, RunNames, ValuesInOnePair DEF HostRead
<1>8. \A f, g \in Seq(Pairs) : f \o g \in Seq(Pairs) /\ ValuesIn(f \o g, n) = ValuesIn(f, n) \o ValuesIn(g, n)
  BY ValuesInConcat, ConcatProperties
<1>9. \A x \in Seq(Emitted) : x \o <<>> = x /\ <<>> \o x = x
  BY ConcatEmptySeq
<1> DEFINE q == LabelRead \o NetworkRead
           r == FixtureRead \o HostRead
<1>10. q \in Seq(Pairs) /\ ValuesIn(q, n) = ValuesIn(LabelRead, n) \o ValuesIn(NetworkRead, n)
       /\ r \in Seq(Pairs) /\ ValuesIn(r, n) = ValuesIn(FixtureRead, n) \o ValuesIn(HostRead, n)
  BY <1>3, <1>4, <1>6, <1>7, <1>8
<1>11. JailRead = NamesRead \o RmRead \o q \o TtyRead \o r
  BY DEF JailRead
<1> HIDE DEF q, r
<1>12. /\ JailRead \in Seq(Pairs)
       /\ ValuesIn(JailRead, n) =
            ValuesIn(NamesRead, n) \o ValuesIn(RmRead, n) \o ValuesIn(q, n)
              \o ValuesIn(TtyRead, n) \o ValuesIn(r, n)
  <2>1. NamesRead \o RmRead \in Seq(Pairs)
        /\ ValuesIn(NamesRead \o RmRead, n) = ValuesIn(NamesRead, n) \o ValuesIn(RmRead, n)
    BY <1>1, <1>2, <1>8
  <2>2. NamesRead \o RmRead \o q \in Seq(Pairs)
        /\ ValuesIn(NamesRead \o RmRead \o q, n) = ValuesIn(NamesRead \o RmRead, n) \o ValuesIn(q, n)
    BY <1>10, <1>8, <2>1
  <2>3. NamesRead \o RmRead \o q \o TtyRead \in Seq(Pairs)
        /\ ValuesIn(NamesRead \o RmRead \o q \o TtyRead, n) =
             ValuesIn(NamesRead \o RmRead \o q, n) \o ValuesIn(TtyRead, n)
    BY <1>5, <1>8, <2>2
  <2>4. NamesRead \o RmRead \o q \o TtyRead \o r \in Seq(Pairs)
        /\ ValuesIn(NamesRead \o RmRead \o q \o TtyRead \o r, n) =
             ValuesIn(NamesRead \o RmRead \o q \o TtyRead, n) \o ValuesIn(r, n)
    BY <1>10, <1>8, <2>3
  <2> QED BY <1>11, <2>1, <2>2, <2>3, <2>4
<1>13. <<>> \in Seq(Emitted) /\ If(On("--rm"), <<Yes>>) \in Seq(Emitted)
       /\ If(Interactive, <<Yes>>) \in Seq(Emitted) /\ \A x \in Emitted : <<x>> \in Seq(Emitted)
  <2>1. \A x \in Emitted : <<x>> \in Seq(Emitted)
    OBVIOUS
  <2>2. <<Yes>> \in Seq(Emitted) /\ <<>> \in Seq(Emitted)
    BY <1>0, <2>1, EmptySeq
  <2> QED BY <2>1, <2>2 DEF If
<1> DEFINE k1 == ValuesIn(NamesRead, n)
           k2 == ValuesIn(RmRead, n)
           k3 == ValuesIn(q, n)
           k4 == ValuesIn(TtyRead, n)
           k5 == ValuesIn(r, n)
           lr == If(On("--rm"), <<Yes>>)
           lt == If(Interactive, <<Yes>>)
           t1 == <<Tool>>
           t2 == <<RunLabel>>
           t3 == <<JailNetwork>>
           t4 == <<Fixtures>>
           t5 == <<FixedHostname>>
<1>14. /\ k1 = IF "--name" = n THEN t1 ELSE <<>>
       /\ k2 = IF "--rm" = n THEN lr ELSE <<>>
       /\ k4 = IF n \in {"--interactive", "--tty"} THEN lt ELSE <<>>
  BY <1>1, <1>2, <1>5
<1>15. {t1, t2, t3, t4, t5, lr, lt, <<>>} \subseteq Seq(Emitted)
  BY <1>0, <1>13
<1>16. /\ k3 = (IF "--label" = n THEN t2 ELSE <<>>) \o (IF "--network" = n THEN t3 ELSE <<>>)
       /\ k5 = (IF "--volume" = n THEN t4 ELSE <<>>) \o (IF "--hostname" = n THEN t5 ELSE <<>>)
  BY <1>3, <1>4, <1>6, <1>7, <1>10
<1>17. JailValues(n) =
         IF n = "--name" THEN t1 ELSE IF n = "--rm" THEN lr ELSE IF n = "--label" THEN t2
         ELSE IF n = "--network" THEN t3 ELSE IF n \in {"--interactive", "--tty"} THEN lt
         ELSE IF n = "--volume" THEN t4 ELSE IF n = "--hostname" THEN t5 ELSE <<>>
  BY DEF JailValues
<1> HIDE DEF k1, k2, k3, k4, k5, lr, lt, t1, t2, t3, t4, t5
<1>18. /\ k3 = IF "--label" = n THEN t2 ELSE IF "--network" = n THEN t3 ELSE <<>>
       /\ k5 = IF "--volume" = n THEN t4 ELSE IF "--hostname" = n THEN t5 ELSE <<>>
  BY <1>9, <1>15, <1>16
<1>19. k1 \o k2 \o k3 \o k4 \o k5 =
         IF n = "--name" THEN t1 ELSE IF n = "--rm" THEN lr ELSE IF n = "--label" THEN t2
         ELSE IF n = "--network" THEN t3 ELSE IF n \in {"--interactive", "--tty"} THEN lt
         ELSE IF n = "--volume" THEN t4 ELSE IF n = "--hostname" THEN t5 ELSE <<>>
  BY <1>9, <1>14, <1>15, <1>18
<1> QED BY <1>12, <1>17, <1>19 DEF k1, k2, k3, k4, k5

\* The values the whole line has of each flag: the jail's, then the user's.
LEMMA RunReadValues ==
    ASSUME RunParsed, NEW n
    PROVE  /\ RunRead \in Seq(Pairs)
           /\ JailValues(n) \in Seq(Emitted) /\ UserValues(n) \in Seq(Emitted)
           /\ ValuesIn(RunRead, n) = JailValues(n) \o UserValues(n)
<1> DEFINE g1 == Tagged("--volume", TheMounts)
           g2 == OneFlag("--workdir", Workdir)
           g3 == Tagged("--env", Values("--env"))
           g4 == OneFlag("--user", Value("--user"))
           g5 == OneFlag("--entrypoint", Value("--entrypoint"))
           g6 == PassThroughFlags
           v1 == TheMounts
           v2 == OneValue(Workdir)
           v3 == Values("--env")
           v4 == OneValue(Value("--user"))
           v5 == OneValue(Value("--entrypoint"))
           v6 == Values(n)
<1>0. /\ TheMounts \in Seq(Emitted) /\ Workdir \in Emitted /\ Values("--env") \in Seq(Emitted)
      /\ Value("--user") \in Emitted /\ Value("--entrypoint") \in Emitted
      /\ flags \in Seq(Pairs) /\ Values(n) \in Seq(Emitted)
  BY RunParsedTypes
<1>1. \A x \in Emitted : OneValue(x) \in Seq(Emitted)
  <2>1. \A x \in Emitted : <<x>> \in Seq(Emitted)
    OBVIOUS
  <2> QED BY <2>1, EmptySeq DEF OneValue
<1>2. /\ v1 \in Seq(Emitted) /\ v2 \in Seq(Emitted) /\ v3 \in Seq(Emitted)
      /\ v4 \in Seq(Emitted) /\ v5 \in Seq(Emitted) /\ v6 \in Seq(Emitted)
      /\ <<>> \in Seq(Emitted)
  BY <1>0, <1>1, EmptySeq
<1>3. /\ g1 \in Seq(Pairs) /\ ValuesIn(g1, n) = IF "--volume" = n THEN v1 ELSE <<>>
      /\ g3 \in Seq(Pairs) /\ ValuesIn(g3, n) = IF "--env" = n THEN v3 ELSE <<>>
  BY <1>0, RunNames, ValuesInTagged
<1>4. \A m \in Names, x \in Emitted :
        /\ OneFlag(m, x) \in Seq(Pairs)
        /\ ValuesIn(OneFlag(m, x), n) = IF m = n THEN OneValue(x) ELSE <<>>
  BY ValuesInOneFlag DEF OneValue
<1>5. /\ g2 \in Seq(Pairs) /\ ValuesIn(g2, n) = IF "--workdir" = n THEN v2 ELSE <<>>
      /\ g4 \in Seq(Pairs) /\ ValuesIn(g4, n) = IF "--user" = n THEN v4 ELSE <<>>
      /\ g5 \in Seq(Pairs) /\ ValuesIn(g5, n) = IF "--entrypoint" = n THEN v5 ELSE <<>>
  BY <1>0, <1>4, RunNames
<1>6. g6 \in Seq(Pairs) /\ ValuesIn(g6, n) = IF n \in PassedNames THEN v6 ELSE <<>>
  <2>1. PassThroughFlags = FlatMap(KeepMap, flags)
    BY <1>0, PassThroughIs
  <2>2. FlatMap(KeepMap, flags) \in Seq(Pairs)
    BY <1>0, KeepLaws DEF FlatMapLaws
  <2>3. ValuesIn(FlatMap(KeepMap, flags), n) = IF n \in PassedNames THEN ValuesIn(flags, n) ELSE <<>>
    BY <1>0, ValuesInKept
  <2> QED BY <2>1, <2>2, <2>3 DEF Values
<1>7. JailRead \in Seq(Pairs) /\ ValuesIn(JailRead, n) = JailValues(n)
  BY JailReadValues
<1>8. RunRead = JailRead \o g1 \o g2 \o g3 \o g4 \o g5 \o g6
  BY DEF RunRead
<1>9. UserValues(n) =
         IF n = "--volume" THEN v1 ELSE IF n = "--workdir" THEN v2 ELSE IF n = "--env" THEN v3
         ELSE IF n = "--user" THEN v4 ELSE IF n = "--entrypoint" THEN v5
         ELSE IF n \in PassedNames THEN v6 ELSE <<>>
  BY DEF UserValues
<1> HIDE DEF g1, g2, g3, g4, g5, g6, v1, v2, v3, v4, v5, v6
<1> DEFINE V(f) == ValuesIn(f, n)
<1>10. \A f, g \in Seq(Pairs) : f \o g \in Seq(Pairs) /\ V(f \o g) = V(f) \o V(g)
  BY ValuesInConcat, ConcatProperties
<1>11. \A f \in Seq(Pairs) : V(f) \in Seq(Emitted)
  BY ValuesInConcat
<1> DEFINE j == JailRead
           k1 == j \o g1
           k2 == k1 \o g2
           k3 == k2 \o g3
           k4 == k3 \o g4
           k5 == k4 \o g5
           k6 == k5 \o g6
<1>12. /\ k1 \in Seq(Pairs) /\ V(k1) = V(j) \o V(g1)
  BY <1>3, <1>7, <1>10
<1> HIDE DEF V
<1> HIDE DEF k1
<1>13. k2 \in Seq(Pairs) /\ V(k2) = V(k1) \o V(g2)
  BY <1>5, <1>10, <1>12
<1> HIDE DEF k2
<1>14. k3 \in Seq(Pairs) /\ V(k3) = V(k2) \o V(g3)
  BY <1>3, <1>10, <1>13
<1> HIDE DEF k3
<1>15. k4 \in Seq(Pairs) /\ V(k4) = V(k3) \o V(g4)
  BY <1>5, <1>10, <1>14
<1> HIDE DEF k4
<1>16. k5 \in Seq(Pairs) /\ V(k5) = V(k4) \o V(g5)
  BY <1>5, <1>10, <1>15
<1> HIDE DEF k5
<1>17. k6 \in Seq(Pairs) /\ V(k6) = V(k5) \o V(g6)
  BY <1>6, <1>10, <1>16
<1> HIDE DEF k6
<1>18. /\ V(g1) = IF "--volume" = n THEN v1 ELSE <<>>
       /\ V(g2) = IF "--workdir" = n THEN v2 ELSE <<>>
       /\ V(g3) = IF "--env" = n THEN v3 ELSE <<>>
       /\ V(g4) = IF "--user" = n THEN v4 ELSE <<>>
       /\ V(g5) = IF "--entrypoint" = n THEN v5 ELSE <<>>
       /\ V(g6) = IF n \in PassedNames THEN v6 ELSE <<>>
       /\ V(j) = JailValues(n)
  BY <1>3, <1>5, <1>6, <1>7 DEF V
<1>19. V(j) \in Seq(Emitted)
  BY <1>7, <1>11
<1>20. {"--volume", "--workdir", "--env", "--user", "--entrypoint"} \intersect PassedNames = {}
  BY DEF PassedNames, passThroughValueFlags
<1>21. \A x \in Seq(Emitted) : x \o <<>> = x
  BY ConcatEmptySeq
<1>22. \A x, y \in Seq(Emitted) : x \o y \in Seq(Emitted)
  BY ConcatProperties
<1> DEFINE start == V(j)
           all == V(k6)
           c1 == V(k1)
           c2 == V(k2)
           c3 == V(k3)
           c4 == V(k4)
           c5 == V(k5)
           N == PassedNames
<1>23. /\ c1 = start \o (IF "--volume" = n THEN v1 ELSE <<>>)
       /\ c2 = c1 \o (IF "--workdir" = n THEN v2 ELSE <<>>)
       /\ c3 = c2 \o (IF "--env" = n THEN v3 ELSE <<>>)
       /\ c4 = c3 \o (IF "--user" = n THEN v4 ELSE <<>>)
       /\ c5 = c4 \o (IF "--entrypoint" = n THEN v5 ELSE <<>>)
       /\ all = c5 \o (IF n \in N THEN v6 ELSE <<>>)
  BY <1>12, <1>13, <1>14, <1>15, <1>16, <1>17, <1>18
<1>24. {"--volume", "--workdir", "--env", "--user", "--entrypoint"} \intersect N = {} /\ start \in Seq(Emitted)
  BY <1>19, <1>20
<1> HIDE DEF start, all, c1, c2, c3, c4, c5, N
<1>25. c1 = start \o (IF "--volume" = n THEN v1 ELSE <<>>) /\ c1 \in Seq(Emitted)
  BY <1>2, <1>22, <1>23, <1>24
<1>26. c2 = start \o (IF n = "--volume" THEN v1 ELSE IF n = "--workdir" THEN v2 ELSE <<>>)
       /\ c2 \in Seq(Emitted)
  BY <1>2, <1>21, <1>22, <1>23, <1>24, <1>25
<1>27. c3 = start \o (IF n = "--volume" THEN v1 ELSE IF n = "--workdir" THEN v2
                      ELSE IF n = "--env" THEN v3 ELSE <<>>)
       /\ c3 \in Seq(Emitted)
  BY <1>2, <1>21, <1>22, <1>23, <1>24, <1>26
<1>28. c4 = start \o (IF n = "--volume" THEN v1 ELSE IF n = "--workdir" THEN v2
                      ELSE IF n = "--env" THEN v3 ELSE IF n = "--user" THEN v4 ELSE <<>>)
       /\ c4 \in Seq(Emitted)
  BY <1>2, <1>21, <1>22, <1>23, <1>24, <1>27
<1>29. c5 = start \o (IF n = "--volume" THEN v1 ELSE IF n = "--workdir" THEN v2
                      ELSE IF n = "--env" THEN v3 ELSE IF n = "--user" THEN v4
                      ELSE IF n = "--entrypoint" THEN v5 ELSE <<>>)
       /\ c5 \in Seq(Emitted)
  BY <1>2, <1>21, <1>22, <1>23, <1>24, <1>28
<1>30. all = start \o (IF n = "--volume" THEN v1 ELSE IF n = "--workdir" THEN v2
                       ELSE IF n = "--env" THEN v3 ELSE IF n = "--user" THEN v4
                       ELSE IF n = "--entrypoint" THEN v5 ELSE IF n \in N THEN v6 ELSE <<>>)
  BY <1>2, <1>21, <1>22, <1>23, <1>24, <1>29
<1>31. UserValues(n) \in Seq(Emitted)
  BY <1>2, <1>9
<1> QED
  <2>1. all = start \o UserValues(n)
    BY <1>9, <1>30 DEF N
  <2>2. RunRead = k6
    BY <1>8 DEF k1, k2, k3, k4, k5, k6
  <2>3. JailValues(n) = start /\ start \in Seq(Emitted)
    BY <1>18, <1>24 DEF start
  <2> QED BY <1>17, <1>31, <2>1, <2>2, <2>3 DEF all, V

-----------------------------------------------------------------------------
(* A flag that is parsed has a value. *)
LEMMA Occurs ==
    \A s \in Seq(Pairs) : \A i \in DOMAIN s : ValuesIn(s, s[i][1]) # <<>>
<1> DEFINE T == {s \in Seq(Pairs) : \A i \in DOMAIN s : ValuesIn(s, s[i][1]) # <<>>}
<1>1. <<>> \in T
  BY EmptySeq
<1>2. ASSUME NEW s \in Seq(Pairs), NEW f \in Pairs, s \in T PROVE Append(s, f) \in T
  <2>1. /\ Append(s, f) = s \o <<f>> /\ Append(s, f) \in Seq(Pairs)
        /\ \A n : ValuesIn(Append(s, f), n) =
                    IF f[1] = n THEN ValuesIn(s, n) \o <<f[2]>> ELSE ValuesIn(s, n)
    <3>1. Append(s, f) = s \o <<f>> /\ Append(s, f) \in Seq(Pairs)
      BY OneMore, AppendProperties
    <3>2. \A n : ValuesIn(s \o <<f>>, n) =
                   IF f[1] = n THEN ValuesIn(s, n) \o <<f[2]>> ELSE ValuesIn(s, n)
      BY ValuesInAppend
    <3> QED BY <3>1, <3>2
  <2>2. \A n : ValuesIn(s, n) \in Seq(Emitted) /\ f[2] \in Emitted
    <3>1. f[2] \in Emitted
      BY DEF Pairs
    <3> QED BY <3>1, ValuesInConcat
  <2>3. \A u \in Seq(Emitted), x \in Emitted : u \o <<x>> # <<>>
    <3> TAKE u \in Seq(Emitted), x \in Emitted
    <3>1. u \o <<x>> = Append(u, x)
      BY OneMore
    <3> QED BY <3>1, AppendProperties
  <2>4. ASSUME NEW i \in DOMAIN Append(s, f)
        PROVE  ValuesIn(Append(s, f), Append(s, f)[i][1]) # <<>>
    <3>1. CASE i \in DOMAIN s
      <4>1. Append(s, f)[i] = s[i] /\ ValuesIn(s, s[i][1]) # <<>>
        BY <1>2, <3>1
      <4> DEFINE n == s[i][1]
      <4>2. ValuesIn(s, n) # <<>> /\ Append(s, f)[i][1] = n
        BY <4>1
      <4> HIDE DEF n
      <4>3. ValuesIn(Append(s, f), n) # <<>>
        <5>1. CASE f[1] = n
          <6>1. ValuesIn(Append(s, f), n) = ValuesIn(s, n) \o <<f[2]>>
            BY <2>1, <5>1
          <6>2. ValuesIn(s, n) \o <<f[2]>> # <<>>
            <7> DEFINE u == ValuesIn(s, n)
                       x == f[2]
            <7>1. u \in Seq(Emitted) /\ x \in Emitted
              BY <2>2
            <7> HIDE DEF u, x
            <7>2. u \o <<x>> # <<>>
              BY <2>3, <7>1
            <7> QED BY <7>2 DEF u, x
          <6> QED BY <6>1, <6>2
        <5>2. CASE f[1] # n
          BY <2>1, <4>2, <5>2
        <5> QED BY <5>1, <5>2
      <4> QED BY <4>2, <4>3
    <3>2. CASE i \notin DOMAIN s
      <4>1. Append(s, f)[i] = f
        BY <3>2
      <4> DEFINE n == f[1]
                 u == ValuesIn(s, n)
                 x == f[2]
      <4>2. ValuesIn(Append(s, f), n) = u \o <<x>> /\ u \in Seq(Emitted) /\ x \in Emitted
        BY <2>1, <2>2
      <4>3. Append(s, f)[i][1] = n
        BY <4>1
      <4> HIDE DEF n, u, x
      <4>4. u \o <<x>> # <<>>
        BY <2>3, <4>2
      <4> QED BY <4>2, <4>3, <4>4
    <3> QED BY <3>1, <3>2
  <2> QED BY <2>1, <2>4
<1> HIDE DEF T
<1>3. \A s \in Seq(Pairs) : s \in T
  BY <1>1, <1>2, SeqSetInduction
<1> QED BY <1>3 DEF T

(* The jail of a run is netcage's. *)
LEMMA RunOwned ==
    ASSUME RunParsed, pos = <<>> \/ ~Dashed(pos[1]),
           NEW given, given = Reading("run", {}, ToolRunArgs).flags
    PROVE  /\ ValuesIn(given, "--name") = <<Tool>>
           /\ ValuesIn(given, "--network") = <<JailNetwork>>
           /\ \A i \in DOMAIN given :
                given[i][1] \in denyReasons => given[i][1] \in {"--name", "--network"}
<1>1. given = RunRead
  <2>1. Reading("run", {}, ToolRunArgs) = Reader(RunRead, Image, None, Over)
    BY RunLineRead
  <2> DEFINE r == Reading("run", {}, ToolRunArgs)
  <2> HIDE DEF r
  <2>2. r = Reader(RunRead, Image, None, Over)
    BY <2>1 DEF r
  <2>3. r.flags = RunRead
    BY <2>2 DEF Reader
  <2> QED BY <2>3 DEF r
<1>2. /\ RunRead \in Seq(Pairs)
      /\ \A n : ValuesIn(RunRead, n) = JailValues(n) \o UserValues(n)
  BY RunReadValues
<1>3. \A x \in Seq(Emitted) : x \o <<>> = x
  BY ConcatEmptySeq
<1>4. ASSUME NEW n \in denyReasons
      PROVE  UserValues(n) = <<>> /\ (n \notin {"--name", "--network"} => JailValues(n) = <<>>)
  BY <1>4 DEF denyReasons, UserValues, JailValues, PassedNames, passThroughValueFlags
<1>5. /\ JailValues("--name") = <<Tool>> /\ UserValues("--name") = <<>>
      /\ JailValues("--network") = <<JailNetwork>> /\ UserValues("--network") = <<>>
  BY <1>4 DEF JailValues, denyReasons
<1>6. \A n : JailValues(n) \in Seq(Emitted)
  BY RunReadValues
<1>7. ASSUME NEW i \in DOMAIN RunRead, RunRead[i][1] \in denyReasons,
             RunRead[i][1] \notin {"--name", "--network"}
      PROVE  FALSE
  <2> DEFINE n == RunRead[i][1]
  <2>1. ValuesIn(RunRead, n) # <<>>
    BY <1>2, Occurs
  <2>2. n \in denyReasons /\ n \notin {"--name", "--network"}
    BY <1>7
  <2> HIDE DEF n
  <2>3. ValuesIn(RunRead, n) = <<>> \o <<>>
    BY <1>2, <1>4, <2>2
  <2> QED BY <1>3, <2>1, <2>3, EmptySeq
<1>8. ValuesIn(RunRead, "--name") = <<Tool>> /\ ValuesIn(RunRead, "--network") = <<JailNetwork>>
  <2>1. ValuesIn(RunRead, "--name") = JailValues("--name") \o <<>>
    BY <1>2, <1>5
  <2>2. ValuesIn(RunRead, "--network") = JailValues("--network") \o <<>>
    BY <1>2, <1>5
  <2>3. JailValues("--name") \o <<>> = JailValues("--name")
        /\ JailValues("--network") \o <<>> = JailValues("--network")
    BY <1>3, <1>6
  <2> QED BY <1>5, <2>1, <2>2, <2>3
<1> QED BY <1>1, <1>7, <1>8

-----------------------------------------------------------------------------
(* Reading on, podman only adds to the flags it has. *)
Sofar(f, p, w, e, k) == [flags |-> f, pos |-> p, pending |-> w, ended |-> e, ok |-> k]

Updates(r, f, p, w, e, k) ==
    /\ \A x : [r EXCEPT !.pending = x] = Sofar(f, p, x, e, k)
    /\ \A x : [r EXCEPT !.ended = x] = Sofar(f, p, w, x, k)
    /\ \A x : [r EXCEPT !.ok = x] = Sofar(f, p, w, e, x)
    /\ \A x, y : [r EXCEPT !.pos = x, !.ended = y] = Sofar(f, x, w, y, k)
    /\ \A x : Got(r, x) = Sofar(f \o x, p, w, e, k)
    /\ \A x, y : [Got(r, x) EXCEPT !.pending = y] = Sofar(f \o x, p, y, e, k)

\* The updates Reads makes of a reader that may have refused the line.
LEMMA SofarUpdates ==
    ASSUME NEW f, NEW p, NEW w, NEW e, NEW k, NEW r, r = Sofar(f, p, w, e, k)
    PROVE  Updates(r, f, p, w, e, k)
<1>0. r = [flags |-> f, pos |-> p, pending |-> w, ended |-> e, ok |-> k]
  BY Zenon DEF Sofar
<1>1. \A x : [r EXCEPT !.pending = x] = Sofar(f, p, x, e, k)
  BY <1>0 DEF Sofar
<1>2. \A x : [r EXCEPT !.ended = x] = Sofar(f, p, w, x, k)
  BY <1>0 DEF Sofar
<1>3. \A x : [r EXCEPT !.ok = x] = Sofar(f, p, w, e, x)
  BY <1>0 DEF Sofar
<1>4. \A x, y : [r EXCEPT !.pos = x, !.ended = y] = Sofar(f, x, w, y, k)
  <2> TAKE x, y
  <2> DEFINE u == [r EXCEPT !.pos = x]
  <2>1. u = [flags |-> f, pos |-> x, pending |-> w, ended |-> e, ok |-> k]
    BY <1>0
  <2>2. [r EXCEPT !.pos = x, !.ended = y] = [u EXCEPT !.ended = y]
    OBVIOUS
  <2> HIDE DEF u
  <2>3. [u EXCEPT !.ended = y] = [flags |-> f, pos |-> x, pending |-> w, ended |-> y, ok |-> k]
    BY <2>1
  <2> QED BY <2>2, <2>3 DEF Sofar
<1>5. \A x : Got(r, x) = Sofar(f \o x, p, w, e, k)
  <2> TAKE x
  <2>1. r.flags = f
    BY <1>0
  <2>2. Got(r, x) = [r EXCEPT !.flags = r.flags \o x]
    BY DEF Got
  <2> DEFINE z == f \o x
  <2> HIDE DEF z
  <2>3. [r EXCEPT !.flags = z] = [flags |-> z, pos |-> p, pending |-> w, ended |-> e, ok |-> k]
    BY <1>0
  <2> QED BY <2>1, <2>2, <2>3 DEF Sofar, z
<1>6. \A z, y : [Sofar(z, p, w, e, k) EXCEPT !.pending = y] = Sofar(z, p, y, e, k)
  BY DEF Sofar
<1>7. \A x, y : [Got(r, x) EXCEPT !.pending = y] = Sofar(f \o x, p, y, e, k)
  BY <1>5, <1>6
<1> QED BY <1>1, <1>2, <1>3, <1>4, <1>5, <1>7 DEF Updates

More(f, r) ==
    \E g \in Seq(Pairs), y \in Names : \E q, h, l : r = Sofar(f \o g, q, y, h, l)

\* A reader that has read on has the flags it had.
LEMMA MoreIs ==
    ASSUME NEW f, NEW g \in Seq(Pairs), NEW q, NEW y \in Names, NEW h, NEW l
    PROVE  More(f, Sofar(f \o g, q, y, h, l))
BY Zenon DEF More

\* A sequence of one pair.
LEMMA SeqOne ==
    ASSUME NEW n \in Names, NEW x \in Emitted PROVE <<<<n, x>>>> \in Seq(Pairs)
BY ValuesInOnePair

\* One argument only adds flags, whatever the reader has seen.
LEMMA ReadsMore ==
    ASSUME NEW v \in Readers, NEW f \in Seq(Pairs), NEW p, NEW w \in Names, NEW e, NEW k,
           NEW a \in Given
    PROVE  More(f, Reads(v, ReadingTable(v, {}), Sofar(f, p, w, e, k), a))
<1> DEFINE t == ReadingTable(v, {})
           r == Sofar(f, p, w, e, k)
           name == LongName(t, a)
           b == e \/ v \in {"run", "exec"}
<1>0. f \o <<>> = f /\ <<>> \in Seq(Pairs) /\ "" \in Names
  BY ConcatEmptySeq, EmptySeq, PairsExist DEF Names
<1>1. /\ r.pending = w /\ r.ended = e /\ r.pos = p
  BY DEF Sofar
<1>2. a \in Emitted /\ Tail(a) \in Emitted /\ Yes \in Emitted
  <2>1. a \in ValuesGiven /\ Tail(a) \in ValuesGiven
    BY DEF ValuesGiven
  <2> QED BY <2>1, GivenPairs, WordsEmitted
<1>3. name \in t.switch \union t.valued => name \in Names
  <2>1. t.switch \union t.valued \subseteq Words(PodmanTable(v))
    BY TableIs DEF Words
  <2>2. Words(PodmanTable(v)) \subseteq UNION {Words(PodmanTable(u)) : u \in Readers}
    BY Zenon
  <2> QED BY <2>1, <2>2 DEF Names
<1>4. "--interactive" \in Names /\ "--tty" \in Names
  <2>1. "run" \in Readers
    BY DEF Readers
  <2>2. "--interactive" \in Words(PodmanTable("run")) /\ "--tty" \in Words(PodmanTable("run"))
    BY <2>1, RunTableIs, TableIs DEF Words
  <2>3. Words(PodmanTable("run")) \subseteq UNION {Words(PodmanTable(u)) : u \in Readers}
    BY <2>1, Zenon
  <2> QED BY <2>2, <2>3 DEF Names
<1> DEFINE two == <<<<"--interactive", Yes>>, <<"--tty", Yes>>>>
           long == IF Len(a) > 1 THEN Tail(a) ELSE Yes
           no == FALSE
           yes == TRUE
<1>5. two \in Seq(Pairs)
  <2> DEFINE i == <<"--interactive", Yes>>
             j == <<"--tty", Yes>>
  <2>1. i \in Pairs /\ j \in Pairs
    BY <1>2, <1>4, PairTyped, Zenon DEF Pairs
  <2> HIDE DEF i, j
  <2>2. <<i, j>> \in Seq(Pairs)
    BY <2>1
  <2> QED BY <2>2 DEF i, j
<1>6. long \in Emitted
  BY <1>2
<1>7. \/ Reads(v, t, r, a) = [Got(r, <<<<w, a>>>>) EXCEPT !.pending = ""]
      \/ Reads(v, t, r, a) = [r EXCEPT !.pos = Append(p, a), !.ended = b]
      \/ Reads(v, t, r, a) = [r EXCEPT !.ended = yes]
      \/ Reads(v, t, r, a) = Got(r, two)
      \/ name \in t.switch /\ Reads(v, t, r, a) = Got(r, <<<<name, long>>>>)
      \/ Reads(v, t, r, a) = [r EXCEPT !.ok = no]
      \/ name \in t.valued /\ Reads(v, t, r, a) = [r EXCEPT !.pending = name]
      \/ name \in t.valued /\ Reads(v, t, r, a) = Got(r, <<<<name, Tail(a)>>>>)
  <2> DEFINE out == Reads(v, t, r, a)
  <2>1. out =
          IF w # "" THEN [Got(r, <<<<w, a>>>>) EXCEPT !.pending = ""]
          ELSE IF e \/ ~Dashed(a) THEN [r EXCEPT !.pos = Append(p, a), !.ended = b]
          ELSE IF a = <<"--">> THEN [r EXCEPT !.ended = yes]
          ELSE IF a[1] \in Bundles THEN Got(r, two)
          ELSE IF name \in t.switch THEN Got(r, <<<<name, long>>>>)
          ELSE IF name \notin t.valued THEN [r EXCEPT !.ok = no]
          ELSE IF Len(a) = 1 THEN [r EXCEPT !.pending = name]
          ELSE Got(r, <<<<name, Tail(a)>>>>)
    <3> HIDE DEF t, r
    <3> QED BY <1>1, Zenon DEF Reads
  <2> HIDE DEF out, t, r, two, long, name, b, yes, no
  <2>2. \/ out = [Got(r, <<<<w, a>>>>) EXCEPT !.pending = ""]
        \/ out = [r EXCEPT !.pos = Append(p, a), !.ended = b]
        \/ out = [r EXCEPT !.ended = yes]
        \/ out = Got(r, two)
        \/ name \in t.switch /\ out = Got(r, <<<<name, long>>>>)
        \/ out = [r EXCEPT !.ok = no]
        \/ name \in t.valued /\ out = [r EXCEPT !.pending = name]
        \/ name \in t.valued /\ out = Got(r, <<<<name, Tail(a)>>>>)
    BY <2>1
  <2> QED BY <2>2 DEF out
<1>u. /\ \A x : [r EXCEPT !.pending = x] = Sofar(f, p, x, e, k)
      /\ \A x : [r EXCEPT !.ended = x] = Sofar(f, p, w, x, k)
      /\ \A x : [r EXCEPT !.ok = x] = Sofar(f, p, w, e, x)
      /\ \A x, y : [r EXCEPT !.pos = x, !.ended = y] = Sofar(f, x, w, y, k)
      /\ \A x : Got(r, x) = Sofar(f \o x, p, w, e, k)
      /\ \A x, y : [Got(r, x) EXCEPT !.pending = y] = Sofar(f \o x, p, y, e, k)
  <2>1. r = Sofar(f, p, w, e, k)
    OBVIOUS
  <2> HIDE DEF r
  <2>2. Updates(r, f, p, w, e, k)
    BY <2>1, SofarUpdates
  <2> QED BY <2>2 DEF Updates
<1> DEFINE out == Reads(v, t, r, a)
<1> SUFFICES More(f, out)
  BY DEF out, t, r
<1> HIDE DEF t, name, b, two, long, no, yes, r, out
<1>8. CASE out = [Got(r, <<<<w, a>>>>) EXCEPT !.pending = ""]
  <2>1. out = Sofar(f \o <<<<w, a>>>>, p, "", e, k)
    BY <1>8, <1>u
  <2>2. <<<<w, a>>>> \in Seq(Pairs)
    BY <1>2, SeqOne
  <2>3. More(f, Sofar(f \o <<<<w, a>>>>, p, "", e, k))
    BY <1>0, <2>2, MoreIs
  <2> QED BY <2>1, <2>3
<1>9. CASE out = [r EXCEPT !.pos = Append(p, a), !.ended = b]
  <2>1. out = Sofar(f \o <<>>, Append(p, a), w, b, k)
    BY <1>0, <1>9, <1>u
  <2>3. More(f, Sofar(f \o <<>>, Append(p, a), w, b, k))
    BY <1>0, MoreIs
  <2> QED BY <2>1, <2>3
<1>10. CASE out = [r EXCEPT !.ended = yes]
  <2>1. out = Sofar(f \o <<>>, p, w, yes, k)
    BY <1>0, <1>10, <1>u
  <2>3. More(f, Sofar(f \o <<>>, p, w, yes, k))
    BY <1>0, MoreIs
  <2> QED BY <2>1, <2>3
<1>11. CASE out = Got(r, two)
  <2>1. out = Sofar(f \o two, p, w, e, k)
    BY <1>11, <1>u
  <2>3. More(f, Sofar(f \o two, p, w, e, k))
    BY <1>5, MoreIs
  <2> QED BY <2>1, <2>3
<1>12. CASE name \in t.switch /\ out = Got(r, <<<<name, long>>>>)
  <2>1. out = Sofar(f \o <<<<name, long>>>>, p, w, e, k)
    BY <1>12, <1>u
  <2>2. <<<<name, long>>>> \in Seq(Pairs)
    BY <1>3, <1>6, <1>12, SeqOne
  <2>3. More(f, Sofar(f \o <<<<name, long>>>>, p, w, e, k))
    BY <2>2, MoreIs
  <2> QED BY <2>1, <2>3
<1>13. CASE out = [r EXCEPT !.ok = no]
  <2>1. out = Sofar(f \o <<>>, p, w, e, no)
    BY <1>0, <1>13, <1>u
  <2>3. More(f, Sofar(f \o <<>>, p, w, e, no))
    BY <1>0, MoreIs
  <2> QED BY <2>1, <2>3
<1>14. CASE name \in t.valued /\ out = [r EXCEPT !.pending = name]
  <2>1. out = Sofar(f \o <<>>, p, name, e, k)
    BY <1>0, <1>14, <1>u
  <2>2. name \in Names
    BY <1>3, <1>14
  <2>3. More(f, Sofar(f \o <<>>, p, name, e, k))
    BY <1>0, <2>2, MoreIs
  <2> QED BY <2>1, <2>3
<1>15. CASE name \in t.valued /\ out = Got(r, <<<<name, Tail(a)>>>>)
  <2>1. out = Sofar(f \o <<<<name, Tail(a)>>>>, p, w, e, k)
    BY <1>15, <1>u
  <2>2. <<<<name, Tail(a)>>>> \in Seq(Pairs)
    BY <1>2, <1>3, <1>15, SeqOne
  <2>3. More(f, Sofar(f \o <<<<name, Tail(a)>>>>, p, w, e, k))
    BY <2>2, MoreIs
  <2> QED BY <2>1, <2>3
<1> QED BY <1>7, <1>8, <1>9, <1>10, <1>11, <1>12, <1>13, <1>14, <1>15 DEF t, r, out

\* And so does any number of them.
LEMMA ReadingMore ==
    ASSUME NEW v \in Readers, NEW s, NEW f, Clear(v, s, f, <<>>)
    PROVE  \A q \in Seq(Given) : More(f, Reading(v, {}, s \o q))
<1> DEFINE T == {q \in Seq(Given) : More(f, Reading(v, {}, s \o q))}
           t == ReadingTable(v, {})
<1>0. /\ s \in Seq(Emitted) /\ f \in Seq(Pairs) /\ <<>> \in Seq(Pairs)
      /\ s \o <<>> = s /\ f \o <<>> = f /\ Given \subseteq Emitted
  <2>1. s \in Seq(Emitted) /\ f \in Seq(Pairs)
    BY DEF Clear
  <2>2. s \o <<>> = s
    BY <2>1, ConcatEmptySeq
  <2>3. f \o <<>> = f
    BY <2>1, ConcatEmptySeq
  <2>4. Given \subseteq Emitted
    BY DEF Emitted, ValuesGiven
  <2> QED BY <2>1, <2>2, <2>3, <2>4, EmptySeq
<1>1. <<>> \in T
  <2> DEFINE k == TRUE
             n == None
             none == <<>>
             o == Open
             r == Reading(v, {}, s \o none)
  <2>1. r = Reader(f, none, n, o)
    BY <1>0 DEF Clear
  <2>2. Reader(f, none, n, o) = Sofar(f, none, n, o, k)
    BY Zenon DEF Reader, Sofar
  <2>3. n \in Names
    BY DEF Names, None
  <2>4. none \in Seq(Pairs) /\ f \o none = f /\ none \in Seq(Given)
    BY <1>0, EmptySeq
  <2> HIDE DEF k, n, o, r, none
  <2>5. More(f, Sofar(f \o none, none, n, o, k))
    BY <2>3, <2>4, MoreIs
  <2>6. More(f, r)
    BY <2>1, <2>2, <2>4, <2>5
  <2> QED BY <2>4, <2>6 DEF r, none
<1> HIDE DEF t
<1>2. ASSUME NEW q \in Seq(Given), NEW a \in Given, q \in T PROVE Append(q, a) \in T
  <2>1. q \in Seq(Emitted) /\ s \o q \in Seq(Emitted) /\ a \in Emitted /\ Append(q, a) \in Seq(Given)
    <3>1. q \in Seq(Emitted) /\ a \in Emitted
      BY <1>0, SeqSubset
    <3> QED BY <1>0, <3>1, ConcatProperties, AppendProperties
  <2>2. s \o Append(q, a) = Append(s \o q, a)
    BY <1>0, <2>1
  <2>3. More(f, Reading(v, {}, s \o q))
    BY <1>2
  <2> DEFINE y == s \o q
             r == Reading(v, {}, y)
             out == Reads(v, t, r, a)
  <2>4. PICK g \in Seq(Pairs), w \in Names : \E p, e, k : r = Sofar(f \o g, p, w, e, k)
    BY <2>3, Zenon DEF More
  <2>5. PICK p, e, k : r = Sofar(f \o g, p, w, e, k)
    BY <2>4
  <2> DEFINE fg == f \o g
  <2>6. fg \in Seq(Pairs)
    BY <1>0, ConcatProperties
  <2> HIDE DEF y, r, fg
  <2>7. Reading(v, {}, Append(y, a)) = Reads(v, t, r, a)
    <3>1. y \in Seq(Emitted)
      BY <2>1 DEF y
    <3> QED BY <2>1, <3>1, ReadingGrows DEF t, r
  <2>8. More(fg, Reads(v, t, Sofar(fg, p, w, e, k), a))
    BY <2>6, ReadsMore DEF t
  <2>9. r = Sofar(fg, p, w, e, k)
    BY <2>5 DEF fg
  <2>10. More(fg, Reads(v, t, r, a))
    BY <2>8, <2>9
  <2> HIDE DEF out
  <2>11. PICK d \in Seq(Pairs), x \in Names : \E p1, e1, k1 : out = Sofar(fg \o d, p1, x, e1, k1)
    <3>1. More(fg, out)
      BY <2>10 DEF out
    <3> QED BY <3>1, Zenon DEF More
  <2>12. PICK p1, e1, k1 : out = Sofar(fg \o d, p1, x, e1, k1)
    BY <2>11
  <2>13. fg \o d = f \o (g \o d) /\ g \o d \in Seq(Pairs)
    <3>1. (f \o g) \o d = f \o (g \o d) /\ g \o d \in Seq(Pairs)
      BY <1>0, Assoc
    <3> QED BY <3>1 DEF fg
  <2> DEFINE gd == g \o d
  <2>14. More(f, Sofar(f \o gd, p1, x, e1, k1))
    <3>1. gd \in Seq(Pairs)
      BY <2>13
    <3> HIDE DEF gd
    <3> QED BY <3>1, MoreIs
  <2>15. More(f, out)
    BY <2>12, <2>13, <2>14
  <2>16. More(f, Reading(v, {}, s \o Append(q, a)))
    BY <2>2, <2>7, <2>15 DEF out, y
  <2> QED BY <2>1, <2>16
<1> HIDE DEF T
<1>3. \A q \in Seq(Given) : q \in T
  BY <1>1, <1>2, SeqSetInduction
<1> QED BY <1>3 DEF T

(* The first filter of a ps is the managed label. *)
LEMMA PsOwned ==
    ASSUME "ps" \in DOMAIN Arguments, pos \in Seq(Given)
    PROVE  ValuesIn(Reading("ps", {}, PsArgs).flags, "--filter")[1] = ManagedFilter
<1> DEFINE a1 == <<<<"-a">>>>
           a2 == <<<<"--filter">>, ManagedFilter>>
           f1 == <<<<"--all", Yes>>>>
           f2 == <<<<"--filter", ManagedFilter>>>>
<1>0. /\ "ps" \in Readers
      /\ PodmanTable("ps").switch = {"--all", "--quiet"}
      /\ PodmanTable("ps").valued = {"--filter", "--format"}
      /\ DOMAIN PodmanTable("ps").short = {"-a", "-q", "-f"}
      /\ PodmanTable("ps").short["-a"] = "--all"
  BY DEF Readers, PodmanTable, Table
<1>1. SwitchWord("ps", "-a", "--all")
  BY <1>0, ShortWord
<1>2. FlagWord("ps", "--filter", "--filter")
  BY <1>0, LongWord
<1>3. ManagedFilter \in Emitted /\ Yes \in Emitted /\ "--all" \in Names /\ "--filter" \in Names
  BY <1>1, <1>2, EmptyEmitted DEF SwitchWord, FlagWord
<1>4. Says("ps", a1, f1) /\ Says("ps", a2, f2)
  BY <1>1, <1>2, <1>3, SaysASwitch, SaysAFlag
<1>5. /\ f1 \in Seq(Pairs) /\ f2 \in Seq(Pairs)
      /\ ValuesIn(f1, "--filter") = <<>> /\ ValuesIn(f2, "--filter") = <<ManagedFilter>>
  BY <1>3, ValuesInOnePair
<1>6. PsArgs = a1 \o a2 \o pos
  <2> DEFINE x == <<"-a">>
             y == <<"--filter">>
             z == ManagedFilter
             p == <<x>>
             q == <<y, z>>
             r == <<x, y, z>>
  <2>0. x \in Emitted /\ y \in Emitted /\ z \in Emitted
    BY <1>1, <1>2, <1>3, WordsEmitted DEF SwitchWord, FlagWord
  <2> HIDE DEF x, y, z
  <2>1. /\ p \in Seq(Emitted) /\ q \in Seq(Emitted) /\ r \in Seq(Emitted)
        /\ Len(p) = 1 /\ Len(q) = 2 /\ Len(r) = 3
    BY <2>0
  <2>2. p[1] = x /\ q[1] = y /\ q[2] = z /\ r[1] = x /\ r[2] = y /\ r[3] = z
    OBVIOUS
  <2> HIDE DEF p, q, r
  <2>3. /\ p \o q \in Seq(Emitted) /\ Len(p \o q) = Len(p) + Len(q)
        /\ \A i \in 1 .. Len(p) + Len(q) :
             (p \o q)[i] = IF i <= Len(p) THEN p[i] ELSE q[i - Len(p)]
    BY <2>1, ConcatProperties
  <2>4. Len(p \o q) = 3 /\ \A i \in 1 .. 3 : (p \o q)[i] = r[i]
    BY <2>1, <2>2, <2>3
  <2>5. p \o q = r
    BY <2>1, <2>3, <2>4, SeqEqual
  <2> QED BY <2>5 DEF PsArgs, p, q, r, x, y, z
<1> HIDE DEF a1, a2, f1, f2
<1>7. Clear("ps", a1 \o a2, f1 \o f2, <<>>)
  BY <1>4, SaysConcat, SaysAll
<1> DEFINE a == a1 \o a2
           f == f1 \o f2
           M == ManagedFilter
           r == Reading("ps", {}, PsArgs)
<1>8. ValuesIn(f, "--filter") = <<M>> /\ f \in Seq(Pairs)
  <2>1. ValuesIn(f1 \o f2, "--filter") = ValuesIn(f1, "--filter") \o ValuesIn(f2, "--filter")
        /\ f1 \o f2 \in Seq(Pairs)
    BY <1>5, ValuesInConcat, ConcatProperties
  <2>2. <<>> \o <<M>> = <<M>>
    BY <1>3, ConcatEmptySeq
  <2> QED BY <1>5, <2>1, <2>2
<1> HIDE DEF a, f, M
<1>9. More(f, r)
  <2>1. Clear("ps", a, f, <<>>)
    BY <1>7 DEF a, f
  <2>2. More(f, Reading("ps", {}, a \o pos))
    BY <1>0, <2>1, ReadingMore
  <2> QED BY <1>6, <2>2 DEF a
<1> HIDE DEF r
<1>10. PICK g \in Seq(Pairs), w \in Names : \E p, e, k : r = Sofar(f \o g, p, w, e, k)
  BY <1>9, Zenon DEF More
<1>11. PICK p, e, k : r = Sofar(f \o g, p, w, e, k)
  BY <1>10
<1>12. r.flags = f \o g
  BY <1>11 DEF Sofar
<1>13. ValuesIn(f \o g, "--filter") = <<M>> \o ValuesIn(g, "--filter")
       /\ ValuesIn(g, "--filter") \in Seq(Emitted)
  BY <1>8, ValuesInConcat
<1> DEFINE u == ValuesIn(g, "--filter")
           m == <<M>>
<1>14. m \in Seq(Emitted) /\ Len(m) = 1 /\ m[1] = M
  BY <1>3 DEF M
<1>15. u \in Seq(Emitted) /\ ValuesIn(r.flags, "--filter") = m \o u
  BY <1>12, <1>13
<1> HIDE DEF u, m
<1>16. (m \o u)[1] = M
  <2>1. (m \o u)[1] = m[1]
    <3>1. \A i \in 1 .. Len(m) + Len(u) :
            (m \o u)[i] = IF i <= Len(m) THEN m[i] ELSE u[i - Len(m)]
      BY <1>14, <1>15, ConcatProperties
    <3>2. Len(u) \in Nat
      BY <1>15
    <3> QED BY <1>14, <3>1, <3>2
  <2> QED BY <1>14, <2>1
<1> QED BY <1>15, <1>16 DEF M, r

-----------------------------------------------------------------------------
(* What the scan has at any time. *)
Parsers == {"run", "start", "exec", "commit", "inspect"}
No == <<"false">>
ParsedAs(v) ==
    {f \in Names \X ValuesGiven :
       \/ v = "inspect" /\ f[1] = None
       \/ f[1] \in TableOf(v).valued
       \/ f[1] \in TableOf(v).switch /\ (f[2] = Yes \/ (f[1] = "--pause" /\ f[2] = No))}

ScanInv ==
    /\ verb \in DOMAIN Arguments
    /\ argv \in Seq(Given) /\ pos \in Seq(Given) /\ ended \in BOOLEAN
    /\ verb \in Parsers =>
         pending \in TableOf(verb).valued \union {None} /\ flags \in Seq(ParsedAs(verb))
    /\ phase \in {"parsed", "dispatched", "handed"} => Accepted

\* The names of netcage's tables are names of podman's flags.
LEMMA TableNames ==
    ASSUME NEW v \in Parsers
    PROVE  /\ TableOf(v).valued \union TableOf(v).switch \subseteq Names \ {None}
           /\ TableOf(v).valued \intersect TableOf(v).switch = {}
<1>1. \A u \in Readers : Words(PodmanTable(u)) \subseteq Names
  BY DEF Names
<1>2. CASE v \in {"run", "start"}
  <2>1. TableOf(v) = RunTable /\ "run" \in Readers
    BY <1>2 DEF TableOf, JailVerbs, Readers
  <2>2. (RunValued \ {"--proxy", "--allow"}) \union RunTable.switch \subseteq Words(PodmanTable("run"))
    BY <2>1, RunTableIs, TableIs, RunTableHas DEF Words
  <2>3. {"--proxy", "--allow"} \subseteq Names
    BY DEF Names
  <2>4. RunTable.valued \union RunTable.switch \subseteq Names
    BY <1>1, <2>1, <2>2, <2>3, RunTableHas
  <2>5. None \notin RunTable.valued \union RunTable.switch
        /\ RunTable.valued \intersect RunTable.switch = {}
    BY RunTableHas DEF RunValued, passThroughValueFlags, None
  <2> QED BY <2>1, <2>4, <2>5
<1>3. CASE v \in {"exec", "commit"}
  <2>1. v \in Readers /\ PodmanTable(v) = TableOf(v)
    BY <1>3 DEF Readers, PodmanTable
  <2>2. TableOf(v).valued \union TableOf(v).switch \subseteq Words(PodmanTable(v))
    BY <2>1 DEF Words
  <2>3. /\ None \notin TableOf(v).valued \union TableOf(v).switch
        /\ TableOf(v).valued \intersect TableOf(v).switch = {}
    BY <1>3 DEF TableOf, Table, JailVerbs, None
  <2> QED BY <1>1, <2>1, <2>2, <2>3
<1>4. CASE v = "inspect"
  <2>1. "inspect" \in Readers
    BY DEF Readers
  <2>2. /\ TableOf(v).valued = {"--format", "--type"} /\ TableOf(v).switch = {}
        /\ PodmanTable(v).valued = {"--format", "--type"}
    BY <1>4 DEF TableOf, Table, JailVerbs, PodmanTable
  <2>3. TableOf(v).valued \union TableOf(v).switch \subseteq Words(PodmanTable(v))
    BY <2>2 DEF Words
  <2> QED BY <1>1, <1>4, <2>1, <2>2, <2>3 DEF None
<1> QED BY <1>2, <1>3, <1>4 DEF Parsers

\* Nothing is scanned in the beginning.
LEMMA ScanInit == Init => ScanInv
<1> SUFFICES ASSUME Init PROVE ScanInv
  OBVIOUS
<1>1. <<>> \in Seq(Given) /\ <<>> \in Seq(ParsedAs(verb))
  BY EmptySeq
<1>2. /\ verb \in DOMAIN Arguments
      /\ argv = <<>> /\ pos = <<>> /\ flags = <<>> /\ pending = None /\ phase = "scan"
  BY Zenon DEF Init, None
<1>3. ended \in BOOLEAN
  <2>1. ended = (verb \in RawVerbs)
    BY Zenon DEF Init
  <2>2. CASE verb \in RawVerbs
    BY <2>1, <2>2, Zenon
  <2>3. CASE verb \notin RawVerbs
    <3> DEFINE raw == verb \in RawVerbs
    <3>1. ended = raw /\ ~raw
      BY <2>1, <2>3, Zenon
    <3> HIDE DEF raw
    <3>2. ended = FALSE
      BY <3>1
    <3> QED BY <3>2
  <2> QED BY <2>2, <2>3, Zenon
<1> QED BY <1>1, <1>2, <1>3 DEF ScanInv

\* An accepted line stays accepted while it is not touched.
LEMMA AcceptedStays == Accepted /\ UNCHANGED scanned => Accepted'
BY DEF Accepted, scanned, CreatesNothing, On, Value, Values, PassThroughFlags, PortSpec

(* One more argument. *)

\* What an argument of a user is made of.
LEMMA GivenIs ==
    ASSUME ScanInv, NEW a \in Arguments[verb]
    PROVE  /\ a \in Given /\ a \in ValuesGiven /\ Tail(a) \in ValuesGiven
           /\ Yes \in ValuesGiven /\ No \in ValuesGiven
           /\ Len(a) \in Nat \ {0}
<1>1. a \in Given
  BY DEF Given, ScanInv
<1>2. a \in Seq(STRING) /\ a # <<>>
  BY CommandAssumption DEF CommandAssumption, ScanInv
<1>3. a \in ValuesGiven /\ Yes \in ValuesGiven /\ No \in ValuesGiven
  BY <1>1 DEF ValuesGiven, No
<1>4. Tail(a) \in ValuesGiven
  <2>1. Tail(a) \in {Tail(b) : b \in Given}
    BY <1>1, Zenon
  <2> QED BY <2>1 DEF ValuesGiven
<1>5. Len(a) \in Nat \ {0}
  BY <1>2, EmptySeq
<1> QED BY <1>1, <1>3, <1>4, <1>5

\* What the scan makes of a flag is one of the pairs of the verb.
LEMMA NewFlag ==
    ASSUME NEW v \in Parsers, NEW n, NEW x \in ValuesGiven,
           \/ n \in TableOf(v).valued
           \/ n \in TableOf(v).switch /\ (x = Yes \/ (n = "--pause" /\ x = No))
           \/ v = "inspect" /\ n = None
    PROVE  <<n, x>> \in ParsedAs(v)
<1>1. n \in Names
  <2>1. None \in Names
    BY DEF Names, None
  <2> QED BY <2>1, TableNames
<1> DEFINE f == <<n, x>>
<1>2. f \in Names \X ValuesGiven /\ f[1] = n /\ f[2] = x
  BY <1>1, PairTyped
<1> HIDE DEF f
<1>3. f \in ParsedAs(v)
  BY <1>2 DEF ParsedAs
<1> QED BY <1>3 DEF f

\* Every step of the command keeps the invariant of the scan.
LEMMA ScanStep == ScanInv /\ CommandSteps => ScanInv'
<1> SUFFICES ASSUME ScanInv, CommandSteps PROVE ScanInv'
  OBVIOUS
<1>1. CASE Scan
  <2>1. PICK a \in Arguments[verb] :
          /\ argv' = Append(argv, a)
          /\ \/ ScanValue(a) \/ ScanPositional(a) \/ ScanMarker(a) \/ ScanSwitch(a)
             \/ ScanValued(a) \/ ScanVerbatim(a) \/ ScanRefused(a)
    BY <1>1, Zenon DEF Scan
  <2>2. verb' = verb /\ phase = "scan"
    BY <1>1 DEF Scan
  <2>3. argv' \in Seq(Given) /\ Append(pos, a) \in Seq(Given)
    BY <2>1, GivenIs, AppendProperties DEF ScanInv
  <2>4. phase' \notin {"parsed", "dispatched", "handed"}
    BY <2>1, <2>2 DEF ScanValue, ScanPositional, ScanMarker, ScanSwitch, ScanValued, ScanVerbatim,
       ScanRefused, Stay, Usage, Exit
  <2>5. pos' \in Seq(Given) /\ ended' \in BOOLEAN
    BY <2>1, <2>3 DEF ScanInv, ScanValue, ScanPositional, ScanMarker, ScanSwitch, ScanValued,
       ScanVerbatim, ScanRefused
  <2>6. ASSUME verb \in Parsers
        PROVE  pending' \in TableOf(verb).valued \union {None} /\ flags' \in Seq(ParsedAs(verb))
    <3> DEFINE P == ParsedAs(verb)
               n == LongName(TableOf(verb), a)
    <3>0. flags \in Seq(P) /\ pending \in TableOf(verb).valued \union {None}
      BY <2>6 DEF ScanInv
    <3>1. \A f \in P : flags \o <<f>> \in Seq(P)
      BY <3>0, OneMore
    <3>2. CASE ScanValue(a)
      <4> DEFINE f == <<pending, a>>
      <4>1. f \in P
        <5>1. pending \in TableOf(verb).valued
          BY <3>0, <3>2 DEF ScanValue, None
        <5> QED BY <2>6, <5>1, GivenIs, NewFlag
      <4>2. flags' = flags \o <<f>> /\ pending' = None
        BY <3>2 DEF ScanValue, Note, None
      <4> HIDE DEF f, P
      <4>3. flags' \in Seq(P)
        BY <3>1, <4>1, <4>2
      <4> QED BY <4>2, <4>3 DEF P
    <3>3. CASE ScanPositional(a) \/ ScanMarker(a) \/ ScanRefused(a)
      BY <3>0, <3>3 DEF ScanPositional, ScanMarker, ScanRefused
    <3>4. CASE ScanSwitch(a)
      <4> DEFINE f == <<"--interactive", Yes>>
                 g == <<"--tty", Yes>>
                 h == <<"--pause", IF Tail(a) \in {Yes, <<"1">>} THEN Yes ELSE No>>
                 k == <<n, Yes>>
      <4>1. pending' = pending /\ flags' = flags \o Switched(a) /\ Switch(a)
        BY <3>4 DEF ScanSwitch, Note
      <4>2. CASE a[1] \in Bundles
        <5>1. "--tty" \in TableOf(verb).switch
          <6>1. n = a[1]
            <7>1. a[1] \notin DOMAIN TableOf(verb).short
              BY <2>6, <4>2 DEF Parsers, TableOf, Table, RunTable, Short, ExecShort, CommitShort,
                 InspectShort, JailVerbs, Bundles
            <7> QED BY <7>1 DEF LongName
          <6>2. a[1] \notin TableOf(verb).switch
            BY <2>6, <4>2 DEF Parsers, TableOf, Table, RunTable, JailVerbs, Bundles
          <6> QED BY <4>1, <6>1, <6>2 DEF Switch
        <5>2. "--interactive" \in TableOf(verb).switch
          BY <2>6, <5>1 DEF Parsers, TableOf, Table, RunTable, JailVerbs
        <5>3. f \in P /\ g \in P
          BY <2>6, <5>1, <5>2, GivenIs, NewFlag
        <5>4. Switched(a) = <<f, g>>
          BY <4>2 DEF Switched
        <5> HIDE DEF f, g, P
        <5>5. flags \o <<f, g>> \in Seq(P)
          BY <3>0, <5>3, OneMore
        <5> QED BY <3>0, <4>1, <5>4, <5>5 DEF P
      <4>3. CASE a[1] \notin Bundles
        <5>1. n \in TableOf(verb).switch
          BY <4>1, <4>3 DEF Switch
        <5>2. k \in P
          BY <2>6, <5>1, GivenIs, NewFlag
        <5>3. CASE a[1] = "--pause" /\ Len(a) > 1
          <6>1. a[1] \in TableOf(verb).switch
            BY <4>1, <5>3 DEF Switch
          <6>2. h \in P
            BY <2>6, <5>3, <6>1, GivenIs, NewFlag
          <6>3. Switched(a) = <<h>>
            BY <4>3, <5>3 DEF Switched, No
          <6> HIDE DEF h, P
          <6>4. flags \o <<h>> \in Seq(P)
            BY <3>1, <6>2
          <6> QED BY <3>0, <4>1, <6>3, <6>4 DEF P
        <5>4. CASE ~(a[1] = "--pause" /\ Len(a) > 1)
          <6>1. Switched(a) = <<k>>
            BY <4>3, <5>4 DEF Switched
          <6> HIDE DEF k, P
          <6>2. flags \o <<k>> \in Seq(P)
            BY <3>1, <5>2
          <6> QED BY <3>0, <4>1, <6>1, <6>2 DEF P
        <5> QED BY <5>3, <5>4
      <4> QED BY <4>2, <4>3
    <3>5. CASE ScanValued(a)
      <4> DEFINE f == <<n, Tail(a)>>
      <4>1. n \in TableOf(verb).valued
        BY <3>5 DEF ScanValued, Valued
      <4>2. f \in P
        BY <2>6, <4>1, GivenIs, NewFlag
      <4>3. \/ pending' = n /\ flags' = flags
            \/ pending' = pending /\ flags' = flags \o <<f>>
        BY <3>5 DEF ScanValued, Note
      <4> HIDE DEF f, n, P
      <4>4. flags \o <<f>> \in Seq(P)
        BY <3>1, <4>2
      <4> QED BY <3>0, <4>1, <4>3, <4>4 DEF P
    <3>6. CASE ScanVerbatim(a)
      <4> DEFINE f == <<None, a>>
      <4>1. verb = "inspect" /\ flags' = flags \o <<f>> /\ pending' = pending
        BY <3>6 DEF ScanVerbatim, Verbatim, Note, None
      <4>2. f \in P
        BY <2>6, <4>1, GivenIs, NewFlag
      <4> HIDE DEF f, P
      <4>3. flags \o <<f>> \in Seq(P)
        BY <3>1, <4>2
      <4> QED BY <3>0, <4>1, <4>3 DEF P
    <3> QED BY <2>1, <3>2, <3>3, <3>4, <3>5, <3>6
  <2> QED BY <2>2, <2>3, <2>4, <2>5, <2>6 DEF ScanInv
<1>2. CASE Parse \/ Preflight \/ Hand
  <2>1. UNCHANGED scanned
    BY <1>2 DEF Parse, Preflight, Hand
  <2>2. phase' \in {"parsed", "dispatched", "handed"} => Accepted
    BY <1>2 DEF Parse, Preflight, Hand, ScanInv, Exit, Usage
  <2>3. phase' \in {"parsed", "dispatched", "handed"} => Accepted'
    BY <2>1, <2>2, AcceptedStays
  <2> QED BY <2>1, <2>3 DEF ScanInv, scanned
<1> QED BY <1>1, <1>2 DEF CommandSteps

-----------------------------------------------------------------------------
(* What podman would make of the user's own line. *)
AsRun(v) == IF v = "start" THEN "run" ELSE v
Own(v) == IF v \in {"run", "start"} THEN {"--proxy", "--allow"} ELSE {}
UserTable(v) == ReadingTable(AsRun(v), Own(v))
UserRead == Reading(AsRun(verb), Own(verb), argv)

\* The table by which podman would read the user's own line.
LEMMA UserTableIs ==
    ASSUME NEW v \in Parsers
    PROVE  /\ UserTable(v).switch = PodmanTable(AsRun(v)).switch
           /\ UserTable(v).valued = PodmanTable(AsRun(v)).valued \union Own(v)
           /\ UserTable(v).short = PodmanTable(AsRun(v)).short
           /\ AsRun(v) \in Readers
<1>1. AsRun(v) \in Readers
  BY DEF Parsers, AsRun, Readers
<1> DEFINE u == AsRun(v)
           x == Own(v)
<1>2. \E s, w, h : PodmanTable(u) = Table(s, w, h)
  <2> HIDE DEF x
  <2>1. u \in Readers
    BY <1>1
  <2>2. CASE u = "exec"
    BY <2>2 DEF PodmanTable, TableOf, JailVerbs
  <2>3. CASE u = "commit"
    BY <2>3 DEF PodmanTable, TableOf, JailVerbs
  <2>4. CASE u \notin {"exec", "commit"}
    <3> HIDE DEF u
    <3> QED BY <2>1, <2>4, Zenon DEF PodmanTable, Readers
  <2> QED BY <2>2, <2>3, <2>4
<1>3. PICK s, w, h : PodmanTable(u) = [switch |-> s, valued |-> w, short |-> h]
  BY <1>2, Zenon DEF Table
<1> HIDE DEF u, x
<1>4. /\ ReadingTable(u, x).switch = PodmanTable(u).switch
      /\ ReadingTable(u, x).valued = PodmanTable(u).valued \union x
      /\ ReadingTable(u, x).short = PodmanTable(u).short
  BY <1>3 DEF ReadingTable
<1> QED BY <1>1, <1>4 DEF UserTable, u, x

(* podman knows netcage's flags by the names netcage has for them. *)
LEMMA TablesAgree ==
    ASSUME NEW v \in Parsers, NEW a, NEW n, n = LongName(TableOf(v), a),
           n \in TableOf(v).switch \union TableOf(v).valued
    PROVE  /\ LongName(UserTable(v), a) = n
           /\ n \in TableOf(v).switch => n \in UserTable(v).switch
           /\ n \in TableOf(v).valued => n \in UserTable(v).valued \ UserTable(v).switch
           /\ a[1] \notin Bundles /\ a[1] # "--"
<1> DEFINE t == TableOf(v)
           u == UserTable(v)
<1>1. CASE v \in {"run", "start"}
  <2>1. t = RunTable /\ AsRun(v) = "run" /\ Own(v) = {"--proxy", "--allow"} /\ "run" \in Readers
    BY <1>1 DEF TableOf, JailVerbs, AsRun, Own, Readers
  <2>2. /\ t.switch = {"--interactive", "--tty", "--rm", "--read-only"}
        /\ t.valued = RunValued /\ t.short = Short
    BY <2>1 DEF RunTable, Table
  <2>3. /\ u.switch = {"--interactive", "--tty", "--rm", "--read-only", "--privileged"}
        /\ u.valued = RunValued \union (denyReasons \ {"-p", "--privileged"})
        /\ DOMAIN u.short = DOMAIN Short \union {"-p"}
        /\ \A w \in DOMAIN Short \union {"-p"} : u.short[w] = IF w = "-p" THEN "--publish" ELSE Short[w]
    <3>1. /\ u.switch = PodmanTable("run").switch
          /\ u.valued = PodmanTable("run").valued \union {"--proxy", "--allow"}
          /\ u.short = PodmanTable("run").short
      BY <2>1, UserTableIs
    <3>2. {"--proxy", "--allow"} \subseteq RunValued
      BY DEF RunValued
    <3> QED BY <2>1, <3>1, <3>2, RunTableIs, TableIs
  <2> HIDE DEF t, u
  <2>4. a[1] \in DOMAIN Short => LongName(t, a) = Short[a[1]] /\ LongName(u, a) = Short[a[1]]
    <3>1. "-p" \notin DOMAIN Short
      BY DEF Short
    <3> QED BY <2>2, <2>3, <3>1 DEF LongName
  <2>5. a[1] \notin DOMAIN Short /\ a[1] # "-p" => LongName(t, a) = a[1] /\ LongName(u, a) = a[1]
    BY <2>2, <2>3 DEF LongName
  <2>6. a[1] = "-p" => LongName(t, a) = "-p"
    BY <2>2 DEF LongName, Short
  <2>7. "-p" \notin t.switch \union t.valued
    BY <2>2 DEF RunValued, passThroughValueFlags
  <2>8. LongName(u, a) = n /\ LongName(t, a) = n
    BY <2>4, <2>5, <2>6, <2>7 DEF t
  <2>9. t.switch \subseteq u.switch /\ t.valued \subseteq u.valued \ u.switch
    BY <2>2, <2>3 DEF RunValued, passThroughValueFlags
  <2>10. a[1] \notin Bundles /\ a[1] # "--"
    <3>1. Bundles \intersect (DOMAIN Short \union t.switch \union t.valued) = {}
          /\ "--" \notin DOMAIN Short \union t.switch \union t.valued
      BY <2>2 DEF Bundles, Short, RunValued, passThroughValueFlags
    <3>2. a[1] \in DOMAIN Short \/ a[1] = n
      BY <2>2, <2>8 DEF LongName
    <3> QED BY <3>1, <3>2 DEF t
  <2> QED BY <2>8, <2>9, <2>10 DEF t, u
<1>2. CASE v \in {"exec", "commit"}
  <2>1. AsRun(v) = v /\ Own(v) = {} /\ PodmanTable(v) = t
    BY <1>2 DEF AsRun, Own, PodmanTable
  <2>2. u.switch = t.switch /\ u.valued = t.valued /\ u.short = t.short
    BY <2>1, UserTableIs
  <2>3. /\ t.switch \intersect t.valued = {}
        /\ Bundles \intersect (DOMAIN t.short \union t.switch \union t.valued) = {}
        /\ "--" \notin DOMAIN t.short \union t.switch \union t.valued
    BY <1>2 DEF TableOf, Table, JailVerbs, Bundles, ExecShort, CommitShort
  <2>4. a[1] \in DOMAIN t.short \/ a[1] = n
    BY DEF LongName
  <2>5. LongName(u, a) = n
    BY <2>2 DEF LongName
  <2> HIDE DEF t, u
  <2>6. n \in t.switch \union t.valued
    BY DEF t
  <2> QED BY <2>2, <2>3, <2>4, <2>5, <2>6 DEF t, u
<1>3. CASE v = "inspect"
  <2>1. AsRun(v) = v /\ Own(v) = {}
    BY <1>3 DEF AsRun, Own
  <2>2. /\ t.switch = {} /\ t.valued = {"--format", "--type"} /\ t.short = InspectShort
    BY <1>3 DEF TableOf, Table, JailVerbs
  <2>3. /\ u.switch = {"--size"} /\ u.valued = {"--format", "--type"}
        /\ DOMAIN u.short = DOMAIN InspectShort \union {"-s"}
        /\ \A w \in DOMAIN InspectShort \union {"-s"} :
             u.short[w] = IF w = "-s" THEN "--size" ELSE InspectShort[w]
    <3>1. /\ PodmanTable(v).switch = {"--size"} /\ PodmanTable(v).valued = {"--format", "--type"}
          /\ PodmanTable(v).short = [w \in DOMAIN InspectShort \union {"-s"} |->
                                       IF w = "-s" THEN "--size" ELSE InspectShort[w]]
      BY <1>3 DEF PodmanTable, Table
    <3> QED BY <2>1, <3>1, UserTableIs
  <2> HIDE DEF t, u
  <2>4. n = LongName(t, a)
    BY DEF t
  <2>5. "-s" \notin DOMAIN InspectShort /\ "-s" \notin t.switch \union t.valued
    BY <2>2 DEF InspectShort
  <2>6. n \in t.valued
    BY <2>2 DEF t
  <2>7. a[1] # "-s"
    BY <2>2, <2>4, <2>5, <2>6 DEF LongName
  <2>8. LongName(u, a) = n
    BY <2>2, <2>3, <2>4, <2>7 DEF LongName
  <2>9. a[1] \in DOMAIN InspectShort \/ a[1] \in {"--format", "--type"}
    BY <2>2, <2>4, <2>6 DEF LongName
  <2>10. a[1] \notin Bundles /\ a[1] # "--"
    BY <2>9 DEF Bundles, InspectShort
  <2> QED BY <2>2, <2>3, <2>6, <2>8, <2>10 DEF t, u
<1> QED BY <1>1, <1>2, <1>3 DEF Parsers

(* What netcage takes of a flag podman would read. *)
Heed(v, f) ==
    IF f[1] \in TableOf(v).switch
    THEN <<f[1], IF f[1] # "--pause" \/ f[2] \in {Yes, <<"1">>} THEN Yes ELSE No>>
    ELSE f
HeedMap(v) == [f \in Pairs |-> <<Heed(v, f)>>]

\* What netcage takes of a pair is a pair.
LEMMA HeedTyped == ASSUME NEW v, NEW f \in Pairs PROVE Heed(v, f) \in Pairs
<1>1. Yes \in Emitted /\ No \in Emitted
  <2>1. No \in ValuesGiven
    BY DEF No, ValuesGiven
  <2> QED BY <2>1, WordsEmitted, GivenPairs
<1>2. \A n \in Names, x \in Emitted : <<n, x>> \in Pairs
  BY PairTyped, Zenon DEF Pairs
<1>3. f[1] \in Names
  BY DEF Pairs
<1> DEFINE x == IF f[1] # "--pause" \/ f[2] \in {Yes, <<"1">>} THEN Yes ELSE No
<1>4. x \in Emitted
  BY <1>1
<1> HIDE DEF x
<1>5. <<f[1], x>> \in Pairs
  BY <1>2, <1>3, <1>4
<1> QED BY <1>5 DEF Heed, x

\* The laws of FlatMap, for what netcage takes of a line.
LEMMA HeedLaws == ASSUME NEW v PROVE FlatMapLaws(HeedMap(v), Pairs, Pairs)
<1>1. \A f \in Pairs : <<Heed(v, f)>> \in Seq(Pairs)
  BY HeedTyped
<1>2. HeedMap(v) \in [Pairs -> Seq(Pairs)]
  BY <1>1 DEF HeedMap
<1>3. Maps(HeedMap(v), Pairs, Pairs)
  BY <1>2, PairsExist, Zenon DEF Maps
<1> QED BY <1>3, FlatMapConcat

Heeds(v, s) == FlatMap(HeedMap(v), s)

\* One more flag is one more that netcage takes.
LEMMA OneHeeded ==
    ASSUME NEW v, NEW s \in Seq(Pairs), NEW f \in Pairs
    PROVE  /\ s \o <<f>> \in Seq(Pairs) /\ Heeds(v, s) \in Seq(Pairs)
           /\ Heeds(v, <<>>) = <<>>
           /\ Heeds(v, s \o <<f>>) = Heeds(v, s) \o <<Heed(v, f)>>
<1>1. Append(s, f) = s \o <<f>> /\ s \o <<f>> \in Seq(Pairs)
  BY OneMore
<1>2. /\ FlatMap(HeedMap(v), s) \in Seq(Pairs) /\ FlatMap(HeedMap(v), <<>>) = <<>>
      /\ FlatMap(HeedMap(v), Append(s, f)) = FlatMap(HeedMap(v), s) \o HeedMap(v)[f]
  BY HeedLaws DEF FlatMapLaws
<1>3. HeedMap(v)[f] = <<Heed(v, f)>>
  BY Zenon DEF HeedMap
<1> QED BY <1>1, <1>2, <1>3 DEF Heeds

-----------------------------------------------------------------------------
(* netcage has understood a line as podman would. *)
Plain == {"run", "start", "exec", "commit"}
Agrees(v, u, f, p, w, e, g) ==
    /\ g \in Seq(Pairs) /\ u = Reader(g, p, w, e) /\ f = Heeds(v, g)
    /\ v \in {"run", "start"} => f = g
Understood(v, u, f, p, w, e) == \E g : Agrees(v, u, f, p, w, e, g)

UserNext(a) == Reads(AsRun(verb), UserTable(verb), UserRead, a)

\* Agreement on some reading is understanding.
LEMMA UnderstoodIs ==
    ASSUME NEW v, NEW u, NEW f, NEW p, NEW w, NEW e, NEW g, Agrees(v, u, f, p, w, e, g)
    PROVE  Understood(v, u, f, p, w, e)
BY Zenon DEF Understood

\* A flag that both read keeps the agreement.
LEMMA AgreesMore ==
    ASSUME NEW v, NEW u, NEW f, NEW p, NEW w, NEW e, NEW g, Agrees(v, u, f, p, w, e, g),
           NEW x \in Pairs, NEW y, NEW p1, NEW w1, NEW e1,
           y = Reader(g \o <<x>>, p1, w1, e1), v \in {"run", "start"} => Heed(v, x) = x
    PROVE  Agrees(v, y, f \o <<Heed(v, x)>>, p1, w1, e1, g \o <<x>>)
<1>1. /\ g \o <<x>> \in Seq(Pairs)
      /\ Heeds(v, g \o <<x>>) = Heeds(v, g) \o <<Heed(v, x)>>
  BY OneHeeded DEF Agrees
<1> QED BY <1>1 DEF Agrees

(* A value that was waited for. *)
LEMMA UserValue ==
    ASSUME ScanInv, verb \in Plain, NEW a \in Arguments[verb], ScanValue(a),
           NEW g, Agrees(verb, UserRead, flags, pos, pending, ended, g)
    PROVE  Agrees(verb, UserNext(a), flags', pos', pending', ended', g \o <<<<pending, a>>>>)
<1>0. verb \in Parsers
  BY DEF Plain, Parsers
<1>1. /\ pending # None /\ flags' = flags \o <<<<pending, a>>>> /\ pending' = None
      /\ pos' = pos /\ ended' = ended /\ ended \in BOOLEAN
  BY DEF ScanValue, Note, None, ScanInv
<1> DEFINE x == <<pending, a>>
           v == verb
           u == AsRun(verb)
           t == UserTable(verb)
<1>2. x \in Pairs
  <2>1. pending \in Names
    BY <1>0, <1>1, TableNames DEF ScanInv
  <2>2. a \in Emitted
    BY GivenIs, GivenPairs
  <2> QED BY <2>1, <2>2, PairTyped, Zenon DEF Pairs
<1>3. pending \in TableOf(verb).valued /\ pending \notin TableOf(verb).switch
  BY <1>0, <1>1, TableNames DEF ScanInv
<1>4. Heed(verb, x) = x
  BY <1>3 DEF Heed
<1>5. Reads(u, t, Reader(g, pos, pending, ended), a) = Reader(g \o <<<<pending, a>>>>, pos, None, ended)
  <2> HIDE DEF u, t
  <2> QED BY <1>1, ReadsValue
<1> DEFINE y == UserNext(a)
<1>6. y = Reader(g \o <<x>>, pos, None, ended)
  BY <1>5 DEF UserNext, Agrees
<1> HIDE DEF x, y, u, t
<1>7. Agrees(verb, y, flags \o <<Heed(verb, x)>>, pos, None, ended, g \o <<x>>)
  BY <1>2, <1>4, <1>6, AgreesMore
<1> QED BY <1>1, <1>4, <1>7 DEF x, y

\* A positional argument.
LEMMA UserPositional ==
    ASSUME ScanInv, verb \in Plain, NEW a \in Arguments[verb], ScanPositional(a),
           NEW g, Agrees(verb, UserRead, flags, pos, pending, ended, g)
    PROVE  Agrees(verb, UserNext(a), flags', pos', pending', ended', g)
<1>1. /\ pending = None /\ (ended \/ ~Dashed(a)) /\ ended \in BOOLEAN
      /\ flags' = flags /\ pending' = pending /\ pos' = Append(pos, a)
      /\ ended' = (ended \/ EndsFlags(verb))
  BY DEF ScanPositional, None, ScanInv
<1> DEFINE u == AsRun(verb)
           t == UserTable(verb)
<1>2. Reads(u, t, Reader(g, pos, None, ended), a) =
        Reader(g, Append(pos, a), None, ended \/ u \in {"run", "exec"})
  <2> HIDE DEF u, t
  <2> QED BY <1>1, ReadsPositional
<1>3. EndsFlags(verb) <=> u \in {"run", "exec"}
  BY DEF EndsFlags, Mixed, AsRun, Plain
<1>4. (ended \/ EndsFlags(verb)) = (ended \/ u \in {"run", "exec"})
  BY <1>3
<1>5. UserNext(a) = Reader(g, pos', None, ended')
  <2>1. UserNext(a) = Reader(g, Append(pos, a), None, ended \/ u \in {"run", "exec"})
    BY <1>1, <1>2 DEF UserNext, Agrees
  <2> HIDE DEF u
  <2> QED BY <1>1, <1>4, <2>1
<1> QED BY <1>1, <1>5 DEF Agrees

\* The marker that ends the flags.
LEMMA UserMarker ==
    ASSUME ScanInv, verb \in Plain, NEW a \in Arguments[verb], ScanMarker(a),
           NEW g, Agrees(verb, UserRead, flags, pos, pending, ended, g)
    PROVE  Agrees(verb, UserNext(a), flags', pos', pending', ended', g)
<1>1. /\ pending = None /\ ended = Open /\ ended' = Over /\ a = <<"--">>
      /\ flags' = flags /\ pending' = pending /\ pos' = pos
  BY DEF ScanMarker, AtFlag, Marker, None, ScanInv, Open, Over
<1> DEFINE u == AsRun(verb)
           t == UserTable(verb)
<1>2. Reads(u, t, Reader(g, pos, None, Open), a) = Reader(g, pos, None, Over)
  <2> HIDE DEF u, t
  <2> QED BY <1>1, ReadsMarker
<1> QED BY <1>1, <1>2 DEF UserNext, Agrees

\* Two elements more are one more, twice.
LEMMA TwoMore ==
    ASSUME NEW S, NEW s \in Seq(S), NEW x \in S, NEW y \in S
    PROVE  s \o <<x, y>> = (s \o <<x>>) \o <<y>>
<1>1. s \o <<x>> = Append(s, x) /\ s \o <<x>> \in Seq(S) /\ s \o <<x, y>> = Append(Append(s, x), y)
  BY OneMore
<1> DEFINE u == s \o <<x>>
<1> HIDE DEF u
<1>2. u \in Seq(S)
  BY <1>1 DEF u
<1>3. u \o <<y>> = Append(u, y)
  BY <1>2, OneMore
<1> QED BY <1>1, <1>3 DEF u

\* The two switches in one word.
LEMMA UserBundle ==
    ASSUME ScanInv, verb \in Plain, NEW a \in Arguments[verb], ScanSwitch(a), a[1] \in Bundles,
           NEW g, Agrees(verb, UserRead, flags, pos, pending, ended, g)
    PROVE  Understood(verb, UserNext(a), flags', pos', pending', ended')
<1> DEFINE x == <<"--interactive", Yes>>
           y == <<"--tty", Yes>>
           u == AsRun(verb)
           t == UserTable(verb)
           long == LongName(TableOf(verb), a)
<1>0. verb \in Parsers
  BY DEF Plain, Parsers
<1>1. /\ pending = None /\ ended = Open /\ Dashed(a) /\ Switch(a)
      /\ flags' = flags \o Switched(a) /\ pending' = pending /\ pos' = pos /\ ended' = ended
  BY DEF ScanSwitch, AtFlag, None, ScanInv, Open, Note
<1>2. Switched(a) = <<x, y>> /\ a # <<"--">>
  BY DEF Switched, Bundles
<1>3. "--tty" \in TableOf(verb).switch
  <2>1. long = a[1]
    <3>1. a[1] \notin DOMAIN TableOf(verb).short
      BY DEF Plain, TableOf, Table, RunTable, Short, ExecShort, CommitShort, JailVerbs, Bundles
    <3> QED BY <3>1 DEF LongName
  <2>2. a[1] \notin TableOf(verb).switch
    BY DEF Plain, TableOf, Table, RunTable, JailVerbs, Bundles
  <2> QED BY <1>1, <2>1, <2>2 DEF Switch
<1>4. "--interactive" \in TableOf(verb).switch
  BY <1>3 DEF Plain, TableOf, Table, RunTable, JailVerbs
<1>5. x \in Pairs /\ y \in Pairs
  <2>1. "--interactive" \in Names /\ "--tty" \in Names /\ Yes \in Emitted
    BY <1>0, <1>3, <1>4, TableNames, WordsEmitted
  <2> QED BY <2>1, PairTyped, Zenon DEF Pairs
<1>6. Heed(verb, x) = x /\ Heed(verb, y) = y
  BY DEF Heed
<1>7. UserNext(a) = Reader(g \o <<x, y>>, pos, None, Open)
  <2>1. Reads(u, t, Reader(g, pos, None, Open), a) = Reader(g \o <<x, y>>, pos, None, Open)
    <3> HIDE DEF u, t
    <3>1. a[1] \in Bundles /\ Dashed(a) /\ a # <<"--">>
      BY <1>1, <1>2
    <3>2. Reads(u, t, Reader(g, pos, None, Open), a) =
            Reader(g \o <<<<"--interactive", Yes>>, <<"--tty", Yes>>>>, pos, None, Open)
      BY <3>1, ReadsBundle
    <3> QED BY <3>2, Zenon
  <2> QED BY <1>1, <2>1 DEF UserNext, Agrees
<1>8. g \in Seq(Pairs) /\ flags = Heeds(verb, g) /\ (verb \in {"run", "start"} => flags = g)
  BY DEF Agrees
<1> HIDE DEF x, y, u, t
<1>9. /\ g \o <<x>> \in Seq(Pairs) /\ Heeds(verb, g \o <<x>>) = flags \o <<x>>
  <2>1. /\ g \o <<x>> \in Seq(Pairs)
        /\ Heeds(verb, g \o <<x>>) = Heeds(verb, g) \o <<Heed(verb, x)>>
    BY <1>5, <1>8, OneHeeded
  <2> QED BY <1>6, <1>8, <2>1
<1> DEFINE h == g \o <<x>>
           k == flags \o <<x>>
<1>10. h \in Seq(Pairs) /\ k = Heeds(verb, h) /\ (verb \in {"run", "start"} => k = h)
  BY <1>8, <1>9
<1>11. g \o <<x, y>> = h \o <<y>> /\ flags \o <<x, y>> = k \o <<y>>
  <2>1. flags \in Seq(Pairs)
    <3>1. Heeds(verb, g) \in Seq(Pairs)
      BY <1>5, <1>8, OneHeeded
    <3> QED BY <1>8, <3>1
  <2>2. g \o <<x, y>> = (g \o <<x>>) \o <<y>>
    BY <1>5, <1>8, TwoMore
  <2>3. flags \o <<x, y>> = (flags \o <<x>>) \o <<y>>
    BY <1>5, <2>1, TwoMore
  <2> QED BY <2>2, <2>3
<1> HIDE DEF h, k
<1>12. Heeds(verb, h \o <<y>>) = k \o <<y>> /\ h \o <<y>> \in Seq(Pairs)
  <2>1. /\ h \o <<y>> \in Seq(Pairs)
        /\ Heeds(verb, h \o <<y>>) = Heeds(verb, h) \o <<Heed(verb, y)>>
    BY <1>5, <1>10, OneHeeded
  <2> QED BY <1>6, <1>10, <2>1
<1>13. Agrees(verb, UserNext(a), flags', pos', pending', ended', h \o <<y>>)
  <2>1. flags' = k \o <<y>>
    BY <1>1, <1>2, <1>11
  <2>2. UserNext(a) = Reader(h \o <<y>>, pos', pending', ended')
    BY <1>1, <1>7, <1>11
  <2> QED BY <1>10, <1>12, <2>1, <2>2 DEF Agrees
<1> QED BY <1>13, UnderstoodIs

\* A switch, with a value or without.
LEMMA UserSwitch ==
    ASSUME ScanInv, verb \in Plain, NEW a \in Arguments[verb], ScanSwitch(a), a[1] \notin Bundles,
           NEW g, Agrees(verb, UserRead, flags, pos, pending, ended, g)
    PROVE  Understood(verb, UserNext(a), flags', pos', pending', ended')
<1> DEFINE u == AsRun(verb)
           t == UserTable(verb)
           n == LongName(TableOf(verb), a)
           long == IF Len(a) > 1 THEN Tail(a) ELSE Yes
           x == <<n, long>>
<1>0. verb \in Parsers
  BY DEF Plain, Parsers
<1>1. /\ pending = None /\ ended = Open /\ Dashed(a) /\ Switch(a)
      /\ flags' = flags \o Switched(a) /\ pending' = pending /\ pos' = pos /\ ended' = ended
  BY DEF ScanSwitch, AtFlag, None, ScanInv, Open, Note
<1>2. n \in TableOf(verb).switch
  BY <1>1 DEF Switch
<1>3. LongName(t, a) = n /\ n \in t.switch /\ a # <<"--">>
  <2>1. n = LongName(TableOf(verb), a) /\ n \in TableOf(verb).switch \union TableOf(verb).valued
    BY <1>2
  <2> HIDE DEF n, t
  <2>2. LongName(UserTable(verb), a) = n /\ n \in UserTable(verb).switch /\ a[1] # "--"
    BY <1>0, <1>2, <2>1, TablesAgree
  <2>3. a = <<"--">> => a[1] = "--"
    OBVIOUS
  <2> QED BY <2>2, <2>3 DEF t
<1>4. long \in Emitted
  <2>1. Tail(a) \in Emitted /\ Yes \in Emitted
    BY GivenIs, GivenPairs
  <2> QED BY <2>1
<1>5. x \in Pairs
  <2>1. n \in Names
    BY <1>0, <1>2, TableNames
  <2> HIDE DEF n, long
  <2> QED BY <1>4, <2>1, PairTyped, Zenon DEF Pairs
<1>6. Switched(a) = <<Heed(verb, x)>> /\ (verb \in {"run", "start"} => Heed(verb, x) = x)
  <2>1. Len(a) > 1 => verb \in {"exec", "commit"} /\ a[1] \in TableOf(verb).switch
    BY <1>1 DEF Switch
  <2>2. TableOf(verb).switch \intersect DOMAIN TableOf(verb).short = {}
    BY DEF Plain, TableOf, Table, RunTable, Short, ExecShort, CommitShort, JailVerbs
  <2>3. a[1] \in TableOf(verb).switch => n = a[1]
    BY <2>2 DEF LongName
  <2>4. Heed(verb, x) = <<n, IF n # "--pause" \/ long \in {Yes, <<"1">>} THEN Yes ELSE No>>
    <3> HIDE DEF n, long
    <3> QED BY <1>2 DEF Heed
  <2>5. a[1] = "--pause" => n = "--pause"
    <3>1. "--pause" \notin DOMAIN TableOf(verb).short
      BY DEF Plain, TableOf, Table, RunTable, Short, ExecShort, CommitShort, JailVerbs
    <3> QED BY <3>1 DEF LongName
  <2>6. Switched(a) = IF a[1] = "--pause" /\ Len(a) > 1
                      THEN <<<<"--pause", IF Tail(a) \in {Yes, <<"1">>} THEN Yes ELSE No>>>>
                      ELSE <<<<n, Yes>>>>
    BY DEF Switched, No
  <2>7. n = "--pause" => verb = "commit"
    BY <1>2 DEF Plain, TableOf, Table, RunTable, JailVerbs
  <2> DEFINE many == Len(a) > 1
             rest == Tail(a)
             yes == Yes
             no == No
             one == <<"1">>
  <2>8. long = IF many THEN rest ELSE yes
    OBVIOUS
  <2>9. /\ Switched(a) = IF a[1] = "--pause" /\ many
                         THEN <<<<"--pause", IF rest \in {yes, one} THEN yes ELSE no>>>>
                         ELSE <<<<n, yes>>>>
        /\ Heed(verb, x) = <<n, IF n # "--pause" \/ long \in {yes, one} THEN yes ELSE no>>
        /\ many => verb \in {"exec", "commit"} /\ a[1] \in TableOf(verb).switch
        /\ x = <<n, long>>
    BY <2>1, <2>4, <2>6
  <2> HIDE DEF many, rest, yes, no, one, n, long, x
  <2> QED BY <2>3, <2>5, <2>7, <2>8, <2>9
<1>7. UserNext(a) = Reader(g \o <<x>>, pos, None, Open)
  <2>1. AsFlag(a)
    BY <1>1, <1>3 DEF AsFlag
  <2> HIDE DEF u, t, n
  <2>2. LongName(t, a) \in t.switch
    BY <1>3
  <2>3. Reads(u, t, Reader(g, pos, None, Open), a) =
          Reader(g \o <<<<LongName(t, a), IF Len(a) > 1 THEN Tail(a) ELSE Yes>>>>, pos, None, Open)
    BY <2>1, <2>2, ReadsSwitch
  <2>4. Reads(u, t, Reader(g, pos, None, Open), a) = Reader(g \o <<x>>, pos, None, Open)
    BY <1>3, <2>3
  <2> QED BY <1>1, <2>4 DEF UserNext, Agrees, u, t
<1> HIDE DEF x, u, t, n, long
<1> DEFINE y == UserNext(a)
<1>8. y = Reader(g \o <<x>>, pos, None, Open)
  BY <1>7
<1> HIDE DEF y
<1>9. Agrees(verb, y, flags \o <<Heed(verb, x)>>, pos, None, Open, g \o <<x>>)
  BY <1>5, <1>6, <1>8, AgreesMore
<1>10. Agrees(verb, y, flags', pos', pending', ended', g \o <<x>>)
  BY <1>1, <1>6, <1>9
<1> QED BY <1>10, UnderstoodIs DEF y

\* A flag that has a value or waits for it.
LEMMA UserValued ==
    ASSUME ScanInv, verb \in Plain, NEW a \in Arguments[verb], ScanValued(a),
           NEW g, Agrees(verb, UserRead, flags, pos, pending, ended, g)
    PROVE  Understood(verb, UserNext(a), flags', pos', pending', ended')
<1> DEFINE u == AsRun(verb)
           t == UserTable(verb)
           n == LongName(TableOf(verb), a)
           x == <<n, Tail(a)>>
<1>0. verb \in Parsers
  BY DEF Plain, Parsers
<1>1. /\ pending = None /\ ended = Open /\ Dashed(a) /\ n \in TableOf(verb).valued
      /\ pos' = pos /\ ended' = ended
      /\ \/ Len(a) = 1 /\ pending' = n /\ flags' = flags
         \/ Len(a) > 1 /\ flags' = flags \o <<x>> /\ pending' = pending
  BY DEF ScanValued, Valued, Inline, AtFlag, None, ScanInv, Open, Note
<1>2. LongName(t, a) = n /\ n \in t.valued \ t.switch /\ a # <<"--">> /\ a[1] \notin Bundles
  <2>1. n = LongName(TableOf(verb), a) /\ n \in TableOf(verb).switch \union TableOf(verb).valued
    BY <1>1
  <2> HIDE DEF n, t
  <2>2. /\ LongName(UserTable(verb), a) = n /\ n \in UserTable(verb).valued \ UserTable(verb).switch
        /\ a[1] # "--" /\ a[1] \notin Bundles
    BY <1>0, <1>1, <2>1, TablesAgree
  <2>3. a = <<"--">> => a[1] = "--"
    OBVIOUS
  <2> QED BY <2>2, <2>3 DEF t
<1>3. UserNext(a) = IF Len(a) = 1 THEN Reader(g, pos, n, Open)
                    ELSE Reader(g \o <<x>>, pos, None, Open)
  <2>1. AsFlag(a)
    BY <1>1, <1>2 DEF AsFlag
  <2> HIDE DEF u, t, n
  <2>2. LongName(t, a) \in t.valued \ t.switch
    BY <1>2
  <2>3. Reads(u, t, Reader(g, pos, None, Open), a) =
          IF Len(a) = 1 THEN Reader(g, pos, LongName(t, a), Open)
          ELSE Reader(g \o <<<<LongName(t, a), Tail(a)>>>>, pos, None, Open)
    BY <2>1, <2>2, ReadsFlag
  <2>4. Reads(u, t, Reader(g, pos, None, Open), a) =
          IF Len(a) = 1 THEN Reader(g, pos, n, Open) ELSE Reader(g \o <<x>>, pos, None, Open)
    BY <1>2, <2>3
  <2> QED BY <1>1, <2>4 DEF UserNext, Agrees, u, t
<1>4. x \in Pairs
  <2>1. n \in Names /\ Tail(a) \in Emitted
    BY <1>0, <1>1, TableNames, GivenIs, GivenPairs
  <2> HIDE DEF n
  <2> QED BY <2>1, PairTyped, Zenon DEF Pairs
<1>5. Heed(verb, x) = x
  <2>1. n \notin TableOf(verb).switch
    BY <1>0, <1>1, TableNames
  <2> HIDE DEF n
  <2> QED BY <2>1 DEF Heed
<1> HIDE DEF x, u, t, n
<1> DEFINE y == UserNext(a)
<1> HIDE DEF y
<1>6. CASE Len(a) = 1 /\ pending' = n /\ flags' = flags
  <2>1. y = Reader(g, pos, n, Open)
    BY <1>3, <1>6 DEF y
  <2>2. Agrees(verb, y, flags', pos', pending', ended', g)
    BY <1>1, <1>6, <2>1 DEF Agrees
  <2> QED BY <2>2, UnderstoodIs DEF y
<1>7. CASE Len(a) > 1 /\ flags' = flags \o <<x>> /\ pending' = pending
  <2>1. y = Reader(g \o <<x>>, pos, None, Open)
    <3>1. Len(a) # 1
      <4> DEFINE k == Len(a)
      <4>1. k \in Nat
        BY GivenIs
      <4>2. k > 1
        BY <1>7, Zenon
      <4> HIDE DEF k
      <4>3. k # 1
        BY <4>1, <4>2
      <4> QED BY <4>3 DEF k
    <3> QED BY <1>3, <3>1, Zenon DEF y
  <2> DEFINE z == Heed(verb, x)
  <2>2. Agrees(verb, y, flags \o <<z>>, pos, None, Open, g \o <<x>>)
    <3>1. Agrees(verb, UserRead, flags, pos, pending, ended, g)
      OBVIOUS
    <3> QED BY <1>4, <1>5, <2>1, <3>1, AgreesMore
  <2>3. z = x
    BY <1>5
  <2> HIDE DEF z
  <2>4. Agrees(verb, y, flags', pos', pending', ended', g \o <<x>>)
    BY <1>1, <1>7, <2>2, <2>3
  <2> QED BY <2>4, UnderstoodIs DEF y
<1> QED BY <1>1, <1>6, <1>7

-----------------------------------------------------------------------------
(* An argument of inspect is written out again as it was given. *)
Parses(v, a, x) ==
    /\ a \in Emitted /\ x \in Seq(Pairs)
    /\ \A f, p : Reads(v, ReadingTable(v, {}), Reader(f, p, None, Open), a) =
                   Reader(f \o x, p, None, Open)
Rejects(v, a) ==
    \A f, p : Reads(v, ReadingTable(v, {}), Reader(f, p, None, Open), a) =
                Sofar(f, p, None, Open, FALSE)

\* An argument that podman parses to x leaves a clear line clear.
LEMMA SaysParsed ==
    ASSUME NEW v, NEW args, NEW f, NEW p, NEW a, NEW x, Clear(v, args, f, p), Parses(v, a, x)
    PROVE  Clear(v, args \o <<a>>, f \o x, p)
<1> DEFINE t == ReadingTable(v, {})
<1>1. args \in Seq(Emitted) /\ a \in Emitted /\ f \in Seq(Pairs) /\ x \in Seq(Pairs)
  BY DEF Clear, Parses
<1>2. Reads(v, t, Reader(f, p, None, Open), a) = Reader(f \o x, p, None, Open)
  BY Zenon DEF Parses
<1> HIDE DEF t
<1>3. Reading(v, {}, Append(args, a)) = Reads(v, t, Reading(v, {}, args), a)
  BY <1>1, ReadingGrows DEF t
<1>4. args \o <<a>> = Append(args, a) /\ args \o <<a>> \in Seq(Emitted)
  BY <1>1, OneMore
<1>5. f \o x \in Seq(Pairs)
  BY <1>1, ConcatProperties
<1>6. Reading(v, {}, args) = Reader(f, p, None, Open)
  BY DEF Clear
<1> QED BY <1>2, <1>3, <1>4, <1>5, <1>6 DEF Clear

\* An argument of inspect that names a flag is parsed, or podman refuses the line.
LEMMA FlagParses ==
    ASSUME NEW a \in Given, AsFlag(a), NEW n,
           n = LongName(ReadingTable("inspect", {}), a),
           n \in ReadingTable("inspect", {}).valued => Len(a) # 1
    PROVE  (\E x : Parses("inspect", a, x)) \/ Rejects("inspect", a)
<1> DEFINE t == ReadingTable("inspect", {})
           v == "inspect"
           long == IF Len(a) > 1 THEN Tail(a) ELSE Yes
           y == <<n, long>>
           z == <<n, Tail(a)>>
<1>0. v \in Readers /\ t.switch \intersect t.valued = {}
  <2>1. v \in Readers
    BY DEF Readers
  <2>2. PodmanTable(v).switch \intersect PodmanTable(v).valued = {}
    BY DEF PodmanTable, Table
  <2> QED BY <2>1, <2>2, TableIs
<1>1. a \in Emitted /\ Tail(a) \in Emitted /\ Yes \in Emitted
  <2>1. a \in ValuesGiven /\ Tail(a) \in ValuesGiven
    BY DEF ValuesGiven
  <2> QED BY <2>1, GivenPairs, WordsEmitted
<1>2. long \in Emitted
  BY <1>1
<1>3. n \in t.switch \union t.valued => n \in Names
  <2>1. t.switch \union t.valued \subseteq Words(PodmanTable(v))
    BY <1>0, TableIs DEF Words
  <2>2. Words(PodmanTable(v)) \subseteq UNION {Words(PodmanTable(u)) : u \in Readers}
    BY <1>0, Zenon
  <2> QED BY <2>1, <2>2 DEF Names
<1> HIDE DEF t, long, v
<1>4. CASE n \in t.switch
  <2>1. \A f, p : Reads(v, t, Reader(f, p, None, Open), a) = Reader(f \o <<y>>, p, None, Open)
    <3> TAKE f, p
    <3>1. LongName(t, a) \in t.switch /\ LongName(t, a) = n
      BY <1>4 DEF t
    <3>2. Reads(v, t, Reader(f, p, None, Open), a) =
            Reader(f \o <<<<LongName(t, a), IF Len(a) > 1 THEN Tail(a) ELSE Yes>>>>, p, None, Open)
      BY <3>1, ReadsSwitch
    <3> QED BY <3>1, <3>2 DEF long
  <2>2. <<y>> \in Seq(Pairs)
    BY <1>2, <1>3, <1>4, SeqOne
  <2> HIDE DEF y
  <2>3. Parses(v, a, <<y>>)
    BY <1>1, <2>1, <2>2, Zenon DEF Parses, t, v
  <2> QED BY <2>3, Zenon DEF v
<1>5. CASE n \in t.valued
  <2>1. \A f, p : Reads(v, t, Reader(f, p, None, Open), a) = Reader(f \o <<z>>, p, None, Open)
    <3> TAKE f, p
    <3>1. LongName(t, a) \in t.valued \ t.switch /\ LongName(t, a) = n
      BY <1>0, <1>5 DEF t
    <3>2. Reads(v, t, Reader(f, p, None, Open), a) =
            IF Len(a) = 1 THEN Reader(f, p, LongName(t, a), Open)
            ELSE Reader(f \o <<<<LongName(t, a), Tail(a)>>>>, p, None, Open)
      BY <3>1, ReadsFlag
    <3>3. Len(a) # 1
      BY <1>5 DEF t
    <3> QED BY <3>1, <3>2, <3>3
  <2>2. <<z>> \in Seq(Pairs)
    BY <1>1, <1>3, <1>5, SeqOne
  <2> HIDE DEF z
  <2>3. Parses(v, a, <<z>>)
    BY <1>1, <2>1, <2>2, Zenon DEF Parses, t, v
  <2> QED BY <2>3, Zenon DEF v
<1>6. CASE n \notin t.switch \union t.valued
  <2> DEFINE no == FALSE
  <2>1. ASSUME NEW f, NEW p
        PROVE  Reads(v, t, Reader(f, p, None, Open), a) = Sofar(f, p, None, Open, no)
    <3>1. LongName(t, a) \notin t.switch \union t.valued
      BY <1>6 DEF t
    <3> DEFINE r == Reader(f, p, None, Open)
    <3>2. Reads(v, t, r, a) = [r EXCEPT !.ok = no]
      <4>1. r.pending = "" /\ r.ended = FALSE
        BY DEF Reader, None, Open
      <4> HIDE DEF r
      <4> QED BY <3>1, <4>1 DEF Reads, AsFlag
    <3> DEFINE o == Open
               w == None
               k == TRUE
    <3>3. r = Sofar(f, p, w, o, k)
      BY Zenon DEF Reader, Sofar
    <3> HIDE DEF r, no, o, w, k
    <3>4. [r EXCEPT !.ok = no] = Sofar(f, p, w, o, no)
      <4>1. Updates(r, f, p, w, o, k)
        BY <3>3, SofarUpdates
      <4> QED BY <4>1 DEF Updates
    <3> QED BY <3>2, <3>4 DEF r, o, w
  <2>2. Rejects(v, a)
    BY <2>1, Zenon DEF Rejects, t, v
  <2> QED BY <2>2 DEF v
<1> QED BY <1>4, <1>5, <1>6

(* A line podman has refused stays refused. *)
Recorded(r, k) == \E f, p, w, e : r = Sofar(f, p, w, e, k)

\* What a reader has recorded of a refusal.
LEMMA RecordedIs ==
    ASSUME NEW f, NEW p, NEW w, NEW e, NEW k PROVE Recorded(Sofar(f, p, w, e, k), k)
BY Zenon DEF Recorded

\* One more argument does not take a refusal back.
LEMMA RefusedStays ==
    ASSUME NEW v, NEW t, NEW f, NEW p, NEW w, NEW e, NEW k, k = FALSE, NEW a
    PROVE  Recorded(Reads(v, t, Sofar(f, p, w, e, k), a), k)
<1> DEFINE r == Sofar(f, p, w, e, k)
           n == LongName(t, a)
           long == IF Len(a) > 1 THEN Tail(a) ELSE Yes
           b == e \/ v \in {"run", "exec"}
           two == <<<<"--interactive", Yes>>, <<"--tty", Yes>>>>
           wait == ""
           yes == TRUE
           x == <<<<w, a>>>>
           y == <<<<n, long>>>>
           z == <<<<n, Tail(a)>>>>
           q == Append(p, a)
           out == Reads(v, t, r, a)
<1>1. /\ r.pending = w /\ r.ended = e /\ r.pos = p
  BY DEF Sofar
<1>2. Updates(r, f, p, w, e, k)
  <2>1. r = Sofar(f, p, w, e, k)
    OBVIOUS
  <2> HIDE DEF r
  <2> QED BY <2>1, SofarUpdates
<1>3. out =
        IF w # wait THEN [Got(r, x) EXCEPT !.pending = wait]
        ELSE IF e \/ ~Dashed(a) THEN [r EXCEPT !.pos = q, !.ended = b]
        ELSE IF a = <<"--">> THEN [r EXCEPT !.ended = yes]
        ELSE IF a[1] \in Bundles THEN Got(r, two)
        ELSE IF n \in t.switch THEN Got(r, y)
        ELSE IF n \notin t.valued THEN [r EXCEPT !.ok = k]
        ELSE IF Len(a) = 1 THEN [r EXCEPT !.pending = n]
        ELSE Got(r, z)
  <2> HIDE DEF r
  <2> QED BY <1>1, Zenon DEF Reads
<1> HIDE DEF r, n, b, two, wait, yes, x, y, z, q, out
<1>4. \/ out = Sofar(f \o x, p, wait, e, k)
      \/ out = Sofar(f, q, w, b, k)
      \/ out = Sofar(f, p, w, yes, k)
      \/ out = Sofar(f \o two, p, w, e, k)
      \/ out = Sofar(f \o y, p, w, e, k)
      \/ out = Sofar(f, p, w, e, k)
      \/ out = Sofar(f, p, n, e, k)
      \/ out = Sofar(f \o z, p, w, e, k)
  <2>1. /\ [Got(r, x) EXCEPT !.pending = wait] = Sofar(f \o x, p, wait, e, k)
        /\ [r EXCEPT !.pos = q, !.ended = b] = Sofar(f, q, w, b, k)
        /\ [r EXCEPT !.ended = yes] = Sofar(f, p, w, yes, k)
        /\ Got(r, two) = Sofar(f \o two, p, w, e, k)
        /\ Got(r, y) = Sofar(f \o y, p, w, e, k)
        /\ [r EXCEPT !.ok = k] = Sofar(f, p, w, e, k)
        /\ [r EXCEPT !.pending = n] = Sofar(f, p, n, e, k)
        /\ Got(r, z) = Sofar(f \o z, p, w, e, k)
    BY <1>2, Zenon DEF Updates
  <2>2. \/ out = [Got(r, x) EXCEPT !.pending = wait]
        \/ out = [r EXCEPT !.pos = q, !.ended = b]
        \/ out = [r EXCEPT !.ended = yes]
        \/ out = Got(r, two)
        \/ out = Got(r, y)
        \/ out = [r EXCEPT !.ok = k]
        \/ out = [r EXCEPT !.pending = n]
        \/ out = Got(r, z)
    BY <1>3
  <2> QED BY <2>1, <2>2
<1>5. \A f1, p1, w1, e1 : Recorded(Sofar(f1, p1, w1, e1, k), k)
  BY RecordedIs
<1>6. Recorded(out, k)
  BY <1>4, <1>5
<1> QED BY <1>6 DEF out, r

-----------------------------------------------------------------------------
(* What inspect has read, as long as podman would not refuse it. *)
Forwards(u, f, p, w, e) ==
    \E k \in BOOLEAN :
        /\ Recorded(u, k)
        /\ k => \E g : u = Reader(g, p, w, e) /\ Clear("inspect", AllAsWritten(f), g, <<>>)

\* A line that is written out as it was given.
LEMMA ForwardsIs ==
    ASSUME NEW u, NEW f, NEW p, NEW w, NEW e, NEW g, u = Reader(g, p, w, e),
           Clear("inspect", AllAsWritten(f), g, <<>>)
    PROVE  Forwards(u, f, p, w, e)
<1> DEFINE k == TRUE
<1>1. u = Sofar(g, p, w, e, k)
  BY Zenon DEF Reader, Sofar
<1>2. k \in BOOLEAN
  OBVIOUS
<1> HIDE DEF k
<1>3. Recorded(u, k)
  BY <1>1, RecordedIs
<1> QED BY <1>2, <1>3, Zenon DEF Forwards

\* A line podman refuses need not be written out as anything.
LEMMA RefusedForwards ==
    ASSUME NEW u, NEW f, NEW p, NEW w, NEW e, NEW k, k = FALSE, Recorded(u, k)
    PROVE  Forwards(u, f, p, w, e)
<1>1. k \in BOOLEAN /\ ~k
  OBVIOUS
<1> QED BY <1>1, Zenon DEF Forwards

\* What netcage and podman know of inspect.
LEMMA InspectIs ==
    ASSUME ScanInv, verb = "inspect"
    PROVE  /\ "inspect" \in DOMAIN Arguments /\ "inspect" \in Readers /\ verb \in Parsers
           /\ UserRead = Reading("inspect", {}, argv)
           /\ TableOf(verb).switch = {} /\ TableOf(verb).valued = {"--format", "--type"}
           /\ flags \in Seq(Pairs) /\ flags \in Seq(ParsedAs(verb))
           /\ \A a : UserNext(a) = Reads("inspect", ReadingTable("inspect", {}), UserRead, a)
<1>1. verb \in DOMAIN Arguments /\ verb \in Parsers /\ "inspect" \in Readers
  BY DEF ScanInv, Parsers, Readers
<1>2. AsRun(verb) = "inspect" /\ Own(verb) = {}
  BY DEF AsRun, Own
<1>3. UserTable(verb) = ReadingTable("inspect", {})
  BY <1>2, Zenon DEF UserTable
<1>4. UserRead = Reading("inspect", {}, argv)
  BY <1>2, Zenon DEF UserRead
<1>5. \A a : UserNext(a) = Reads("inspect", ReadingTable("inspect", {}), UserRead, a)
  BY <1>2, <1>3, Zenon DEF UserNext
<1>6. TableOf(verb).switch = {} /\ TableOf(verb).valued = {"--format", "--type"}
  BY DEF TableOf, Table, JailVerbs
<1>7. flags \in Seq(ParsedAs(verb)) /\ ParsedAs(verb) \subseteq Names \X ValuesGiven
  BY <1>1 DEF ScanInv, ParsedAs
<1>8. flags \in Seq(Pairs)
  <2>1. ParsedAs(verb) \subseteq Pairs
    BY <1>7, GivenPairs
  <2> QED BY <1>7, <2>1, SeqSubset
<1> QED BY <1>1, <1>4, <1>5, <1>6, <1>7, <1>8

\* A value that was waited for.
LEMMA InspectValue ==
    ASSUME ScanInv, verb = "inspect", NEW a \in Arguments[verb], ScanValue(a),
           NEW g, UserRead = Reader(g, pos, pending, ended),
           Clear("inspect", AllAsWritten(flags), g, <<>>)
    PROVE  Forwards(UserNext(a), flags', pos', pending', ended')
<1> DEFINE v == "inspect"
           t == ReadingTable("inspect", {})
           x == <<pending, a>>
           args == AllAsWritten(flags)
<1>1. /\ pending # None /\ flags' = flags \o <<x>> /\ pending' = None
      /\ pos' = pos /\ ended' = ended /\ ended \in BOOLEAN
  BY DEF ScanValue, Note, None, ScanInv
<1>2. pending \in TableOf(verb).valued /\ pending \in Names /\ a \in Emitted
  BY <1>1, InspectIs, TableNames, GivenIs, GivenPairs DEF ScanInv
<1>3. UserNext(a) = Reader(g \o <<x>>, pos, None, ended)
  <2> HIDE DEF t
  <2>1. Reads(v, t, Reader(g, pos, pending, ended), a) =
          Reader(g \o <<<<pending, a>>>>, pos, None, ended)
    BY <1>1, ReadsValue
  <2> QED BY <2>1, InspectIs DEF t
<1>4. FlagWord(v, pending, pending)
  <2>1. PodmanTable(v).valued = {"--format", "--type"}
    BY DEF PodmanTable, Table
  <2> QED BY <1>2, <2>1, InspectIs, LongWord
<1> DEFINE two == <<<<pending>>, a>>
<1>5. Clear(v, args \o two, g \o <<x>>, <<>>)
  <2> HIDE DEF args, v
  <2>1. Clear(v, args, g, <<>>)
    BY DEF args, v
  <2> QED BY <1>2, <1>4, <2>1, SaysFlag
<1>6. AllAsWritten(flags \o <<x>>) = args \o two
  <2>1. x \in Pairs
    BY <1>2, PairTyped, Zenon DEF Pairs
  <2>2. AsWritten(x) = two
    <3>1. x[1] = pending /\ x[2] = a
      OBVIOUS
    <3>2. pending \notin TableOf(verb).switch /\ pending # ""
      BY <1>1, InspectIs DEF None
    <3> HIDE DEF x
    <3> QED BY <3>1, <3>2 DEF AsWritten
  <2> HIDE DEF x, two
  <2>3. AllAsWritten(flags \o <<x>>) = AllAsWritten(flags) \o AsWritten(x)
    BY <2>1, InspectIs, AllAsWrittenGrows
  <2> QED BY <2>2, <2>3
<1>7. Clear("inspect", AllAsWritten(flags'), g \o <<x>>, <<>>)
  <2> HIDE DEF x, two, args
  <2> QED BY <1>1, <1>5, <1>6
<1> HIDE DEF x
<1> QED BY <1>1, <1>3, <1>7, ForwardsIs

\* A positional argument, or the marker.
LEMMA InspectPlace ==
    ASSUME ScanInv, verb = "inspect", NEW a \in Arguments[verb],
           ScanPositional(a) \/ ScanMarker(a),
           NEW g, UserRead = Reader(g, pos, pending, ended),
           Clear("inspect", AllAsWritten(flags), g, <<>>)
    PROVE  Forwards(UserNext(a), flags', pos', pending', ended')
<1> DEFINE v == "inspect"
           t == ReadingTable("inspect", {})
<1>1. CASE ScanPositional(a)
  <2>1. /\ pending = None /\ (ended \/ ~Dashed(a)) /\ ended \in BOOLEAN
        /\ flags' = flags /\ pending' = pending /\ pos' = Append(pos, a)
        /\ ended' = (ended \/ EndsFlags(verb))
    BY <1>1 DEF ScanPositional, None, ScanInv
  <2>2. Reads(v, t, Reader(g, pos, None, ended), a) =
          Reader(g, Append(pos, a), None, ended \/ v \in {"run", "exec"})
    <3> HIDE DEF v, t
    <3> QED BY <2>1, ReadsPositional
  <2>3. (ended \/ EndsFlags(verb)) = (ended \/ v \in {"run", "exec"})
    BY DEF EndsFlags, Mixed
  <2>4. UserNext(a) = Reader(g, pos', None, ended')
    <3>1. UserNext(a) = Reader(g, Append(pos, a), None, ended \/ v \in {"run", "exec"})
      BY <2>1, <2>2, InspectIs
    <3> HIDE DEF v
    <3> QED BY <2>1, <2>3, <3>1
  <2> QED BY <2>1, <2>4, ForwardsIs
<1>2. CASE ScanMarker(a)
  <2>1. /\ pending = None /\ ended = Open /\ ended' = Over /\ a = <<"--">>
        /\ flags' = flags /\ pending' = pending /\ pos' = pos
    BY <1>2 DEF ScanMarker, AtFlag, Marker, None, ScanInv, Open, Over
  <2>2. Reads(v, t, Reader(g, pos, None, Open), a) = Reader(g, pos, None, Over)
    <3> HIDE DEF v, t
    <3> QED BY <2>1, ReadsMarker
  <2>3. UserNext(a) = Reader(g, pos, None, Over)
    BY <2>1, <2>2, InspectIs
  <2> QED BY <2>1, <2>3, ForwardsIs
<1> QED BY <1>1, <1>2

\* A flag that has a value or waits for it.
LEMMA InspectWaits ==
    ASSUME ScanInv, verb = "inspect", NEW a \in Arguments[verb], ScanValued(a),
           NEW g, UserRead = Reader(g, pos, pending, ended),
           Clear("inspect", AllAsWritten(flags), g, <<>>)
    PROVE  Forwards(UserNext(a), flags', pos', pending', ended')
<1> DEFINE v == "inspect"
           t == ReadingTable("inspect", {})
           n == LongName(TableOf(verb), a)
<1>1. /\ pending = None /\ ended = Open /\ Dashed(a) /\ n \in TableOf(verb).valued
      /\ pos' = pos /\ ended' = ended
      /\ Len(a) = 1 /\ pending' = n /\ flags' = flags
  BY DEF ScanValued, Valued, Inline, AtFlag, None, ScanInv, Open, Note
<1>2. LongName(t, a) = n /\ n \in t.valued \ t.switch /\ a # <<"--">> /\ a[1] \notin Bundles
  <2>1. n = LongName(TableOf(verb), a) /\ n \in TableOf(verb).switch \union TableOf(verb).valued
    BY <1>1
  <2> HIDE DEF n, t
  <2>2. /\ LongName(UserTable(verb), a) = n /\ n \in UserTable(verb).valued \ UserTable(verb).switch
        /\ a[1] # "--" /\ a[1] \notin Bundles
    BY <1>1, <2>1, InspectIs, TablesAgree
  <2>3. a = <<"--">> => a[1] = "--"
    OBVIOUS
  <2>4. UserTable(verb) = t
    BY DEF UserTable, AsRun, Own, t
  <2> QED BY <2>2, <2>3, <2>4
<1>3. UserNext(a) = Reader(g, pos, n, Open)
  <2>1. AsFlag(a)
    BY <1>1, <1>2 DEF AsFlag
  <2> HIDE DEF v, t, n
  <2>2. LongName(t, a) \in t.valued \ t.switch
    BY <1>2
  <2>3. Reads(v, t, Reader(g, pos, None, Open), a) =
          IF Len(a) = 1 THEN Reader(g, pos, LongName(t, a), Open)
          ELSE Reader(g \o <<<<LongName(t, a), Tail(a)>>>>, pos, None, Open)
    BY <2>1, <2>2, ReadsFlag
  <2>4. Reads(v, t, Reader(g, pos, None, Open), a) = Reader(g, pos, n, Open)
    BY <1>1, <1>2, <2>3
  <2> QED BY <1>1, <2>4, InspectIs DEF v, t
<1> HIDE DEF n
<1> QED BY <1>1, <1>3, ForwardsIs

\* A flag netcage does not know and passes on.
LEMMA InspectVerbatim ==
    ASSUME ScanInv, verb = "inspect", NEW a \in Arguments[verb], ScanVerbatim(a),
           NEW g, UserRead = Reader(g, pos, pending, ended),
           Clear("inspect", AllAsWritten(flags), g, <<>>)
    PROVE  Forwards(UserNext(a), flags', pos', pending', ended')
<1> DEFINE v == "inspect"
           t == ReadingTable("inspect", {})
           x == <<"", a>>
           args == AllAsWritten(flags)
           n == LongName(ReadingTable("inspect", {}), a)
<1>1. /\ pending = None /\ ended = Open /\ Dashed(a) /\ a # <<"--">>
      /\ ~(Valued(a) /\ Len(a) = 1)
      /\ flags' = flags \o <<x>> /\ pending' = pending /\ pos' = pos /\ ended' = ended
  BY DEF ScanVerbatim, Verbatim, AtFlag, Note, None, Open, ScanInv
<1>2. a \in Emitted /\ a \in Given
  BY GivenIs, GivenPairs
<1>3. AllAsWritten(flags \o <<x>>) = args \o <<a>>
  <2>1. "" \in Names
    BY DEF Names
  <2>2. x \in Pairs
    BY <1>2, <2>1, PairTyped, Zenon DEF Pairs
  <2>3. AsWritten(x) = <<a>>
    BY DEF AsWritten
  <2> HIDE DEF x
  <2>4. AllAsWritten(flags \o <<x>>) = AllAsWritten(flags) \o AsWritten(x)
    BY <2>2, InspectIs, AllAsWrittenGrows
  <2> QED BY <2>3, <2>4
<1>4. (\E y : Parses(v, a, y)) \/ Rejects(v, a)
  <2>1. CASE a[1] \in Bundles
    <3> DEFINE i == <<"--interactive", Yes>>
               j == <<"--tty", Yes>>
    <3>1. \A f, p : Reads(v, t, Reader(f, p, None, Open), a) = Reader(f \o <<i, j>>, p, None, Open)
      <4> TAKE f, p
      <4> HIDE DEF v, t, x, n, args
      <4>1. a[1] \in Bundles /\ Dashed(a) /\ a # <<"--">>
        BY <1>1, <2>1
      <4>2. Reads(v, t, Reader(f, p, None, Open), a) =
              Reader(f \o <<<<"--interactive", Yes>>, <<"--tty", Yes>>>>, p, None, Open)
        BY <4>1, ReadsBundle
      <4> QED BY <4>2, Zenon
    <3>2. i \in Pairs /\ j \in Pairs
      <4>1. "--interactive" \in Names /\ "--tty" \in Names
        <5>1. "run" \in Parsers
          BY DEF Parsers
        <5>2. {"--interactive", "--tty"} \subseteq TableOf("run").switch
          BY DEF TableOf, JailVerbs, RunTable, Table
        <5> QED BY <5>1, <5>2, TableNames
      <4> QED BY <4>1, WordsEmitted, PairTyped, Zenon DEF Pairs
    <3> HIDE DEF i, j
    <3>3. <<i, j>> \in Seq(Pairs)
      BY <3>2
    <3>4. Parses(v, a, <<i, j>>)
      BY <1>2, <3>1, <3>3, Zenon DEF Parses
    <3> QED BY <3>4, Zenon
  <2>2. CASE a[1] \notin Bundles
    <3>1. AsFlag(a)
      BY <1>1, <2>2 DEF AsFlag
    <3>2. n \in ReadingTable("inspect", {}).valued => Len(a) # 1
      <4>1. ReadingTable("inspect", {}).valued = TableOf(verb).valued
        <5>1. PodmanTable("inspect").valued = {"--format", "--type"}
          BY DEF PodmanTable, Table
        <5> QED BY <5>1, InspectIs, TableIs
      <4>2. ASSUME n \in TableOf(verb).valued PROVE Valued(a)
        <5>1. /\ DOMAIN ReadingTable("inspect", {}).short = DOMAIN InspectShort \union {"-s"}
              /\ \A w \in DOMAIN InspectShort \union {"-s"} :
                   ReadingTable("inspect", {}).short[w] = IF w = "-s" THEN "--size" ELSE InspectShort[w]
          <6>1. PodmanTable("inspect").short = [w \in DOMAIN InspectShort \union {"-s"} |->
                                       IF w = "-s" THEN "--size" ELSE InspectShort[w]]
            BY DEF PodmanTable, Table
          <6> QED BY <6>1, InspectIs, TableIs
        <5>2. TableOf(verb).short = InspectShort
          BY DEF TableOf, Table, JailVerbs
        <5>3. a[1] # "-s"
          BY <4>2, <5>1, InspectIs DEF LongName
        <5>4. LongName(TableOf(verb), a) = n
          BY <5>1, <5>2, <5>3 DEF LongName
        <5> QED BY <4>2, <5>4 DEF Valued
      <4> QED BY <1>1, <4>1, <4>2
    <3> HIDE DEF n
    <3>3. n = LongName(ReadingTable("inspect", {}), a)
      BY DEF n
    <3> QED BY <1>2, <3>1, <3>2, <3>3, FlagParses
  <2> QED BY <2>1, <2>2
<1>5. CASE \E y : Parses(v, a, y)
  <2>1. PICK y : Parses(v, a, y)
    BY <1>5
  <2> HIDE DEF args, v, x
  <2>2. Clear(v, args, g, <<>>)
    BY DEF args, v
  <2>3. Clear(v, args \o <<a>>, g \o y, <<>>)
    BY <2>1, <2>2, SaysParsed
  <2>4. UserNext(a) = Reader(g \o y, pos, None, Open)
    <3>1. Reads(v, t, Reader(g, pos, None, Open), a) = Reader(g \o y, pos, None, Open)
      BY <2>1, Zenon DEF Parses, v
    <3> QED BY <1>1, <3>1, InspectIs DEF v
  <2>5. Clear("inspect", AllAsWritten(flags'), g \o y, <<>>)
    BY <1>1, <1>3, <2>3 DEF v
  <2> QED BY <1>1, <2>4, <2>5, ForwardsIs
<1>6. CASE Rejects(v, a)
  <2> DEFINE no == FALSE
             w == None
             o == Open
  <2>1. UserNext(a) = Sofar(g, pos, w, o, no)
    <3>1. Reads(v, t, Reader(g, pos, None, Open), a) = Sofar(g, pos, w, o, no)
      BY <1>6, Zenon DEF Rejects
    <3> QED BY <1>1, <3>1, InspectIs
  <2>2. no = FALSE
    OBVIOUS
  <2> HIDE DEF no, w, o
  <2>3. Recorded(UserNext(a), no)
    BY <2>1, RecordedIs
  <2> QED BY <2>2, <2>3, RefusedForwards
<1> QED BY <1>4, <1>5, <1>6

-----------------------------------------------------------------------------
(* All the time, netcage has understood the line as podman would. *)
UserInv ==
    phase # "exited" =>
        /\ verb \in Plain => Understood(verb, UserRead, flags, pos, pending, ended)
        /\ verb = "inspect" => Forwards(UserRead, flags, pos, pending, ended)

\* Before the first argument both have read nothing.
LEMMA UserInit == Init => UserInv
<1> SUFFICES ASSUME Init, verb \in Parsers
             PROVE  /\ verb \in Plain => Understood(verb, UserRead, flags, pos, pending, ended)
                    /\ verb = "inspect" => Forwards(UserRead, flags, pos, pending, ended)
  BY DEF UserInv, Plain, Parsers
<1>1. flags = <<>> /\ pos = <<>> /\ pending = None /\ argv = <<>>
  BY Zenon DEF Init, None
<1>2. ended = Open
  <2>1. ended = (verb \in RawVerbs)
    BY Zenon DEF Init
  <2>2. verb \notin RawVerbs
    BY DEF Parsers, RawVerbs
  <2> DEFINE raw == verb \in RawVerbs
  <2>3. ended = raw /\ ~raw
    BY <2>1, <2>2, Zenon
  <2> HIDE DEF raw
  <2>4. ended = FALSE
    BY <2>3
  <2> QED BY <2>4 DEF Open
<1>3. UserRead = Reader(<<>>, <<>>, None, Open)
  <2> DEFINE v == AsRun(verb)
             x == Own(verb)
  <2> HIDE DEF v, x
  <2>1. <<>> \in Seq({0})
    BY EmptySeq
  <2>2. Reading(v, x, <<>>) = Fresh
    BY <2>1, ReadingGrows
  <2> QED BY <1>1, <2>2, FreshReader DEF UserRead, v, x
<1>4. Understood(verb, UserRead, flags, pos, pending, ended)
  <2> DEFINE g == <<>>
  <2>1. g \in Seq(Pairs)
    BY EmptySeq
  <2>2. Heeds(verb, g) = g
    <3>1. <<"", Yes>> \in Pairs
      BY PairsExist
    <3> DEFINE e == <<"", Yes>>
               v == verb
    <3> HIDE DEF e, v
    <3>2. e \in Pairs
      BY <3>1 DEF e
    <3>3. Heeds(v, <<>>) = <<>>
      BY <2>1, <3>2, OneHeeded
    <3> QED BY <3>3 DEF v
  <2>3. flags = g /\ UserRead = Reader(g, pos, pending, ended)
    BY <1>1, <1>2, <1>3
  <2> HIDE DEF g
  <2>4. Agrees(verb, UserRead, flags, pos, pending, ended, g)
    BY <2>1, <2>2, <2>3 DEF Agrees
  <2> QED BY <2>4, UnderstoodIs
<1>5. Forwards(UserRead, flags, pos, pending, ended)
  <2> DEFINE g == <<>>
             args == AllAsWritten(flags)
  <2>1. args = <<>>
    <3>1. g \in Seq(Pairs) /\ <<"", Yes>> \in Pairs
      BY EmptySeq, PairsExist
    <3> DEFINE e == <<"", Yes>>
    <3> HIDE DEF e
    <3>2. e \in Pairs
      BY <3>1 DEF e
    <3>3. AllAsWritten(<<>>) = <<>>
      BY <3>1, <3>2, AllAsWrittenGrows
    <3> QED BY <1>1, <3>3
  <2>2. Clear("inspect", <<>>, <<>>, <<>>)
    BY ClearStart
  <2>3. UserRead = Reader(g, pos, pending, ended)
    BY <1>1, <1>2, <1>3
  <2>4. Clear("inspect", args, g, <<>>)
    BY <2>1, <2>2
  <2> HIDE DEF g
  <2> QED BY <2>3, <2>4, ForwardsIs
<1> QED BY <1>4, <1>5

\* What is written out again depends on the verb and the flags only.
LEMMA WrittenStays ==
    ASSUME verb' = verb PROVE AllAsWritten(flags)' = AllAsWritten(flags')
BY DEF AllAsWritten, AsWritten

\* The user's line has grown by one argument, and so has podman's reading of it.
LEMMA UserGrows ==
    ASSUME ScanInv, NEW a \in Arguments[verb], argv' = Append(argv, a), verb' = verb
    PROVE  UserRead' = UserNext(a)
<1> DEFINE v == AsRun(verb)
           x == Own(verb)
<1>1. AsRun(verb') = v /\ Own(verb') = x
  OBVIOUS
<1>2. a \in Given /\ argv \in Seq(Given)
  BY GivenIs DEF ScanInv
<1> HIDE DEF v, x
<1>3. Reading(v, x, Append(argv, a)) = Reads(v, ReadingTable(v, x), Reading(v, x, argv), a)
  BY <1>2, ReadingGrows
<1>4. UserRead' = Reading(v, x, Append(argv, a))
  BY <1>1 DEF UserRead
<1>5. UserNext(a) = Reads(v, ReadingTable(v, x), Reading(v, x, argv), a)
  BY Zenon DEF UserNext, UserTable, UserRead, v, x
<1> QED BY <1>3, <1>4, <1>5

\* Forwarding, said of the next state.
LEMMA ForwardsStays ==
    ASSUME NEW u, verb' = verb, UserRead' = u, Forwards(u, flags', pos', pending', ended')
    PROVE  Forwards(UserRead, flags, pos, pending, ended)'
<1>1. AllAsWritten(flags)' = AllAsWritten(flags')
  BY WrittenStays
<1>2. PICK k \in BOOLEAN :
        /\ Recorded(u, k)
        /\ k => \E g : u = Reader(g, pos', pending', ended')
                         /\ Clear("inspect", AllAsWritten(flags'), g, <<>>)
  BY Zenon DEF Forwards
<1>3. k => \E g : UserRead' = Reader(g, pos', pending', ended')
                    /\ Clear("inspect", AllAsWritten(flags)', g, <<>>)
  BY <1>1, <1>2
<1>4. Recorded(UserRead', k)
  BY <1>2
<1> QED BY <1>2, <1>3, <1>4, Zenon DEF Forwards

-----------------------------------------------------------------------------
\* One argument of a run, start, exec or commit keeps the understanding.
LEMMA UnderstoodStep ==
    ASSUME ScanInv, verb \in Plain, NEW a \in Arguments[verb],
           Understood(verb, UserRead, flags, pos, pending, ended),
           \/ ScanValue(a) \/ ScanPositional(a) \/ ScanMarker(a) \/ ScanSwitch(a)
           \/ ScanValued(a) \/ ScanVerbatim(a)
    PROVE  Understood(verb, UserNext(a), flags', pos', pending', ended')
<1>1. PICK g : Agrees(verb, UserRead, flags, pos, pending, ended, g)
  BY Zenon DEF Understood
<1>2. CASE ScanValue(a)
  BY <1>1, <1>2, UserValue, UnderstoodIs
<1>3. CASE ScanPositional(a)
  BY <1>1, <1>3, UserPositional, UnderstoodIs
<1>4. CASE ScanMarker(a)
  BY <1>1, <1>4, UserMarker, UnderstoodIs
<1>5. CASE ScanSwitch(a) /\ a[1] \in Bundles
  BY <1>1, <1>5, UserBundle
<1>6. CASE ScanSwitch(a) /\ a[1] \notin Bundles
  BY <1>1, <1>6, UserSwitch
<1>7. CASE ScanValued(a)
  BY <1>1, <1>7, UserValued
<1>8. CASE ScanVerbatim(a)
  BY <1>8 DEF ScanVerbatim, Verbatim, Plain
<1> QED BY <1>2, <1>3, <1>4, <1>5, <1>6, <1>7, <1>8

\* One argument of an inspect keeps the forwarding.
LEMMA ForwardsStep ==
    ASSUME ScanInv, verb = "inspect", NEW a \in Arguments[verb],
           Forwards(UserRead, flags, pos, pending, ended),
           \/ ScanValue(a) \/ ScanPositional(a) \/ ScanMarker(a) \/ ScanSwitch(a)
           \/ ScanValued(a) \/ ScanVerbatim(a)
    PROVE  Forwards(UserNext(a), flags', pos', pending', ended')
<1>1. PICK k \in BOOLEAN :
        /\ Recorded(UserRead, k)
        /\ k => \E g : UserRead = Reader(g, pos, pending, ended)
                         /\ Clear("inspect", AllAsWritten(flags), g, <<>>)
  BY Zenon DEF Forwards
<1>2. CASE ~k
  <2>1. PICK f, p, w, e : UserRead = Sofar(f, p, w, e, k)
    BY <1>1, Zenon DEF Recorded
  <2> DEFINE v == AsRun(verb)
             t == UserTable(verb)
  <2> HIDE DEF v, t
  <2>2. k = FALSE
    BY <1>2
  <2>3. Recorded(Reads(v, t, Sofar(f, p, w, e, k), a), k)
    BY <2>2, RefusedStays
  <2>4. UserNext(a) = Reads(v, t, Sofar(f, p, w, e, k), a)
    BY <2>1 DEF UserNext, v, t
  <2>5. Recorded(UserNext(a), k)
    BY <2>3, <2>4
  <2> QED BY <2>2, <2>5, RefusedForwards
<1>3. CASE k
  <2>1. PICK g : UserRead = Reader(g, pos, pending, ended)
                   /\ Clear("inspect", AllAsWritten(flags), g, <<>>)
    BY <1>1, <1>3
  <2>2. CASE ScanValue(a)
    BY <2>1, <2>2, InspectValue
  <2>3. CASE ScanPositional(a) \/ ScanMarker(a)
    BY <2>1, <2>3, InspectPlace
  <2>4. CASE ScanSwitch(a)
    <3>1. TableOf(verb).switch = {}
      BY InspectIs
    <3> QED BY <2>4, <3>1 DEF ScanSwitch, Switch
  <2>5. CASE ScanValued(a)
    BY <2>1, <2>5, InspectWaits
  <2>6. CASE ScanVerbatim(a)
    BY <2>1, <2>6, InspectVerbatim
  <2> QED BY <2>2, <2>3, <2>4, <2>5, <2>6
<1> QED BY <1>2, <1>3

\* A step that scans nothing keeps the agreement.
LEMMA ReadStays ==
    ASSUME UserInv, phase # "exited", UNCHANGED scanned
    PROVE  UserInv'
<1>1. UserRead' = UserRead
  BY DEF UserRead, scanned
<1>2. verb' = verb /\ flags' = flags /\ pos' = pos /\ pending' = pending /\ ended' = ended
  BY DEF scanned
<1>3. ASSUME verb \in Plain PROVE Understood(verb, UserRead, flags, pos, pending, ended)'
  BY <1>1, <1>2, <1>3 DEF UserInv
<1>4. ASSUME verb = "inspect" PROVE Forwards(UserRead, flags, pos, pending, ended)'
  <2> DEFINE u == UserRead
  <2>1. Forwards(u, flags, pos, pending, ended)
    BY <1>4 DEF UserInv
  <2> HIDE DEF u
  <2>2. Forwards(u, flags', pos', pending', ended')
    BY <1>2, <2>1
  <2>3. UserRead' = u
    BY <1>1 DEF u
  <2> QED BY <1>2, <2>2, <2>3, ForwardsStays
<1> QED BY <1>2, <1>3, <1>4 DEF UserInv

\* Every step of the command keeps the agreement of the two readings.
LEMMA UserStep == ScanInv /\ UserInv /\ CommandSteps => UserInv'
<1> SUFFICES ASSUME ScanInv, UserInv, CommandSteps PROVE UserInv'
  OBVIOUS
<1>1. CASE Scan
  <2>1. PICK a \in Arguments[verb] :
          /\ argv' = Append(argv, a)
          /\ \/ ScanValue(a) \/ ScanPositional(a) \/ ScanMarker(a) \/ ScanSwitch(a)
             \/ ScanValued(a) \/ ScanVerbatim(a) \/ ScanRefused(a)
    BY <1>1, Zenon DEF Scan
  <2>2. verb' = verb /\ phase = "scan"
    BY <1>1 DEF Scan
  <2>3. CASE ScanRefused(a)
    BY <2>3 DEF ScanRefused, Usage, Exit, UserInv
  <2>4. CASE ~ScanRefused(a)
    <3>1. \/ ScanValue(a) \/ ScanPositional(a) \/ ScanMarker(a) \/ ScanSwitch(a)
          \/ ScanValued(a) \/ ScanVerbatim(a)
      BY <2>1, <2>4
    <3>2. UserRead' = UserNext(a)
      BY <2>1, <2>2, UserGrows
    <3>3. ASSUME verb \in Plain PROVE Understood(verb, UserRead, flags, pos, pending, ended)'
      <4>1. Understood(verb, UserRead, flags, pos, pending, ended)
        BY <2>2, <3>3 DEF UserInv
      <4>2. Understood(verb, UserNext(a), flags', pos', pending', ended')
        BY <3>1, <3>3, <4>1, UnderstoodStep
      <4> QED BY <2>2, <3>2, <4>2
    <3>4. ASSUME verb = "inspect" PROVE Forwards(UserRead, flags, pos, pending, ended)'
      <4>1. Forwards(UserRead, flags, pos, pending, ended)
        BY <2>2, <3>4 DEF UserInv
      <4> DEFINE u == UserNext(a)
      <4>2. Forwards(u, flags', pos', pending', ended')
        BY <3>1, <3>4, <4>1, ForwardsStep
      <4>3. UserRead' = u
        BY <3>2
      <4> HIDE DEF u
      <4> QED BY <2>2, <4>2, <4>3, ForwardsStays
    <3> QED BY <2>2, <3>3, <3>4 DEF UserInv
  <2> QED BY <2>3, <2>4
<1>2. CASE Parse \/ Preflight \/ Hand
  <2>1. UNCHANGED scanned /\ phase # "exited"
    BY <1>2 DEF Parse, Preflight, Hand
  <2> QED BY <2>1, ReadStays
<1> QED BY <1>1, <1>2 DEF CommandSteps

-----------------------------------------------------------------------------
(* The value that counts. *)
LEMMA LastConcat ==
    ASSUME NEW S, NEW a \in Seq(S), NEW b \in Seq(S)
    PROVE  /\ b # <<>> => a \o b # <<>> /\ Last(a \o b) = Last(b)
           /\ b = <<>> => a \o b = a
           /\ a = <<>> => a \o b = b
<1>1. CASE b # <<>>
  <2>1. Len(b) \in Nat \ {0} /\ Len(a) \in Nat
    BY <1>1, EmptySeq
  <2>2. /\ a \o b \in Seq(S) /\ Len(a \o b) = Len(a) + Len(b)
        /\ (a \o b)[Len(a) + Len(b)] = b[Len(b)]
    BY <2>1, ConcatProperties
  <2>3. a \o b # <<>>
    BY <2>1, <2>2, EmptySeq
  <2>4. a = <<>> => a \o b = b
    BY ConcatEmptySeq
  <2> QED BY <1>1, <2>2, <2>3, <2>4 DEF Last
<1>2. CASE b = <<>>
  <2>1. a \o <<>> = a
    BY ConcatEmptySeq
  <2>2. a \o b = a
    BY <1>2, <2>1
  <2> QED BY <1>2, <2>2
<1> QED BY <1>1, <1>2

\* The value that counts in two pieces is the later piece's, if it has one.
LEMMA LastInOf ==
    ASSUME NEW parsed, NEW n, NEW S, NEW a \in Seq(S), NEW b \in Seq(S),
           ValuesIn(parsed, n) = a \o b
    PROVE  LastIn(parsed, n) = IF b # <<>> THEN Last(b)
                               ELSE IF a # <<>> THEN Last(a) ELSE Empty
<1> DEFINE c == a \o b
<1>1. /\ b # <<>> => c # <<>> /\ Last(c) = Last(b)
      /\ b = <<>> => c = a
  BY LastConcat
<1> HIDE DEF c
<1>2. LastIn(parsed, n) = IF c = <<>> THEN Empty ELSE Last(c)
  BY DEF LastIn, c
<1> QED BY <1>1, <1>2

\* The last of a sequence that ends in x.
LEMMA LastOne ==
    ASSUME NEW S, NEW s \in Seq(S), NEW x \in S
    PROVE  s \o <<x>> # <<>> /\ Last(s \o <<x>>) = x /\ Last(<<x>>) = x /\ <<x>> # <<>>
<1>1. <<x>> \in Seq(S) /\ <<x>> # <<>> /\ Last(<<x>>) = x
  BY DEF Last
<1> DEFINE b == <<x>>
<1> HIDE DEF b
<1>2. b \in Seq(S) /\ b # <<>> /\ Last(b) = x
  BY <1>1 DEF b
<1>3. s \o b # <<>> /\ Last(s \o b) = Last(b)
  BY <1>2, LastConcat
<1> QED BY <1>1, <1>2, <1>3 DEF b

(* The values of a flag are among those its pairs have. *)
LEMMA ValuesOnly ==
    ASSUME NEW P, P \subseteq Pairs, NEW X, NEW n, \A f \in P : f[1] = n => f[2] \in X
    PROVE  \A s \in Seq(P) : ValuesIn(s, n) \in Seq(X)
<1> DEFINE T == {s \in Seq(P) : ValuesIn(s, n) \in Seq(X)}
<1>0. Seq(P) \subseteq Seq(Pairs)
  BY SeqSubset
<1>1. <<>> \in T
  <2>1. ValuesIn(<<>>, n) = <<>>
    BY ValuesInConcat, EmptySeq
  <2> QED BY <2>1, EmptySeq
<1>2. ASSUME NEW s \in Seq(P), NEW f \in P, s \in T PROVE Append(s, f) \in T
  <2>1. s \in Seq(Pairs) /\ f \in Pairs /\ Append(s, f) \in Seq(P)
    BY <1>0, AppendProperties
  <2>2. /\ Append(s, f) = s \o <<f>>
        /\ ValuesIn(s \o <<f>>, n) =
             IF f[1] = n THEN ValuesIn(s, n) \o <<f[2]>> ELSE ValuesIn(s, n)
    BY <2>1, ValuesInAppend
  <2> DEFINE u == ValuesIn(s, n)
             x == f[2]
  <2>3. u \in Seq(X) /\ (f[1] = n => x \in X)
    BY <1>2
  <2>4. ValuesIn(Append(s, f), n) = IF f[1] = n THEN u \o <<x>> ELSE u
    BY <2>2
  <2> HIDE DEF u, x
  <2>5. f[1] = n => u \o <<x>> \in Seq(X)
    BY <2>3, OneMore
  <2> QED BY <2>1, <2>3, <2>4, <2>5
<1> HIDE DEF T
<1>3. \A s \in Seq(P) : s \in T
  BY <1>1, <1>2, SeqSetInduction
<1> QED BY <1>3 DEF T

(* The value that counts is one that was given. *)
LEMMA LastOccurs ==
    ASSUME NEW n
    PROVE  \A s \in Seq(Pairs) :
             ValuesIn(s, n) # <<>> =>
               \E i \in DOMAIN s : s[i][1] = n /\ s[i][2] = LastIn(s, n)
<1> DEFINE Has(s) == \E i \in DOMAIN s : s[i][1] = n /\ s[i][2] = LastIn(s, n)
           T == {s \in Seq(Pairs) : ValuesIn(s, n) # <<>> => Has(s)}
<1>1. <<>> \in T
  <2>1. ValuesIn(<<>>, n) = <<>>
    BY ValuesInConcat, EmptySeq
  <2> QED BY <2>1, EmptySeq
<1>2. ASSUME NEW s \in Seq(Pairs), NEW f \in Pairs, s \in T PROVE Append(s, f) \in T
  <2>1. /\ Append(s, f) = s \o <<f>> /\ Append(s, f) \in Seq(Pairs)
        /\ ValuesIn(s \o <<f>>, n) =
             IF f[1] = n THEN ValuesIn(s, n) \o <<f[2]>> ELSE ValuesIn(s, n)
    BY ValuesInAppend, AppendProperties
  <2> DEFINE u == ValuesIn(s, n)
             x == f[2]
             t == Append(s, f)
  <2>2. u \in Seq(Emitted) /\ x \in Emitted
    BY ValuesInConcat DEF Pairs
  <2>3. ValuesIn(t, n) = IF f[1] = n THEN u \o <<x>> ELSE u
    BY <2>1
  <2>4. /\ Len(s) + 1 \in DOMAIN t /\ t[Len(s) + 1] = f
        /\ \A i \in DOMAIN s : i \in DOMAIN t /\ t[i] = s[i]
    BY AppendProperties
  <2>5. CASE f[1] = n
    <3> HIDE DEF u, x, t
    <3>1. LastIn(t, n) = x
      BY <2>2, <2>3, <2>5, LastOne DEF LastIn
    <3>2. t[Len(s) + 1][1] = n /\ t[Len(s) + 1][2] = LastIn(t, n)
      BY <2>4, <2>5, <3>1 DEF x
    <3>3. Has(t)
      BY <2>4, <3>2
    <3> QED BY <2>1, <3>3 DEF t
  <2>6. CASE f[1] # n
    <3>1. LastIn(t, n) = LastIn(s, n)
      <4> HIDE DEF t
      <4> QED BY <2>3, <2>6 DEF LastIn
    <3>2. ValuesIn(t, n) # <<>> => Has(s)
      BY <1>2, <2>3, <2>6
    <3>3. Has(s) => Has(t)
      <4> HIDE DEF t
      <4> QED BY <2>4, <3>1
    <3> QED BY <2>1, <3>2, <3>3
  <2> QED BY <2>5, <2>6
<1> HIDE DEF T
<1>3. \A s \in Seq(Pairs) : s \in T
  BY <1>1, <1>2, SeqSetInduction
<1> QED BY <1>3 DEF T

(* What netcage takes of the values of a flag. *)
HeedOf(n, x) == IF n # "--pause" \/ x \in {Yes, <<"1">>} THEN Yes ELSE No
TakenAs(v, n, h, s) ==
    IF n \notin TableOf(v).switch THEN ValuesIn(h, n) = ValuesIn(s, n)
    ELSE /\ ValuesIn(h, n) = <<>> <=> ValuesIn(s, n) = <<>>
         /\ ValuesIn(s, n) # <<>> => LastIn(h, n) = HeedOf(n, LastIn(s, n))

\* What netcage takes of a flag with a value is its values, and of a switch whether it
\* is there.
LEMMA HeedsValues ==
    ASSUME NEW v, NEW n
    PROVE  \A s \in Seq(Pairs) : Heeds(v, s) \in Seq(Pairs) /\ TakenAs(v, n, Heeds(v, s), s)
<1> DEFINE T == {s \in Seq(Pairs) : Heeds(v, s) \in Seq(Pairs) /\ TakenAs(v, n, Heeds(v, s), s)}
<1>1. <<>> \in T
  <2>1. ValuesIn(<<>>, n) = <<>>
    BY ValuesInConcat, EmptySeq
  <2>2. <<>> \in Seq(Pairs)
    BY EmptySeq
  <2>3. Heeds(v, <<>>) = <<>>
    <3> DEFINE e == <<"", Yes>>
    <3>1. e \in Pairs
      BY PairsExist
    <3> HIDE DEF e
    <3> QED BY <2>2, <3>1, OneHeeded
  <2> DEFINE z == <<>>
  <2> HIDE DEF z
  <2>4. ValuesIn(z, n) = <<>> /\ Heeds(v, z) = z /\ z \in Seq(Pairs)
    BY <2>1, <2>2, <2>3 DEF z
  <2>5. z \in T
    BY <2>4 DEF TakenAs
  <2> QED BY <2>5 DEF z
<1>2. ASSUME NEW s \in Seq(Pairs), NEW f \in Pairs, s \in T PROVE Append(s, f) \in T
  <2> DEFINE h == Heeds(v, s)
             e == Heed(v, f)
             t == Append(s, f)
             k == Heeds(v, Append(s, f))
             x == ValuesIn(s, n)
             y == ValuesIn(h, n)
  <2>1. t = s \o <<f>> /\ t \in Seq(Pairs) /\ h \in Seq(Pairs) /\ k = h \o <<e>>
    <3>1. Append(s, f) = s \o <<f>>
      BY OneMore
    <3>2. /\ s \o <<f>> \in Seq(Pairs) /\ Heeds(v, s) \in Seq(Pairs)
          /\ Heeds(v, s \o <<f>>) = Heeds(v, s) \o <<Heed(v, f)>>
      BY OneHeeded
    <3> QED BY <3>1, <3>2
  <2>2. e \in Pairs
    BY HeedTyped
  <2>3. /\ f[2] \in Emitted /\ e[2] \in Emitted /\ e[1] = f[1]
        /\ e[2] = IF f[1] \in TableOf(v).switch THEN HeedOf(f[1], f[2]) ELSE f[2]
    <3>1. f[2] \in Emitted /\ e[2] \in Emitted
      BY <2>2 DEF Pairs
    <3>2. e[1] = f[1] /\ e[2] = IF f[1] \in TableOf(v).switch THEN HeedOf(f[1], f[2]) ELSE f[2]
      BY DEF Heed, HeedOf
    <3> QED BY <3>1, <3>2
  <2>4. x \in Seq(Emitted) /\ y \in Seq(Emitted)
    <3>1. s \in Seq(Pairs) /\ h \in Seq(Pairs)
      BY <2>1
    <3> HIDE DEF h
    <3> QED BY <3>1, ValuesInConcat
  <2>5. TakenAs(v, n, h, s)
    BY <1>2
  <2> HIDE DEF h, e, t, k
  <2>6. ValuesIn(t, n) = IF f[1] = n THEN x \o <<f[2]>> ELSE x
    BY <2>1, ValuesInAppend
  <2>7. k \in Seq(Pairs) /\ ValuesIn(k, n) = IF e[1] = n THEN y \o <<e[2]>> ELSE y
    BY <2>1, <2>2, ValuesInAppend
  <2>8. TakenAs(v, n, k, t)
    <3>1. CASE f[1] = n
      <4> DEFINE b == f[2]
                 c == e[2]
      <4>1. b \in Emitted /\ c \in Emitted /\ x \in Seq(Emitted) /\ y \in Seq(Emitted)
        BY <2>3, <2>4
      <4>2. ValuesIn(t, n) = x \o <<b>> /\ ValuesIn(k, n) = y \o <<c>>
        BY <2>3, <2>6, <2>7, <3>1
      <4>3. c = IF n \in TableOf(v).switch THEN HeedOf(n, b) ELSE b
        BY <2>3, <3>1
      <4>4. n \notin TableOf(v).switch => y = x
        BY <2>5 DEF TakenAs
      <4> HIDE DEF x, y, b, c
      <4>5. x \o <<b>> # <<>> /\ Last(x \o <<b>>) = b
        BY <4>1, LastOne
      <4>6. y \o <<c>> # <<>> /\ Last(y \o <<c>>) = c
        BY <4>1, LastOne
      <4>7. LastIn(t, n) = b /\ LastIn(k, n) = c
        BY <4>2, <4>5, <4>6 DEF LastIn
      <4> QED BY <4>2, <4>3, <4>4, <4>5, <4>6, <4>7 DEF TakenAs
    <3>2. CASE f[1] # n
      <4>1. ValuesIn(t, n) = ValuesIn(s, n) /\ ValuesIn(k, n) = ValuesIn(h, n)
        BY <2>3, <2>6, <2>7, <3>2
      <4>2. LastIn(t, n) = LastIn(s, n) /\ LastIn(k, n) = LastIn(h, n)
        BY <4>1 DEF LastIn
      <4> QED BY <2>5, <4>1, <4>2 DEF TakenAs
    <3> QED BY <3>1, <3>2
  <2> QED BY <2>1, <2>7, <2>8 DEF t, k
<1> HIDE DEF T
<1>3. \A s \in Seq(Pairs) : s \in T
  BY <1>1, <1>2, SeqSetInduction
<1> QED BY <1>3 DEF T

-----------------------------------------------------------------------------
(* The line has been read to its end. *)
LineRead == ScanInv /\ UserInv /\ phase = "dispatched"

\* The parts of a reader.
LEMMA ReaderHas ==
    ASSUME NEW f, NEW p, NEW w, NEW e, NEW r, r = Reader(f, p, w, e)
    PROVE  r.flags = f /\ r.pos = p /\ r.pending = w /\ r.ok
BY DEF Reader

\* A dispatched line was accepted and no flag waits for a value.
LEMMA ReadToTheEnd ==
    ASSUME LineRead
    PROVE  /\ Accepted /\ pending = None
           /\ verb \in Plain => \E g : Agrees(verb, UserRead, flags, pos, None, ended, g)
<1>1. Accepted
  BY DEF LineRead, ScanInv
<1>2. pending = None
  BY <1>1, Zenon DEF Accepted, None
<1>3. ASSUME verb \in Plain PROVE \E g : Agrees(verb, UserRead, flags, pos, None, ended, g)
  <2>1. Understood(verb, UserRead, flags, pos, pending, ended)
    BY <1>3 DEF LineRead, UserInv
  <2> QED BY <1>2, <2>1, Zenon DEF Understood
<1> QED BY <1>1, <1>2, <1>3

(* A jail verb's line, as podman run would read it. *)
LEMMA JailVerbRead ==
    ASSUME LineRead, verb \in {"run", "start"}
    PROVE  flags \in Seq(Pairs) /\ UserRead = Reader(flags, pos, None, ended)
<1>1. PICK g : Agrees(verb, UserRead, flags, pos, None, ended, g)
  BY ReadToTheEnd, Zenon DEF Plain
<1> QED BY <1>1 DEF Agrees

\* A flag without a value has none that counts.
LEMMA NoValues ==
    ASSUME NEW s, NEW n, ValuesIn(s, n) = <<>> PROVE LastIn(s, n) = Empty
BY DEF LastIn

(* A start is handed over only when nothing is lost. *)
LEMMA StartSame ==
    ASSUME LineRead, verb = "start"
    PROVE  LosesNothing(UserRead)
<1>1. Len(pos) = 1 /\ CreatesNothing
  BY ReadToTheEnd DEF Accepted
<1>2. flags \in Seq(Pairs) /\ UserRead = Reader(flags, pos, None, ended)
  BY JailVerbRead
<1>3. UserRead.flags = flags /\ UserRead.pos = pos
  BY <1>2, ReaderHas
<1>4. flags \in Seq(ParsedAs("start"))
  BY DEF LineRead, ScanInv, Parsers
<1>5. PassThroughFlags = <<>> /\ \A f \in {"--volume", "--env"} : Values(f) = <<>>
  BY <1>1 DEF CreatesNothing, On
<1>6. \A n \in PassedNames : LastIn(flags, n) = Empty
  <2> TAKE n \in PassedNames
  <2>1. PassThroughFlags = FlatMap(KeepMap, flags)
    BY <1>2, PassThroughIs
  <2>2. ValuesIn(FlatMap(KeepMap, flags), n) = ValuesIn(flags, n)
    BY <1>2, ValuesInKept
  <2>3. ValuesIn(<<>>, n) = <<>>
    BY EmptySeq, ValuesInConcat
  <2>4. ValuesIn(flags, n) = <<>>
    BY <1>5, <2>1, <2>2, <2>3
  <2> QED BY <2>4, NoValues
<1>7. \A n \in {"--volume", "--env"} : LastIn(flags, n) = Empty
  BY <1>5, NoValues DEF Values
<1>8. \A n \in {"--workdir", "--user", "--entrypoint"} : LastIn(flags, n) = Empty
  BY <1>1 DEF CreatesNothing, Value
<1>9. ASSUME NEW i \in DOMAIN flags
      PROVE  \/ flags[i][1] \in {"--proxy", "--allow", "--interactive", "--tty", "--rm"}
             \/ LastIn(flags, flags[i][1]) = Empty
  <2> DEFINE n == flags[i][1]
  <2>1. flags[i] \in ParsedAs("start")
    BY <1>4
  <2>2. TableOf("start") = RunTable
    BY DEF TableOf, JailVerbs
  <2>3. n \in RunTable.valued \union RunTable.switch
    BY <2>1, <2>2 DEF ParsedAs
  <2>4. n \in RunValued \union {"--interactive", "--tty", "--rm", "--read-only"}
    BY <2>3, RunTableHas
  <2> HIDE DEF n
  <2>5. \/ n \in {"--proxy", "--allow", "--interactive", "--tty", "--rm"}
        \/ n \in PassedNames \/ n \in {"--volume", "--env"}
        \/ n \in {"--workdir", "--user", "--entrypoint"}
    BY <2>4 DEF RunValued, PassedNames
  <2>6. \/ n \in {"--proxy", "--allow", "--interactive", "--tty", "--rm"}
        \/ LastIn(flags, n) = Empty
    BY <1>6, <1>7, <1>8, <2>5
  <2> QED BY <2>6 DEF n
<1> QED BY <1>1, <1>3, <1>9 DEF LosesNothing

(* An inspect. *)
LEMMA InspectSame ==
    ASSUME LineRead, NamesAreWords, verb = "inspect", UserRead.ok
    PROVE  SameReading(UserRead, Reading(verb, {}, Line))
<1> DEFINE args == AllAsWritten(flags)
           given == Reading("inspect", {}, args \o pos)
<1>1. pending = None /\ Len(pos) = 1 /\ pos \in Seq(Given)
  BY ReadToTheEnd DEF Accepted, LineRead, ScanInv
<1>2. PICK k \in BOOLEAN :
        /\ Recorded(UserRead, k)
        /\ k => \E g : UserRead = Reader(g, pos, pending, ended) /\ Clear("inspect", args, g, <<>>)
  <2>1. Forwards(UserRead, flags, pos, pending, ended)
    BY DEF LineRead, UserInv
  <2> QED BY <2>1, Zenon DEF Forwards
<1>3. k
  <2>1. UserRead.ok = k
    BY <1>2 DEF Recorded, Sofar
  <2> QED BY <2>1
<1>4. PICK g : UserRead = Reader(g, pos, None, ended) /\ Clear("inspect", args, g, <<>>)
  BY <1>1, <1>2, <1>3
<1> HIDE DEF args
<1>5. pos = <<pos[1]>> /\ pos[1] \in Emitted /\ ~Dashed(pos[1]) /\ 1 \in DOMAIN pos
  <2>1. 1 \in DOMAIN pos /\ pos[1] \in Given
    <3>1. 1 \in 1 .. Len(pos)
      BY <1>1
    <3> QED BY <1>1, <3>1, ElementOfSeq, LenProperties, Zenon
  <2>2. pos[1] \in Emitted
    BY <2>1, GivenPairs DEF ValuesGiven
  <2>3. ~Dashed(pos[1])
    BY <2>1 DEF NamesAreWords
  <2> QED BY <1>1, <2>1, <2>2, <2>3
<1> DEFINE x == pos[1]
           v == "inspect"
           after == Append(<<>>, x)
<1>6. Clear(v, Append(args, x), g, after)
  <2>1. v \notin {"run", "exec"} /\ Clear(v, args, g, <<>>) /\ x \in Emitted /\ ~Dashed(x)
    BY <1>4, <1>5
  <2> HIDE DEF v, x, after
  <2> QED BY <2>1, SaysWord DEF after
<1>7. args \o pos = Append(args, x) /\ after = pos
  <2>1. args \in Seq(Emitted)
    BY <1>4 DEF Clear
  <2>2. args \o <<x>> = Append(args, x)
    BY <1>5, <2>1, OneMore
  <2>3. after = <<x>>
    OBVIOUS
  <2> QED BY <1>5, <2>2, <2>3
<1>8. given = Reader(g, pos, None, Open)
  <2> HIDE DEF after, x
  <2>1. Reading(v, {}, Append(args, x)) = Reader(g, after, None, Open)
    BY <1>6 DEF Clear
  <2> QED BY <1>7, <2>1
<1>9. Reading(verb, {}, Line) = given
  BY DEF Line, args
<1> DEFINE u == UserRead
<1> HIDE DEF given, x, after, u
<1>10. u.flags = g /\ u.pos = pos /\ u.pending = "" /\ u.ok
  <2>1. u.flags = g /\ u.pos = pos /\ u.pending = None /\ u.ok
    BY <1>4, ReaderHas DEF u
  <2> QED BY <2>1 DEF None
<1>11. given.flags = g /\ given.pos = pos /\ given.pending = "" /\ given.ok
  <2>1. given.flags = g /\ given.pos = pos /\ given.pending = None /\ given.ok
    BY <1>8, ReaderHas
  <2> QED BY <2>1 DEF None
<1>12. pos # <<>>
  <2>1. ASSUME pos = <<>> PROVE FALSE
    <3>1. Len(pos) = 0
      BY <2>1
    <3> QED BY <1>1, <3>1
  <2> QED BY <2>1
<1>13. \A f : AskedAll(g, f) = ValuesIn(g, f) /\ AskedLast(g, f) = LastIn(g, f)
              /\ (AskedOn(g, f) <=> LastIn(g, f) \in Truths)
  BY Zenon DEF AskedAll, AskedLast, AskedOn
<1>14. SameReading(u, given)
  BY <1>10, <1>11, <1>12, <1>13 DEF SameReading
<1> QED BY <1>9, <1>14 DEF u

-----------------------------------------------------------------------------
\* A run that is scanned has parsed its flags.
LEMMA ScanIsRun ==
    ASSUME ScanInv, verb = "run"
    PROVE  RunParsed
<1>1. ParsedAs("run") \subseteq RunPairs
  <2>1. TableOf("run") = RunTable
    BY DEF TableOf, JailVerbs
  <2>2. /\ "--pause" \notin RunTable.switch
        /\ RunTable.valued \intersect RunTable.switch = {}
    BY RunTableHas DEF RunValued, passThroughValueFlags
  <2> QED BY <2>1, <2>2 DEF ParsedAs, RunPairs
<1>2. flags \in Seq(ParsedAs("run"))
  BY DEF ScanInv, Parsers
<1>3. flags \in Seq(RunPairs)
  BY <1>1, <1>2, SeqSubset
<1> QED BY <1>3 DEF RunParsed, ScanInv

\* podman takes "true" for true, and neither nothing nor "false".
LEMMA YesIsTrue == Yes \in Truths /\ Empty \notin Truths /\ No \notin Truths
<1>1. \A x \in Truths : x[1] \in {"true", "1", "t", "T", "TRUE", "True"}
  BY DEF Truths, Yes
<1>2. Empty[1] = "" /\ No[1] = "false"
  BY DEF Empty, No
<1>3. Empty \notin Truths /\ No \notin Truths
  BY <1>1, <1>2
<1> QED BY <1>3 DEF Truths

\* A switch of a run is on exactly if its value is true: netcage accepts no other value.
LEMMA RunSwitchOn ==
    ASSUME RunParsed, NEW n \in RunTable.switch
    PROVE  LastIn(flags, n) \in Truths <=> On(n)
<1>1. RunPairs \subseteq Pairs /\ \A f \in RunPairs : f[1] = n => f[2] \in {Yes}
  BY GivenPairs DEF RunPairs
<1> DEFINE X == {Yes}
<1>2. \A f \in RunPairs : f[1] = n => f[2] \in X
  BY <1>1
<1> HIDE DEF X
<1>3. ValuesIn(flags, n) \in Seq(X)
  BY <1>1, <1>2, ValuesOnly DEF RunParsed
<1>4. ValuesIn(flags, n) # <<>> => Last(ValuesIn(flags, n)) \in X
  <2> DEFINE vs == ValuesIn(flags, n)
  <2>1. vs \in Seq(X)
    BY <1>3
  <2> HIDE DEF vs
  <2>2. ASSUME vs # <<>> PROVE Last(vs) \in X
    <3>1. Len(vs) \in DOMAIN vs
      BY <2>1, <2>2, EmptySeq
    <3> QED BY <2>1, <3>1 DEF Last
  <2> QED BY <2>2 DEF vs
<1>5. CASE ValuesIn(flags, n) = <<>>
  BY <1>5, YesIsTrue, NoValues DEF On, Values
<1>6. CASE ValuesIn(flags, n) # <<>>
  BY <1>4, <1>6, YesIsTrue DEF On, Values, LastIn, X
<1> QED BY <1>5, <1>6

\* The value that counts of a flag that is written only when it has one.
LEMMA LastOneValue ==
    ASSUME NEW x \in Emitted
    PROVE  /\ OneValue(x) \in Seq(Emitted)
           /\ x # Empty => OneValue(x) # <<>> /\ Last(OneValue(x)) = x
           /\ x = Empty => OneValue(x) = <<>>
<1>1. <<>> \in Seq(Emitted) /\ <<x>> \in Seq(Emitted)
  BY EmptySeq
<1>2. <<x>> # <<>> /\ Last(<<x>>) = x
  BY <1>1, LastOne
<1> QED BY <1>1, <1>2 DEF OneValue

\* Which of a run's flags are passed through and which are written by netcage.
LEMMA RunNotPassed ==
    /\ {"--volume", "--workdir", "--env", "--user", "--entrypoint", "--rm", "--interactive",
        "--tty", "--privileged"} \intersect PassedNames = {}
    /\ {"--label", "--hostname", "--read-only"} \subseteq PassedNames
BY DEF PassedNames, passThroughValueFlags

(* The values of the tool's flags are the user's, with the promised defaults. *)
LEMMA RunValuesSame ==
    ASSUME RunParsed, NEW f \in RunValued \ {"--proxy", "--allow"}
    PROVE  IF f \in Repeatable THEN ValuesIn(RunRead, f) = AskedAll(flags, f)
           ELSE LastIn(RunRead, f) = AskedLast(flags, f)
<1> DEFINE a == JailValues(f)
           b == UserValues(f)
           vs == ValuesIn(flags, f)
<1>1. verb = "run" /\ vs = Values(f)
  BY Zenon DEF RunParsed, Values
<1>2. ValuesIn(RunRead, f) = a \o b /\ a \in Seq(Emitted) /\ b \in Seq(Emitted)
  BY RunReadValues
<1>3. /\ LastIn(RunRead, f) = IF b # <<>> THEN Last(b) ELSE IF a # <<>> THEN Last(a) ELSE Empty
      /\ a = <<>> => a \o b = b
  <2> HIDE DEF a, b
  <2>1. LastIn(RunRead, f) = IF b # <<>> THEN Last(b) ELSE IF a # <<>> THEN Last(a) ELSE Empty
    BY <1>2, LastInOf
  <2>2. a = <<>> => a \o b = b
    BY <1>2, LastConcat
  <2> QED BY <2>1, <2>2
<1>4. /\ f \notin {"--name", "--rm", "--network", "--interactive", "--tty"}
      /\ f \notin {"--volume", "--workdir", "--env", "--user", "--entrypoint"} => f \in PassedNames
  BY DEF RunValued, passThroughValueFlags, PassedNames
<1>5. LastIn(flags, f) = IF vs = <<>> THEN Empty ELSE Last(vs)
  BY DEF LastIn
<1>6. /\ Value("--user") \in Emitted /\ Value("--entrypoint") \in Emitted /\ Workdir \in Emitted
  BY RunParsedTypes
<1>7. CASE f = "--volume"
  <2>1. f \in Repeatable /\ a = <<Fixtures>> /\ b = TheMounts
    BY <1>7, Zenon DEF Repeatable, JailValues, UserValues
  <2>2. AskedAll(flags, f) = <<Fixtures>> \o TheMounts
    BY <1>1, <1>7, Zenon DEF AskedAll, TheMounts, Values
  <2> QED BY <1>2, <2>1, <2>2
<1>8. CASE f = "--label"
  <2>1. f \in Repeatable /\ a = <<RunLabel>> /\ b = Values(f)
    BY <1>4, <1>8, RunNotPassed DEF Repeatable, JailValues, UserValues
  <2>2. AskedAll(flags, f) = <<RunLabel>> \o vs
    BY <1>1, <1>8 DEF AskedAll
  <2> QED BY <1>1, <1>2, <2>1, <2>2
<1>9. CASE f = "--env"
  <2>1. f \in Repeatable /\ a = <<>> /\ b = Values(f)
    BY <1>9 DEF Repeatable, JailValues, UserValues
  <2>2. AskedAll(flags, f) = vs
    BY <1>1, <1>9 DEF AskedAll
  <2> HIDE DEF a, b, vs
  <2> QED BY <1>1, <1>2, <1>3, <2>1, <2>2
<1>10. CASE f = "--workdir"
  <2>1. f \notin Repeatable /\ a = <<>> /\ b = OneValue(Workdir)
    BY <1>10 DEF Repeatable, JailValues, UserValues
  <2>2. LastIn(RunRead, f) = Workdir
    <3> HIDE DEF a, b
    <3> QED BY <1>3, <1>6, <2>1, LastOneValue
  <2>3. AskedLast(flags, f) = Workdir
    BY <1>1, <1>10 DEF AskedLast, Workdir, Value, Values
  <2> QED BY <2>1, <2>2, <2>3
<1>11. CASE f \in {"--user", "--entrypoint"}
  <2>1. f \notin Repeatable /\ a = <<>> /\ b = OneValue(Value(f))
    BY <1>11 DEF Repeatable, JailValues, UserValues
  <2>2. LastIn(RunRead, f) = Value(f)
    <3>1. Value(f) \in Emitted
      BY <1>6, <1>11
    <3> HIDE DEF a, b
    <3> QED BY <1>3, <2>1, <3>1, LastOneValue
  <2>3. AskedLast(flags, f) = Value(f)
    BY <1>1, <1>11 DEF AskedLast, Value
  <2> QED BY <2>1, <2>2, <2>3
<1>12. CASE f = "--hostname"
  <2>1. f \notin Repeatable /\ a = <<FixedHostname>> /\ b = Values(f)
    BY <1>12, RunNotPassed DEF Repeatable, JailValues, UserValues
  <2>2. AskedLast(flags, f) = IF vs = <<>> THEN FixedHostname ELSE LastIn(flags, f)
    BY <1>1, <1>12 DEF AskedLast
  <2>3. a # <<>> /\ Last(a) = FixedHostname
    <3>1. FixedHostname \in Emitted /\ <<>> \in Seq(Emitted)
      BY EmptyEmitted, EmptySeq
    <3>2. <<FixedHostname>> # <<>> /\ Last(<<FixedHostname>>) = FixedHostname
      BY <3>1, LastOne
    <3> QED BY <2>1, <3>2
  <2> HIDE DEF a, b, vs
  <2> QED BY <1>1, <1>3, <1>5, <2>1, <2>2, <2>3
<1>13. CASE f \notin {"--volume", "--label", "--env", "--workdir", "--user", "--entrypoint",
                      "--hostname"}
  <2>1. a = <<>> /\ b = Values(f)
    BY <1>4, <1>13 DEF JailValues, UserValues
  <2>2. AskedAll(flags, f) = vs /\ AskedLast(flags, f) = LastIn(flags, f)
    <3> HIDE DEF vs, a, b
    <3>1. AskedAll(flags, f) = ValuesIn(flags, f)
      BY <1>13 DEF AskedAll
    <3>2. AskedLast(flags, f) = LastIn(flags, f)
      BY <1>13 DEF AskedLast
    <3> QED BY <3>1, <3>2 DEF vs
  <2> HIDE DEF a, b, vs
  <2> QED BY <1>1, <1>2, <1>3, <1>5, <2>1, <2>2
<1> QED BY <1>7, <1>8, <1>9, <1>10, <1>11, <1>12, <1>13

(* And so are its switches. *)
LEMMA RunSwitchesSame ==
    ASSUME RunParsed,
           NEW f \in {"--interactive", "--tty", "--rm", "--read-only", "--privileged"}
    PROVE  LastIn(RunRead, f) \in Truths <=> AskedOn(flags, f)
<1> DEFINE a == JailValues(f)
           b == UserValues(f)
<1>1. verb = "run" /\ flags \in Seq(RunPairs) /\ flags \in Seq(Pairs)
  BY RunParsedTypes DEF RunParsed
<1>2. ValuesIn(RunRead, f) = a \o b /\ a \in Seq(Emitted) /\ b \in Seq(Emitted)
  BY RunReadValues
<1>3. LastIn(RunRead, f) = IF b # <<>> THEN Last(b) ELSE IF a # <<>> THEN Last(a) ELSE Empty
  <2> HIDE DEF a, b
  <2> QED BY <1>2, LastInOf
<1>4. /\ <<Yes>> # <<>> /\ Last(<<Yes>>) = Yes
  <2>1. Yes \in Emitted /\ <<>> \in Seq(Emitted)
    BY EmptyEmitted, EmptySeq
  <2> QED BY <2>1, LastOne
<1>5. \A n \in {"--interactive", "--tty", "--rm"} : LastIn(flags, n) \in Truths <=> On(n)
  BY RunSwitchOn, RunTableHas
<1>6. CASE f \in {"--interactive", "--tty"}
  <2>1. a = If(Interactive, <<Yes>>) /\ b = <<>>
    BY <1>6, RunNotPassed DEF JailValues, UserValues
  <2>2. LastIn(RunRead, f) = IF Interactive THEN Yes ELSE Empty
    <3> HIDE DEF a, b
    <3> QED BY <1>3, <1>4, <2>1 DEF If
  <2>3. AskedOn(flags, f) <=> Interactive
    <3>1. AskedOn(flags, f) <=> \E g \in {"--interactive", "--tty"} : LastIn(flags, g) \in Truths
      BY <1>1, <1>6 DEF AskedOn
    <3> QED BY <1>5, <3>1 DEF Interactive
  <2> QED BY <2>2, <2>3, YesIsTrue
<1>7. CASE f = "--rm"
  <2>1. a = If(On("--rm"), <<Yes>>) /\ b = <<>>
    BY <1>7, RunNotPassed DEF JailValues, UserValues
  <2>2. LastIn(RunRead, f) = IF On("--rm") THEN Yes ELSE Empty
    <3> HIDE DEF a, b
    <3> QED BY <1>3, <1>4, <2>1 DEF If
  <2>3. AskedOn(flags, f) <=> LastIn(flags, f) \in Truths
    BY <1>7 DEF AskedOn
  <2> QED BY <1>5, <1>7, <2>2, <2>3, YesIsTrue
<1>8. CASE f = "--read-only"
  <2>1. a = <<>> /\ b = ValuesIn(flags, f)
    BY <1>8, RunNotPassed DEF JailValues, UserValues, Values
  <2>2. LastIn(RunRead, f) = LastIn(flags, f)
    <3> HIDE DEF a, b
    <3> QED BY <1>3, <2>1 DEF LastIn
  <2>3. AskedOn(flags, f) <=> LastIn(flags, f) \in Truths
    BY <1>8 DEF AskedOn
  <2> QED BY <2>2, <2>3
<1>9. CASE f = "--privileged"
  <2>1. a = <<>> /\ b = <<>>
    BY <1>9, RunNotPassed DEF JailValues, UserValues
  <2>2. LastIn(RunRead, f) = Empty
    <3> HIDE DEF a, b
    <3> QED BY <1>3, <2>1
  <2>3. AskedOn(flags, f) <=> LastIn(flags, f) \in Truths
    BY <1>9 DEF AskedOn
  <2>4. ValuesIn(flags, f) \in Seq({})
    <3> DEFINE X == {}
    <3>1. RunPairs \subseteq Pairs /\ \A g \in RunPairs : g[1] = f => g[2] \in X
      BY <1>9, GivenPairs, RunTableHas DEF RunPairs, RunValued, passThroughValueFlags
    <3> HIDE DEF X
    <3>2. ValuesIn(flags, f) \in Seq(X)
      BY <1>1, <3>1, ValuesOnly
    <3> QED BY <3>2 DEF X
  <2>5. ValuesIn(flags, f) = <<>>
    <3> DEFINE vs == ValuesIn(flags, f)
    <3>1. vs \in Seq({})
      BY <2>4
    <3> HIDE DEF vs
    <3>2. vs = <<>>
      BY <3>1, EmptySeq
    <3> QED BY <3>2 DEF vs
  <2> QED BY <2>2, <2>3, <2>5, NoValues, YesIsTrue
<1> QED BY <1>6, <1>7, <1>8, <1>9

\* What podman runs is what the user's own line asks for, in the jail.
LEMMA RunSame ==
    ASSUME LineRead, NamesAreWords, verb = "run"
    PROVE  SameReading(UserRead, Reading(verb, {}, Line))
<1> DEFINE u == UserRead
           given == Reading("run", {}, ToolRunArgs)
<1>1. RunParsed
  BY ScanIsRun DEF LineRead
<1>2. u = Reader(flags, pos, None, ended)
  BY JailVerbRead
<1>3. given = Reader(RunRead, Image, None, Over)
  <2>1. pos # <<>> => 1 \in DOMAIN pos
    BY <1>1, EmptySeq DEF RunParsed
  <2>2. pos = <<>> \/ ~Dashed(pos[1])
    BY <2>1 DEF NamesAreWords
  <2> QED BY <1>1, <2>2, RunLineRead
<1>4. Reading(verb, {}, Line) = given
  BY DEF Line
<1> HIDE DEF u, given
<1>5. u.flags = flags /\ u.pos = pos /\ u.pending = "" /\ u.ok
  <2>1. u.flags = flags /\ u.pos = pos /\ u.pending = None /\ u.ok
    BY <1>2, ReaderHas
  <2> QED BY <2>1 DEF None
<1>6. given.flags = RunRead /\ given.pos = Image /\ given.pending = "" /\ given.ok
  <2>1. given.flags = RunRead /\ given.pos = Image /\ given.pending = None /\ given.ok
    BY <1>3, ReaderHas
  <2> QED BY <2>1 DEF None
<1>7. /\ PodmanTable(verb).switch =
           {"--interactive", "--tty", "--rm", "--read-only", "--privileged"}
      /\ PodmanTable(verb).valued \ denyReasons \subseteq RunValued \ {"--proxy", "--allow"}
  <2>1. "run" \in Readers
    BY DEF Readers
  <2> QED BY <2>1, RunTableIs, TableIs
<1>8. Image = CASE pos = <<>> -> <<DefaultImage>>
                [] verb = "commit" -> <<Tool, pos[2]>>
                [] OTHER -> pos
  BY DEF Image
<1>9. \A f \in PodmanTable(verb).valued \ denyReasons :
        IF f \in Repeatable THEN ValuesIn(RunRead, f) = AskedAll(flags, f)
        ELSE LastIn(RunRead, f) = AskedLast(flags, f)
  BY <1>1, <1>7, RunValuesSame
<1>10. \A f \in PodmanTable(verb).switch : LastIn(RunRead, f) \in Truths <=> AskedOn(flags, f)
  BY <1>1, <1>7, RunSwitchesSame
<1>11. SameReading(u, given)
  BY <1>5, <1>6, <1>8, <1>9, <1>10 DEF SameReading
<1> QED BY <1>4, <1>11 DEF u

-----------------------------------------------------------------------------
(* What netcage keeps of the flags podman would read on the user's line. *)
LEMMA KeptOf ==
    ASSUME LineRead, verb \in {"exec", "commit"}, NEW g,
           Agrees(verb, UserRead, flags, pos, None, ended, g)
    PROVE  /\ g \in Seq(Pairs) /\ flags \in Seq(Pairs)
           /\ \A n : n \notin TableOf(verb).switch =>
                Values(n) = ValuesIn(g, n) /\ Value(n) = LastIn(g, n)
           /\ \A n \in TableOf(verb).switch :
                /\ On(n) <=> ValuesIn(g, n) # <<>>
                /\ On(n) => Value(n) = HeedOf(n, LastIn(g, n))
<1>1. g \in Seq(Pairs) /\ flags = Heeds(verb, g)
  BY DEF Agrees
<1>2. flags \in Seq(Pairs) /\ \A n : TakenAs(verb, n, flags, g)
  <2> DEFINE h == Heeds(verb, g)
  <2>1. h \in Seq(Pairs) /\ \A n : TakenAs(verb, n, h, g)
    BY <1>1, HeedsValues
  <2> HIDE DEF h
  <2>2. flags = h
    BY <1>1 DEF h
  <2> QED BY <2>1, <2>2
<1>3. ASSUME NEW n, n \notin TableOf(verb).switch
      PROVE  Values(n) = ValuesIn(g, n) /\ Value(n) = LastIn(g, n)
  <2>1. ValuesIn(flags, n) = ValuesIn(g, n)
    BY <1>2, <1>3 DEF TakenAs
  <2> QED BY <2>1 DEF Values, Value, LastIn
<1>4. ASSUME NEW n \in TableOf(verb).switch
      PROVE  /\ On(n) <=> ValuesIn(g, n) # <<>>
             /\ On(n) => Value(n) = HeedOf(n, LastIn(g, n))
  <2>1. /\ ValuesIn(flags, n) = <<>> <=> ValuesIn(g, n) = <<>>
        /\ ValuesIn(g, n) # <<>> => LastIn(flags, n) = HeedOf(n, LastIn(g, n))
    BY <1>2, <1>4 DEF TakenAs
  <2> QED BY <2>1 DEF On, Values, Value
<1> QED BY <1>1, <1>2, <1>3, <1>4

\* Where the values of switches are heeded, a switch is on as podman would have it.
LEMMA HeededOn ==
    ASSUME LineRead, verb \in {"exec", "commit"}, NEW g,
           Agrees(verb, UserRead, flags, pos, None, ended, g), Heeded(g),
           NEW n \in TableOf(verb).switch
    PROVE  /\ n # "--pause" => (LastIn(g, n) \in Truths <=> On(n))
           /\ n = "--pause" => (LastIn(g, n) \in Truths <=> On(n) /\ Value(n) = Yes)
<1>1. g \in Seq(Pairs) /\ (On(n) <=> ValuesIn(g, n) # <<>>)
      /\ (On(n) => Value(n) = HeedOf(n, LastIn(g, n)))
  BY KeptOf
<1>2. CASE ~On(n)
  <2>1. LastIn(g, n) = Empty
    BY <1>1, <1>2, NoValues
  <2> QED BY <1>2, <2>1, YesIsTrue
<1>3. CASE On(n)
  <2>1. PICK i \in DOMAIN g : g[i][1] = n /\ g[i][2] = LastIn(g, n)
    BY <1>1, <1>3, LastOccurs
  <2>2. IF n = "--pause" THEN LastIn(g, n) \notin Truths \ {Yes, <<"1">>}
        ELSE LastIn(g, n) \in Truths
    BY <2>1 DEF Heeded
  <2> DEFINE x == LastIn(g, n)
             one == <<"1">>
  <2>3. one \in Truths
    BY DEF Truths
  <2>4. Value(n) = IF n # "--pause" \/ x \in {Yes, one} THEN Yes ELSE No
    BY <1>1, <1>3 DEF HeedOf
  <2>5. IF n = "--pause" THEN x \notin Truths \ {Yes, one} ELSE x \in Truths
    BY <2>2
  <2> HIDE DEF x, one
  <2>6. /\ n # "--pause" => (x \in Truths <=> On(n))
        /\ n = "--pause" => (x \in Truths <=> On(n) /\ Value(n) = Yes)
    BY <1>3, <2>3, <2>4, <2>5, YesIsTrue
  <2> QED BY <2>6 DEF x
<1> QED BY <1>2, <1>3

\* The types of what an exec or a commit has parsed.
LEMMA ParsedTypes ==
    ASSUME LineRead, verb \in {"exec", "commit"}, NEW n
    PROVE  Values(n) \in Seq(Emitted) /\ Value(n) \in Emitted /\ On(n) \in BOOLEAN
<1>1. flags \in Seq(ParsedAs(verb)) /\ ParsedAs(verb) \subseteq Names \X ValuesGiven
  BY DEF LineRead, ScanInv, Parsers, ParsedAs
<1>2. flags \in Seq(Names \X ValuesGiven)
  BY <1>1, SeqSubset
<1>3. flags \in Seq(Pairs)
  BY <1>2, GivenPairs, SeqSubset
<1>4. Value(n) \in Emitted
  BY <1>2, LastInGiven DEF Value
<1>5. Values(n) \in Seq(Emitted)
  BY <1>3, ValuesInConcat DEF Values
<1> QED BY <1>4, <1>5 DEF On

(* The values of the pieces that are parsed. *)
Piece(q, m, x) ==
    q \in Seq(Pairs) /\ x \in Seq(Emitted)
      /\ \A n : ValuesIn(q, n) = IF m = n THEN x ELSE <<>>

\* A switch has one value in its piece.
LEMMA SwitchPiece ==
    ASSUME NEW m \in Names, NEW x \in Emitted, NEW c \in BOOLEAN
    PROVE  Piece(If(c, <<<<m, x>>>>), m, If(c, <<x>>))
<1> DEFINE f == <<<<m, x>>>>
<1>1. f \in Seq(Pairs) /\ \A n : ValuesIn(f, n) = IF m = n THEN <<x>> ELSE <<>>
  BY ValuesInOnePair
<1> HIDE DEF f
<1>2. If(c, f) \in Seq(Pairs) /\ \A n : ValuesIn(If(c, f), n) = IF c THEN ValuesIn(f, n) ELSE <<>>
  BY <1>1, ValuesInIf
<1>3. <<x>> \in Seq(Emitted) /\ <<>> \in Seq(Emitted)
  BY EmptySeq
<1> DEFINE y == <<x>>
           z == <<>>
           q == If(c, f)
<1>4. /\ y \in Seq(Emitted) /\ z \in Seq(Emitted) /\ If(c, y) = IF c THEN y ELSE z
      /\ q \in Seq(Pairs) /\ \A n : ValuesIn(q, n) = IF c THEN IF m = n THEN y ELSE z ELSE z
  BY <1>1, <1>2, <1>3 DEF If
<1> HIDE DEF y, q, z
<1>5. \A n : ValuesIn(q, n) = IF m = n THEN If(c, y) ELSE z
  BY <1>4
<1>6. Piece(q, m, If(c, y))
  BY <1>4, <1>5 DEF Piece, z
<1> QED BY <1>6 DEF q, y, f

\* A flag with one value has it in its piece.
LEMMA OnePiece ==
    ASSUME NEW m \in Names, NEW x \in Emitted
    PROVE  Piece(OneFlag(m, x), m, OneValue(x))
<1> DEFINE q == OneFlag(m, x)
<1>1. q \in Seq(Pairs) /\ \A n : ValuesIn(q, n) = IF m = n /\ x # Empty THEN <<x>> ELSE <<>>
  <2>1. OneFlag(m, x) \in Seq(Pairs)
        /\ \A n : ValuesIn(OneFlag(m, x), n) = IF m = n /\ x # Empty THEN <<x>> ELSE <<>>
    BY ValuesInOneFlag
  <2> QED BY <2>1
<1>2. OneValue(x) \in Seq(Emitted)
  BY LastOneValue
<1> HIDE DEF q
<1>3. \A n : ValuesIn(q, n) = IF m = n THEN OneValue(x) ELSE <<>>
  BY <1>1 DEF OneValue
<1>4. Piece(q, m, OneValue(x))
  BY <1>1, <1>2, <1>3 DEF Piece
<1> QED BY <1>4 DEF q

\* A repeated flag has its values in its piece.
LEMMA TagPiece ==
    ASSUME NEW m \in Names, NEW vs \in Seq(Emitted)
    PROVE  Piece(Tagged(m, vs), m, vs)
<1> DEFINE q == Tagged(m, vs)
<1>1. \A n : Tagged(m, vs) \in Seq(Pairs)
              /\ ValuesIn(Tagged(m, vs), n) = IF m = n THEN vs ELSE <<>>
  BY ValuesInTagged
<1>2. q \in Seq(Pairs) /\ \A n : ValuesIn(q, n) = IF m = n THEN vs ELSE <<>>
  BY <1>1
<1> HIDE DEF q
<1>3. Piece(q, m, vs)
  BY <1>2 DEF Piece
<1> QED BY <1>3 DEF q

\* A piece for a flag that is not there yet gives that flag its values.
LEMMA Joined ==
    ASSUME NEW p \in Seq(Pairs), NEW q, NEW m, NEW x, Piece(q, m, x), ValuesIn(p, m) = <<>>
    PROVE  /\ p \o q \in Seq(Pairs)
           /\ \A n : ValuesIn(p \o q, n) = IF m = n THEN x ELSE ValuesIn(p, n)
<1>1. q \in Seq(Pairs) /\ x \in Seq(Emitted)
  BY DEF Piece
<1>2. p \o q \in Seq(Pairs)
  BY <1>1, ConcatProperties
<1>3. ASSUME NEW n PROVE ValuesIn(p \o q, n) = IF m = n THEN x ELSE ValuesIn(p, n)
  <2> DEFINE a == ValuesIn(p, n)
             b == ValuesIn(q, n)
  <2>1. ValuesIn(p \o q, n) = a \o b
    BY <1>1, ValuesInConcat
  <2>2. b = IF m = n THEN x ELSE <<>>
    BY Zenon DEF Piece
  <2>3. a \in Seq(Emitted) /\ b \in Seq(Emitted) /\ (m = n => a = <<>>)
    BY <1>1, ValuesInConcat
  <2> HIDE DEF a, b
  <2>4. (b = <<>> => a \o b = a) /\ (a = <<>> => a \o b = b)
    BY <2>3, LastConcat
  <2>5. a \o b = IF m = n THEN x ELSE a
    BY <2>2, <2>3, <2>4
  <2> QED BY <2>1, <2>5 DEF a
<1> QED BY <1>2, <1>3

-----------------------------------------------------------------------------
(* The line of an exec. *)
ExecRead ==
    If(On("--interactive"), <<<<"--interactive", Yes>>>>)
      \o If(On("--tty"), <<<<"--tty", Yes>>>>)
      \o OneFlag("--workdir", Value("--workdir")) \o OneFlag("--user", Value("--user"))
      \o Tagged("--env", Values("--env"))
ExecFlagArgs ==
    If(On("--interactive"), <<<<"-i">>>>) \o If(On("--tty"), <<<<"-t">>>>)
      \o One("-w", Value("--workdir")) \o One("-u", Value("--user"))
      \o Each("-e", Values("--env"))
ExecValues(n) ==
    IF n \in {"--interactive", "--tty"} THEN If(On(n), <<Yes>>)
    ELSE IF n \in {"--workdir", "--user"} THEN OneValue(Value(n))
    ELSE IF n = "--env" THEN Values(n)
    ELSE <<>>

\* The words the line of an exec is written in.
LEMMA ExecWords ==
    ASSUME "exec" \in DOMAIN Arguments
    PROVE  /\ SwitchWord("exec", "-i", "--interactive") /\ SwitchWord("exec", "-t", "--tty")
           /\ FlagWord("exec", "-w", "--workdir") /\ FlagWord("exec", "-u", "--user")
           /\ FlagWord("exec", "-e", "--env")
<1>1. "exec" \in Readers /\ PodmanTable("exec") = TableOf("exec")
  BY DEF Readers, PodmanTable
<1>2. /\ TableOf("exec").switch = {"--interactive", "--tty"}
      /\ TableOf("exec").valued = {"--workdir", "--user", "--env"}
      /\ TableOf("exec").short = ExecShort
  BY DEF TableOf, Table, JailVerbs
<1>3. /\ DOMAIN ExecShort = {"-i", "-t", "-w", "-e", "-u"}
      /\ ExecShort["-i"] = "--interactive" /\ ExecShort["-t"] = "--tty"
      /\ ExecShort["-w"] = "--workdir" /\ ExecShort["-u"] = "--user" /\ ExecShort["-e"] = "--env"
  BY DEF ExecShort, Short
<1>4. \A w \in DOMAIN ExecShort :
        /\ ExecShort[w] \in PodmanTable("exec").valued => FlagWord("exec", w, ExecShort[w])
        /\ ExecShort[w] \in PodmanTable("exec").switch => SwitchWord("exec", w, ExecShort[w])
  BY <1>1, <1>2, ShortWord
<1> QED BY <1>1, <1>2, <1>3, <1>4

\* podman reads the flags of the line to those netcage has parsed.
LEMMA SaysExec ==
    ASSUME LineRead, verb = "exec"
    PROVE  Says("exec", ExecFlagArgs, ExecRead)
<1>0. "exec" \in DOMAIN Arguments /\ Yes \in Emitted
      /\ \A n : Values(n) \in Seq(Emitted) /\ Value(n) \in Emitted /\ On(n) \in BOOLEAN
  BY ParsedTypes, EmptyEmitted DEF LineRead, ScanInv
<1> DEFINE a1 == If(On("--interactive"), <<<<"-i">>>>)
           a2 == If(On("--tty"), <<<<"-t">>>>)
           a3 == One("-w", Value("--workdir"))
           a4 == One("-u", Value("--user"))
           a5 == Each("-e", Values("--env"))
           f1 == If(On("--interactive"), <<<<"--interactive", Yes>>>>)
           f2 == If(On("--tty"), <<<<"--tty", Yes>>>>)
           f3 == OneFlag("--workdir", Value("--workdir"))
           f4 == OneFlag("--user", Value("--user"))
           f5 == Tagged("--env", Values("--env"))
<1>1. Says("exec", a1, f1)
  BY <1>0, ExecWords, SaysASwitch, SaysIf
<1>2. Says("exec", a2, f2)
  BY <1>0, ExecWords, SaysASwitch, SaysIf
<1>3. Says("exec", a3, f3)
  BY <1>0, ExecWords, SaysOne
<1>4. Says("exec", a4, f4)
  BY <1>0, ExecWords, SaysOne
<1>5. Says("exec", a5, f5)
  BY <1>0, ExecWords, SaysEach
<1>6. ExecFlagArgs = a1 \o a2 \o a3 \o a4 \o a5 /\ ExecRead = f1 \o f2 \o f3 \o f4 \o f5
  BY DEF ExecFlagArgs, ExecRead
<1> HIDE DEF a1, a2, a3, a4, a5, f1, f2, f3, f4, f5
<1>7. Says("exec", a1 \o a2, f1 \o f2)
  BY <1>1, <1>2, SaysConcat
<1>8. Says("exec", a1 \o a2 \o a3, f1 \o f2 \o f3)
  BY <1>3, <1>7, SaysConcat
<1>9. Says("exec", a1 \o a2 \o a3 \o a4, f1 \o f2 \o f3 \o f4)
  BY <1>4, <1>8, SaysConcat
<1>10. Says("exec", a1 \o a2 \o a3 \o a4 \o a5, f1 \o f2 \o f3 \o f4 \o f5)
  BY <1>5, <1>9, SaysConcat
<1> QED BY <1>6, <1>10

\* podman reads the line of an exec to those flags, the tool and its command.
LEMMA ExecLineRead ==
    ASSUME LineRead, NamesAreWords, verb = "exec"
    PROVE  Reading("exec", {}, ExecArgs) = Reader(ExecRead, pos, None, Over)
<1>1. ExecArgs = ExecFlagArgs \o pos
  BY Zenon DEF ExecArgs, ExecFlagArgs
<1>2. Clear("exec", ExecFlagArgs, ExecRead, <<>>)
  BY SaysExec, SaysAll
<1>3. Len(pos) >= 2 /\ pos \in Seq(Given)
  BY ReadToTheEnd DEF Accepted, LineRead, ScanInv
<1>4. pos \in Seq(Emitted) /\ pos # <<>> /\ ~Dashed(pos[1])
  <2>1. Given \subseteq Emitted
    BY GivenPairs DEF ValuesGiven
  <2>2. pos \in Seq(Emitted)
    BY <1>3, <2>1, SeqSubset
  <2>3. 1 \in DOMAIN pos /\ pos # <<>>
    BY <1>3
  <2>4. ~Dashed(pos[1])
    BY <2>3 DEF NamesAreWords
  <2> QED BY <2>2, <2>3, <2>4
<1> DEFINE v == "exec"
<1>5. Reading(v, {}, ExecFlagArgs \o pos) = Reader(ExecRead, pos, None, Over)
  <2>1. v \in {"run", "exec"} /\ Clear(v, ExecFlagArgs, ExecRead, <<>>)
    BY <1>2
  <2> HIDE DEF v
  <2> QED BY <1>4, <2>1, SaysWords
<1> QED BY <1>1, <1>5

\* The values the line has of each flag.
LEMMA ExecReadValues ==
    ASSUME LineRead, verb = "exec", NEW n
    PROVE  ValuesIn(ExecRead, n) = ExecValues(n)
<1>0. "exec" \in DOMAIN Arguments /\ Yes \in Emitted
      /\ \A m : Values(m) \in Seq(Emitted) /\ Value(m) \in Emitted /\ On(m) \in BOOLEAN
  BY ParsedTypes, EmptyEmitted DEF LineRead, ScanInv
<1>1. {"--interactive", "--tty", "--workdir", "--user", "--env"} \subseteq Names
  BY <1>0, ExecWords DEF SwitchWord, FlagWord
<1> DEFINE f1 == If(On("--interactive"), <<<<"--interactive", Yes>>>>)
           f2 == If(On("--tty"), <<<<"--tty", Yes>>>>)
           f3 == OneFlag("--workdir", Value("--workdir"))
           f4 == OneFlag("--user", Value("--user"))
           f5 == Tagged("--env", Values("--env"))
           x1 == If(On("--interactive"), <<Yes>>)
           x2 == If(On("--tty"), <<Yes>>)
           x3 == OneValue(Value("--workdir"))
           x4 == OneValue(Value("--user"))
           x5 == Values("--env")
<1>2. /\ Piece(f1, "--interactive", x1) /\ Piece(f2, "--tty", x2)
  BY <1>0, <1>1, SwitchPiece
<1>3. Piece(f3, "--workdir", x3) /\ Piece(f4, "--user", x4)
  BY <1>0, <1>1, OnePiece
<1>4. Piece(f5, "--env", x5)
  BY <1>0, <1>1, TagPiece
<1>5. /\ ExecRead = f1 \o f2 \o f3 \o f4 \o f5
      /\ \A m : ExecValues(m) =
           IF m = "--interactive" THEN x1 ELSE IF m = "--tty" THEN x2
           ELSE IF m = "--workdir" THEN x3 ELSE IF m = "--user" THEN x4
           ELSE IF m = "--env" THEN x5 ELSE <<>>
  BY DEF ExecRead, ExecValues
<1> DEFINE z == <<>>
           p2 == f1 \o f2
           p3 == p2 \o f3
           p4 == p3 \o f4
           p5 == p4 \o f5
<1>6. f1 \in Seq(Pairs) /\ \A m : ValuesIn(f1, m) = IF "--interactive" = m THEN x1 ELSE z
  BY <1>2 DEF Piece
<1>7. ExecRead = p5
  BY <1>5
<1>8. \A m : ExecValues(m) =
           IF m = "--interactive" THEN x1 ELSE IF m = "--tty" THEN x2
           ELSE IF m = "--workdir" THEN x3 ELSE IF m = "--user" THEN x4
           ELSE IF m = "--env" THEN x5 ELSE z
  BY <1>5
<1>9. z = <<>>
  OBVIOUS
<1> HIDE DEF f1, f2, f3, f4, f5, x1, x2, x3, x4, x5, z
<1>10. p2 \in Seq(Pairs) /\ \A m : ValuesIn(p2, m) = IF "--tty" = m THEN x2 ELSE ValuesIn(f1, m)
  <2>1. ValuesIn(f1, "--tty") = <<>>
    BY <1>6, <1>9
  <2> QED BY <1>2, <1>6, <2>1, Joined
<1> HIDE DEF p2
<1>11. p3 \in Seq(Pairs) /\ \A m : ValuesIn(p3, m) = IF "--workdir" = m THEN x3 ELSE ValuesIn(p2, m)
  <2>1. ValuesIn(p2, "--workdir") = <<>>
    BY <1>6, <1>9, <1>10
  <2> QED BY <1>3, <1>10, <2>1, Joined
<1> HIDE DEF p3
<1>12. p4 \in Seq(Pairs) /\ \A m : ValuesIn(p4, m) = IF "--user" = m THEN x4 ELSE ValuesIn(p3, m)
  <2>1. ValuesIn(p3, "--user") = <<>>
    BY <1>6, <1>9, <1>10, <1>11
  <2> QED BY <1>3, <1>11, <2>1, Joined
<1> HIDE DEF p4
<1>13. p5 \in Seq(Pairs) /\ \A m : ValuesIn(p5, m) = IF "--env" = m THEN x5 ELSE ValuesIn(p4, m)
  <2>1. ValuesIn(p4, "--env") = <<>>
    BY <1>6, <1>9, <1>10, <1>11, <1>12
  <2> QED BY <1>4, <1>12, <2>1, Joined
<1> HIDE DEF p5
<1>14. ValuesIn(p5, n) = ExecValues(n)
  BY <1>6, <1>8, <1>10, <1>11, <1>12, <1>13
<1> QED BY <1>7, <1>14

\* What podman executes is what the user's own line asks for.
LEMMA ExecSame ==
    ASSUME LineRead, NamesAreWords, verb = "exec", Heeded(UserRead.flags)
    PROVE  SameReading(UserRead, Reading(verb, {}, Line))
<1>1. PICK g : Agrees(verb, UserRead, flags, pos, None, ended, g)
  BY ReadToTheEnd, Zenon DEF Plain
<1> DEFINE u == UserRead
           given == Reading("exec", {}, ExecArgs)
<1>2. given = Reader(ExecRead, pos, None, Over)
  BY ExecLineRead
<1>3. Reading(verb, {}, Line) = given
  BY DEF Line
<1>4. u = Reader(g, pos, None, ended)
  BY <1>1 DEF Agrees
<1>5. Heeded(u.flags)
  OBVIOUS
<1> HIDE DEF u, given
<1>6. u.flags = g /\ u.pos = pos /\ u.pending = "" /\ u.ok
  <2>1. u.flags = g /\ u.pos = pos /\ u.pending = None /\ u.ok
    BY <1>4, ReaderHas
  <2> QED BY <2>1 DEF None
<1>7. given.flags = ExecRead /\ given.pos = pos /\ given.pending = "" /\ given.ok
  <2>1. given.flags = ExecRead /\ given.pos = pos /\ given.pending = None /\ given.ok
    BY <1>2, ReaderHas
  <2> QED BY <2>1 DEF None
<1>8. /\ PodmanTable(verb).switch = {"--interactive", "--tty"}
      /\ PodmanTable(verb).valued = {"--workdir", "--user", "--env"}
      /\ TableOf(verb).switch = {"--interactive", "--tty"}
  BY DEF PodmanTable, TableOf, Table, JailVerbs
<1>9. pos # <<>>
  <2>1. Len(pos) >= 2
    BY ReadToTheEnd DEF Accepted
  <2> QED BY <2>1
<1>10. <<>> \in Seq(Emitted) /\ Yes \in Emitted
  BY EmptySeq, EmptyEmitted
<1>11. <<Yes>> # <<>> /\ Last(<<Yes>>) = Yes
  BY <1>10, LastOne
<1>12. ASSUME NEW f \in {"--interactive", "--tty"}
       PROVE  LastIn(ExecRead, f) \in Truths <=> AskedOn(g, f)
  <2>1. ValuesIn(ExecRead, f) = If(On(f), <<Yes>>)
    BY ExecReadValues DEF ExecValues
  <2>2. LastIn(ExecRead, f) = IF On(f) THEN Yes ELSE Empty
    <3> DEFINE y == <<Yes>>
               z == <<>>
    <3>1. y # z /\ Last(y) = Yes /\ ValuesIn(ExecRead, f) = IF On(f) THEN y ELSE z
      BY <1>11, <2>1 DEF If
    <3>2. LastIn(ExecRead, f) = IF ValuesIn(ExecRead, f) = z THEN Empty ELSE Last(ValuesIn(ExecRead, f))
      BY DEF LastIn
    <3> HIDE DEF y, z
    <3> QED BY <3>1, <3>2
  <2>3. LastIn(g, f) \in Truths <=> On(f)
    BY <1>1, <1>5, <1>6, <1>8, HeededOn
  <2>4. AskedOn(g, f) <=> LastIn(g, f) \in Truths
    BY DEF AskedOn
  <2> QED BY <2>2, <2>3, <2>4, YesIsTrue
<1>13. ASSUME NEW f \in {"--workdir", "--user"}
       PROVE  f \notin Repeatable /\ LastIn(ExecRead, f) = AskedLast(g, f)
  <2>1. ValuesIn(ExecRead, f) = OneValue(Value(f))
    BY ExecReadValues DEF ExecValues
  <2>2. Value(f) \in Emitted
    BY ParsedTypes
  <2>3. LastIn(ExecRead, f) = Value(f)
    <3> DEFINE x == Value(f)
    <3> HIDE DEF x
    <3> QED BY <2>1, <2>2, LastOneValue DEF LastIn, x
  <2>4. Value(f) = LastIn(g, f)
    BY <1>1, <1>8, KeptOf
  <2>5. AskedLast(g, f) = LastIn(g, f) /\ f \notin Repeatable
    BY DEF AskedLast, Repeatable
  <2> QED BY <2>3, <2>4, <2>5
<1>14. "--env" \in Repeatable /\ ValuesIn(ExecRead, "--env") = AskedAll(g, "--env")
  <2>1. ValuesIn(ExecRead, "--env") = Values("--env")
    BY ExecReadValues DEF ExecValues
  <2>2. Values("--env") = ValuesIn(g, "--env")
    BY <1>1, <1>8, KeptOf
  <2>3. AskedAll(g, "--env") = ValuesIn(g, "--env") /\ "--env" \in Repeatable
    BY DEF AskedAll, Repeatable
  <2> QED BY <2>1, <2>2, <2>3
<1>15. \A f \in PodmanTable(verb).valued \ denyReasons :
         IF f \in Repeatable THEN ValuesIn(ExecRead, f) = AskedAll(g, f)
         ELSE LastIn(ExecRead, f) = AskedLast(g, f)
  BY <1>8, <1>13, <1>14
<1>16. \A f \in PodmanTable(verb).switch : LastIn(ExecRead, f) \in Truths <=> AskedOn(g, f)
  BY <1>8, <1>12
<1>17. SameReading(u, given)
  BY <1>6, <1>7, <1>9, <1>15, <1>16 DEF SameReading
<1> QED BY <1>3, <1>17 DEF u

-----------------------------------------------------------------------------
(* The line of a commit. *)
Paused == IF Value("--pause") = Yes THEN Yes ELSE No
PauseRead == If(On("--pause"), <<<<"--pause", Paused>>>>)
PauseArgs ==
    If(On("--pause"),
       IF Value("--pause") = Yes THEN <<<<"--pause">>>> ELSE <<<<"--pause", "false">>>>)
CommitRead ==
    OneFlag("--message", Value("--message")) \o OneFlag("--author", Value("--author"))
      \o Tagged("--change", Values("--change")) \o OneFlag("--format", Value("--format"))
      \o PauseRead \o If(On("--quiet"), <<<<"--quiet", Yes>>>>)
CommitFlagArgs ==
    One("-m", Value("--message")) \o One("-a", Value("--author"))
      \o Each("-c", Values("--change")) \o One("-f", Value("--format"))
      \o PauseArgs \o If(On("--quiet"), <<<<"-q">>>>)
CommitValues(n) ==
    IF n \in {"--message", "--author", "--format"} THEN OneValue(Value(n))
    ELSE IF n = "--change" THEN Values(n)
    ELSE IF n = "--pause" THEN If(On(n), <<Paused>>)
    ELSE IF n = "--quiet" THEN If(On(n), <<Yes>>)
    ELSE <<>>

\* The words the line of a commit is written in.
LEMMA CommitWords ==
    ASSUME "commit" \in DOMAIN Arguments
    PROVE  /\ FlagWord("commit", "-m", "--message") /\ FlagWord("commit", "-a", "--author")
           /\ FlagWord("commit", "-c", "--change") /\ FlagWord("commit", "-f", "--format")
           /\ SwitchWord("commit", "-q", "--quiet") /\ SwitchWord("commit", "--pause", "--pause")
<1>1. "commit" \in Readers /\ PodmanTable("commit") = TableOf("commit")
  BY DEF Readers, PodmanTable
<1>2. /\ TableOf("commit").switch = {"--pause", "--quiet"}
      /\ TableOf("commit").valued = {"--message", "--author", "--change", "--format"}
      /\ TableOf("commit").short = CommitShort
  BY DEF TableOf, Table, JailVerbs
<1>3. /\ DOMAIN CommitShort = {"-m", "-a", "-c", "-f", "-q"}
      /\ CommitShort["-m"] = "--message" /\ CommitShort["-a"] = "--author"
      /\ CommitShort["-c"] = "--change" /\ CommitShort["-f"] = "--format"
      /\ CommitShort["-q"] = "--quiet"
  BY DEF CommitShort
<1>4. \A w \in DOMAIN CommitShort :
        /\ CommitShort[w] \in PodmanTable("commit").valued =>
             FlagWord("commit", w, CommitShort[w])
        /\ CommitShort[w] \in PodmanTable("commit").switch =>
             SwitchWord("commit", w, CommitShort[w])
  BY <1>1, <1>2, ShortWord
<1>5. SwitchWord("commit", "--pause", "--pause")
  BY <1>1, <1>2, LongWord
<1> QED BY <1>1, <1>2, <1>3, <1>4, <1>5

(* A pause that is turned off is written with its value. *)
LEMMA SaysUnpaused ==
    ASSUME "commit" \in DOMAIN Arguments
    PROVE  Says("commit", <<<<"--pause", "false">>>>, <<<<"--pause", No>>>>)
<1> DEFINE a == <<"--pause", "false">>
           v == "commit"
           t == ReadingTable("commit", {})
           x == <<<<"--pause", No>>>>
           w == <<"--pause">>
<1>1. AsFlag(w) /\ LongName(t, w) = "--pause" /\ "--pause" \in t.switch /\ "--pause" \in Names
  BY CommitWords DEF SwitchWord
<1>2. a[1] = "--pause" /\ w[1] = "--pause" /\ Len(a) = 2 /\ Tail(a) = No /\ a # <<"--">>
  BY DEF No
<1>3. a \in Emitted /\ No \in Emitted
  <2>1. No \in ValuesGiven
    BY DEF No, ValuesGiven
  <2> QED BY <2>1, EmptyEmitted, GivenPairs
<1>4. x \in Seq(Pairs)
  BY <1>1, <1>3, SeqOne
<1> HIDE DEF a, w, t, x, v
<1>5. AsFlag(a) /\ LongName(t, a) = "--pause"
  BY <1>1, <1>2 DEF AsFlag, Dashed, LongName
<1>6. \A f, p : Reads(v, t, Reader(f, p, None, Open), a) = Reader(f \o x, p, None, Open)
  <2> TAKE f, p
  <2>1. LongName(t, a) \in t.switch
    BY <1>1, <1>5
  <2>2. Reads(v, t, Reader(f, p, None, Open), a) =
          Reader(f \o <<<<LongName(t, a), IF Len(a) > 1 THEN Tail(a) ELSE Yes>>>>, p, None, Open)
    BY <1>5, <2>1, ReadsSwitch
  <2>3. <<<<LongName(t, a), IF Len(a) > 1 THEN Tail(a) ELSE Yes>>>> = x
    BY <1>2, <1>5 DEF x
  <2> QED BY <2>2, <2>3
<1>7. Parses(v, a, x)
  BY <1>3, <1>4, <1>6, Zenon DEF Parses, t, v
<1>8. <<a>> \in Seq(Emitted)
  BY <1>3
<1>9. Says(v, <<a>>, x)
  BY <1>4, <1>7, <1>8, SaysParsed DEF Says
<1> QED BY <1>9 DEF v, a, x

\* The pause, as netcage writes it.
LEMMA SaysPause ==
    ASSUME LineRead, verb = "commit"
    PROVE  Says("commit", PauseArgs, PauseRead)
<1>1. "commit" \in DOMAIN Arguments /\ On("--pause") \in BOOLEAN
  BY ParsedTypes DEF LineRead, ScanInv
<1> DEFINE a == IF Value("--pause") = Yes THEN <<<<"--pause">>>> ELSE <<<<"--pause", "false">>>>
           f == <<<<"--pause", Paused>>>>
<1>2. Says("commit", a, f)
  <2>1. CASE Value("--pause") = Yes
    <3>1. Says("commit", <<<<"--pause">>>>, <<<<"--pause", Yes>>>>)
      BY <1>1, CommitWords, SaysASwitch
    <3> QED BY <2>1, <3>1 DEF Paused
  <2>2. CASE Value("--pause") # Yes
    BY <1>1, <2>2, SaysUnpaused DEF Paused
  <2> QED BY <2>1, <2>2
<1>3. PauseArgs = If(On("--pause"), a) /\ PauseRead = If(On("--pause"), f)
  BY DEF PauseArgs, PauseRead
<1> HIDE DEF a, f
<1> QED BY <1>1, <1>2, <1>3, SaysIf

\* podman reads the flags of the line to those netcage has parsed.
LEMMA SaysCommit ==
    ASSUME LineRead, verb = "commit"
    PROVE  Says("commit", CommitFlagArgs, CommitRead)
<1>0. "commit" \in DOMAIN Arguments /\ Yes \in Emitted
      /\ \A n : Values(n) \in Seq(Emitted) /\ Value(n) \in Emitted /\ On(n) \in BOOLEAN
  BY ParsedTypes, EmptyEmitted DEF LineRead, ScanInv
<1> DEFINE a1 == One("-m", Value("--message"))
           a2 == One("-a", Value("--author"))
           a3 == Each("-c", Values("--change"))
           a4 == One("-f", Value("--format"))
           a6 == If(On("--quiet"), <<<<"-q">>>>)
           f1 == OneFlag("--message", Value("--message"))
           f2 == OneFlag("--author", Value("--author"))
           f3 == Tagged("--change", Values("--change"))
           f4 == OneFlag("--format", Value("--format"))
           f6 == If(On("--quiet"), <<<<"--quiet", Yes>>>>)
<1>1. Says("commit", a1, f1)
  BY <1>0, CommitWords, SaysOne
<1>2. Says("commit", a2, f2)
  BY <1>0, CommitWords, SaysOne
<1>3. Says("commit", a3, f3)
  BY <1>0, CommitWords, SaysEach
<1>4. Says("commit", a4, f4)
  BY <1>0, CommitWords, SaysOne
<1>5. Says("commit", a6, f6)
  BY <1>0, CommitWords, SaysASwitch, SaysIf
<1>6. /\ CommitFlagArgs = a1 \o a2 \o a3 \o a4 \o PauseArgs \o a6
      /\ CommitRead = f1 \o f2 \o f3 \o f4 \o PauseRead \o f6
  BY DEF CommitFlagArgs, CommitRead
<1> HIDE DEF a1, a2, a3, a4, a6, f1, f2, f3, f4, f6
<1>7. Says("commit", a1 \o a2, f1 \o f2)
  BY <1>1, <1>2, SaysConcat
<1>8. Says("commit", a1 \o a2 \o a3, f1 \o f2 \o f3)
  BY <1>3, <1>7, SaysConcat
<1>9. Says("commit", a1 \o a2 \o a3 \o a4, f1 \o f2 \o f3 \o f4)
  BY <1>4, <1>8, SaysConcat
<1>10. Says("commit", a1 \o a2 \o a3 \o a4 \o PauseArgs, f1 \o f2 \o f3 \o f4 \o PauseRead)
  BY <1>9, SaysPause, SaysConcat
<1>11. Says("commit", a1 \o a2 \o a3 \o a4 \o PauseArgs \o a6,
            f1 \o f2 \o f3 \o f4 \o PauseRead \o f6)
  BY <1>5, <1>10, SaysConcat
<1> QED BY <1>6, <1>11

\* podman reads the line of a commit to those flags, the tool and the image.
LEMMA CommitLineRead ==
    ASSUME LineRead, NamesAreWords, verb = "commit"
    PROVE  Reading("commit", {}, CommitArgs) = Reader(CommitRead, <<Tool, pos[2]>>, None, Open)
<1>1. CommitArgs = CommitFlagArgs \o <<Tool, pos[2]>>
  BY Zenon DEF CommitArgs, CommitFlagArgs, PauseArgs
<1>2. Clear("commit", CommitFlagArgs, CommitRead, <<>>)
  BY SaysCommit, SaysAll
<1>3. Len(pos) = 2 /\ pos \in Seq(Given)
  BY ReadToTheEnd DEF Accepted, LineRead, ScanInv
<1> DEFINE x == pos[2]
           v == "commit"
           e == <<>>
           one == Append(e, Tool)
           two == Append(one, x)
           args == CommitFlagArgs
<1>4. x \in Emitted /\ ~Dashed(x) /\ Tool \in Emitted
  <2>1. 2 \in DOMAIN pos /\ pos[2] \in Given
    BY <1>3
  <2>2. pos[2] \in Emitted
    BY <2>1, GivenPairs DEF ValuesGiven
  <2>3. ~Dashed(pos[2])
    BY <2>1 DEF NamesAreWords
  <2> QED BY <2>2, <2>3, EmptyEmitted
<1>5. two = <<Tool, x>>
  <2> DEFINE y == <<Tool, x>>
  <2>1. e \in Seq(Emitted) /\ y \in Seq(Emitted)
    BY <1>4, EmptySeq
  <2>2. e \o <<Tool, x>> = two
    <3> HIDE DEF e, x
    <3> QED BY <1>4, <2>1, OneMore
  <2>3. e \o y = y
    <3> HIDE DEF y
    <3> QED BY <2>1, ConcatEmptySeq
  <2> QED BY <2>2, <2>3
<1>6. v \notin {"run", "exec"} /\ Clear(v, args, CommitRead, e)
  BY <1>2
<1>7. args \in Seq(Emitted)
  BY <1>2 DEF Clear
<1> HIDE DEF x, v, e, one, two, args
<1>8. Clear(v, Append(args, Tool), CommitRead, one)
  BY <1>4, <1>6, OwnNames, SaysWord DEF one
<1>9. Clear(v, Append(Append(args, Tool), x), CommitRead, two)
  BY <1>4, <1>6, <1>8, SaysWord DEF two
<1>10. args \o <<Tool, x>> = Append(Append(args, Tool), x)
  BY <1>4, <1>7, OneMore
<1>11. Reading(v, {}, args \o <<Tool, x>>) = Reader(CommitRead, <<Tool, x>>, None, Open)
  BY <1>5, <1>9, <1>10 DEF Clear
<1> QED BY <1>1, <1>11 DEF v, x, args

-----------------------------------------------------------------------------
\* The values the line has of each flag.
LEMMA CommitReadValues ==
    ASSUME LineRead, verb = "commit", NEW n
    PROVE  ValuesIn(CommitRead, n) = CommitValues(n)
<1>0. "commit" \in DOMAIN Arguments /\ Yes \in Emitted /\ Paused \in Emitted
      /\ \A m : Values(m) \in Seq(Emitted) /\ Value(m) \in Emitted /\ On(m) \in BOOLEAN
  <2>1. Yes \in Emitted /\ No \in Emitted
    <3>1. No \in ValuesGiven
      BY DEF No, ValuesGiven
    <3> QED BY <3>1, EmptyEmitted, GivenPairs
  <2> QED BY <2>1, ParsedTypes DEF LineRead, ScanInv, Paused
<1>1. {"--message", "--author", "--change", "--format", "--pause", "--quiet"} \subseteq Names
  BY <1>0, CommitWords DEF SwitchWord, FlagWord
<1> DEFINE f1 == OneFlag("--message", Value("--message"))
           f2 == OneFlag("--author", Value("--author"))
           f3 == Tagged("--change", Values("--change"))
           f4 == OneFlag("--format", Value("--format"))
           f5 == If(On("--pause"), <<<<"--pause", Paused>>>>)
           f6 == If(On("--quiet"), <<<<"--quiet", Yes>>>>)
           x1 == OneValue(Value("--message"))
           x2 == OneValue(Value("--author"))
           x3 == Values("--change")
           x4 == OneValue(Value("--format"))
           x5 == If(On("--pause"), <<Paused>>)
           x6 == If(On("--quiet"), <<Yes>>)
<1>2. Piece(f1, "--message", x1) /\ Piece(f2, "--author", x2) /\ Piece(f4, "--format", x4)
  BY <1>0, <1>1, OnePiece
<1>3. Piece(f3, "--change", x3)
  BY <1>0, <1>1, TagPiece
<1>4. Piece(f5, "--pause", x5) /\ Piece(f6, "--quiet", x6)
  BY <1>0, <1>1, SwitchPiece
<1>5. /\ CommitRead = f1 \o f2 \o f3 \o f4 \o f5 \o f6
      /\ \A m : CommitValues(m) =
           IF m = "--message" THEN x1 ELSE IF m = "--author" THEN x2
           ELSE IF m = "--change" THEN x3 ELSE IF m = "--format" THEN x4
           ELSE IF m = "--pause" THEN x5 ELSE IF m = "--quiet" THEN x6 ELSE <<>>
  BY DEF CommitRead, CommitValues, PauseRead
<1> DEFINE z == <<>>
           p2 == f1 \o f2
           p3 == p2 \o f3
           p4 == p3 \o f4
           p5 == p4 \o f5
           p6 == p5 \o f6
<1>6. f1 \in Seq(Pairs) /\ \A m : ValuesIn(f1, m) = IF "--message" = m THEN x1 ELSE z
  BY <1>2 DEF Piece
<1>7. CommitRead = p6
  BY <1>5
<1>8. \A m : CommitValues(m) =
           IF m = "--message" THEN x1 ELSE IF m = "--author" THEN x2
           ELSE IF m = "--change" THEN x3 ELSE IF m = "--format" THEN x4
           ELSE IF m = "--pause" THEN x5 ELSE IF m = "--quiet" THEN x6 ELSE z
  BY <1>5
<1>9. z = <<>>
  OBVIOUS
<1> HIDE DEF f1, f2, f3, f4, f5, f6, x1, x2, x3, x4, x5, x6, z
<1>10. p2 \in Seq(Pairs) /\ \A m : ValuesIn(p2, m) = IF "--author" = m THEN x2 ELSE ValuesIn(f1, m)
  <2>1. ValuesIn(f1, "--author") = <<>>
    BY <1>6, <1>9
  <2> QED BY <1>2, <1>6, <2>1, Joined
<1> HIDE DEF p2
<1>11. p3 \in Seq(Pairs) /\ \A m : ValuesIn(p3, m) = IF "--change" = m THEN x3 ELSE ValuesIn(p2, m)
  <2>1. ValuesIn(p2, "--change") = <<>>
    BY <1>6, <1>9, <1>10
  <2> QED BY <1>3, <1>10, <2>1, Joined
<1> HIDE DEF p3
<1>12. p4 \in Seq(Pairs) /\ \A m : ValuesIn(p4, m) = IF "--format" = m THEN x4 ELSE ValuesIn(p3, m)
  <2>1. ValuesIn(p3, "--format") = <<>>
    BY <1>6, <1>9, <1>10, <1>11
  <2> QED BY <1>2, <1>11, <2>1, Joined
<1> HIDE DEF p4
<1>13. p5 \in Seq(Pairs) /\ \A m : ValuesIn(p5, m) = IF "--pause" = m THEN x5 ELSE ValuesIn(p4, m)
  <2>1. ValuesIn(p4, "--pause") = <<>>
    BY <1>6, <1>9, <1>10, <1>11, <1>12
  <2> QED BY <1>4, <1>12, <2>1, Joined
<1> HIDE DEF p5
<1>14. p6 \in Seq(Pairs) /\ \A m : ValuesIn(p6, m) = IF "--quiet" = m THEN x6 ELSE ValuesIn(p5, m)
  <2>1. ValuesIn(p5, "--quiet") = <<>>
    BY <1>6, <1>9, <1>10, <1>11, <1>12, <1>13
  <2> QED BY <1>4, <1>13, <2>1, Joined
<1> HIDE DEF p6
<1>15. ValuesIn(p6, n) = CommitValues(n)
  <2>1. ValuesIn(p6, n) =
          IF n = "--quiet" THEN x6 ELSE IF n = "--pause" THEN x5 ELSE ValuesIn(p4, n)
    BY <1>13, <1>14
  <2>2. ValuesIn(p4, n) =
          IF n = "--format" THEN x4 ELSE IF n = "--change" THEN x3 ELSE ValuesIn(p2, n)
    BY <1>11, <1>12
  <2>3. ValuesIn(p2, n) = IF n = "--author" THEN x2 ELSE IF n = "--message" THEN x1 ELSE z
    BY <1>6, <1>10
  <2> QED BY <1>8, <2>1, <2>2, <2>3
<1> QED BY <1>7, <1>15

\* What podman commits is what the user's own line asks for.
LEMMA CommitSame ==
    ASSUME LineRead, NamesAreWords, verb = "commit", Heeded(UserRead.flags)
    PROVE  SameReading(UserRead, Reading(verb, {}, Line))
<1>1. PICK g : Agrees(verb, UserRead, flags, pos, None, ended, g)
  BY ReadToTheEnd, Zenon DEF Plain
<1> DEFINE u == UserRead
           given == Reading("commit", {}, CommitArgs)
           names == <<Tool, pos[2]>>
<1>2. given = Reader(CommitRead, names, None, Open)
  BY CommitLineRead
<1>3. Reading(verb, {}, Line) = given
  BY DEF Line
<1>4. u = Reader(g, pos, None, ended)
  BY <1>1 DEF Agrees
<1>5. Heeded(u.flags)
  OBVIOUS
<1> HIDE DEF u, given
<1>6. u.flags = g /\ u.pos = pos /\ u.pending = "" /\ u.ok
  <2>1. u.flags = g /\ u.pos = pos /\ u.pending = None /\ u.ok
    BY <1>4, ReaderHas
  <2> QED BY <2>1 DEF None
<1>7. given.flags = CommitRead /\ given.pos = names /\ given.pending = "" /\ given.ok
  <2> HIDE DEF names
  <2>1. given.flags = CommitRead /\ given.pos = names /\ given.pending = None /\ given.ok
    BY <1>2, ReaderHas
  <2> QED BY <2>1 DEF None
<1>8. /\ PodmanTable(verb).switch = {"--pause", "--quiet"}
      /\ PodmanTable(verb).valued = {"--message", "--author", "--change", "--format"}
      /\ TableOf(verb).switch = {"--pause", "--quiet"}
  BY DEF PodmanTable, TableOf, Table, JailVerbs
<1>9. pos # <<>>
  <2>1. Len(pos) = 2
    BY ReadToTheEnd DEF Accepted
  <2> QED BY <2>1
<1>10. <<>> \in Seq(Emitted) /\ Yes \in Emitted /\ Paused \in Emitted
  <2>1. No \in ValuesGiven
    BY DEF No, ValuesGiven
  <2> QED BY <2>1, EmptySeq, EmptyEmitted, GivenPairs DEF Paused
<1>11. /\ <<Yes>> # <<>> /\ Last(<<Yes>>) = Yes
       /\ <<Paused>> # <<>> /\ Last(<<Paused>>) = Paused
  BY <1>10, LastOne
<1>12. ASSUME NEW f, NEW x \in {Yes, Paused}, ValuesIn(CommitRead, f) = If(On(f), <<x>>)
       PROVE  LastIn(CommitRead, f) = IF On(f) THEN x ELSE Empty
  <2> DEFINE y == <<x>>
             z == <<>>
  <2>1. y # z /\ Last(y) = x /\ ValuesIn(CommitRead, f) = IF On(f) THEN y ELSE z
    BY <1>11, <1>12 DEF If
  <2>2. LastIn(CommitRead, f) =
          IF ValuesIn(CommitRead, f) = z THEN Empty ELSE Last(ValuesIn(CommitRead, f))
    BY DEF LastIn
  <2> HIDE DEF y, z
  <2> QED BY <2>1, <2>2
<1>13. LastIn(CommitRead, "--quiet") \in Truths <=> AskedOn(g, "--quiet")
  <2> DEFINE f == "--quiet"
  <2>1. ValuesIn(CommitRead, f) = If(On(f), <<Yes>>)
    BY CommitReadValues DEF CommitValues
  <2>2. LastIn(CommitRead, f) = IF On(f) THEN Yes ELSE Empty
    BY <1>12, <2>1
  <2>3. LastIn(g, f) \in Truths <=> On(f)
    BY <1>1, <1>5, <1>6, <1>8, HeededOn
  <2>4. AskedOn(g, f) <=> LastIn(g, f) \in Truths
    BY DEF AskedOn
  <2> QED BY <2>2, <2>3, <2>4, YesIsTrue
<1>14. LastIn(CommitRead, "--pause") \in Truths <=> AskedOn(g, "--pause")
  <2> DEFINE f == "--pause"
  <2>1. ValuesIn(CommitRead, f) = If(On(f), <<Paused>>)
    BY CommitReadValues DEF CommitValues
  <2>2. LastIn(CommitRead, f) = IF On(f) THEN Paused ELSE Empty
    BY <1>12, <2>1
  <2>3. LastIn(g, f) \in Truths <=> On(f) /\ Value(f) = Yes
    BY <1>1, <1>5, <1>6, <1>8, HeededOn
  <2>4. AskedOn(g, f) <=> LastIn(g, f) \in Truths
    BY DEF AskedOn
  <2> QED BY <2>2, <2>3, <2>4, YesIsTrue DEF Paused
<1>15. ASSUME NEW f \in {"--message", "--author", "--format"}
       PROVE  f \notin Repeatable /\ LastIn(CommitRead, f) = AskedLast(g, f)
  <2>1. ValuesIn(CommitRead, f) = OneValue(Value(f))
    BY CommitReadValues DEF CommitValues
  <2>2. Value(f) \in Emitted
    BY ParsedTypes
  <2>3. LastIn(CommitRead, f) = Value(f)
    <3> DEFINE x == Value(f)
    <3> HIDE DEF x
    <3> QED BY <2>1, <2>2, LastOneValue DEF LastIn, x
  <2>4. Value(f) = LastIn(g, f)
    BY <1>1, <1>8, KeptOf
  <2>5. AskedLast(g, f) = LastIn(g, f) /\ f \notin Repeatable
    BY DEF AskedLast, Repeatable
  <2> QED BY <2>3, <2>4, <2>5
<1>16. "--change" \in Repeatable /\ ValuesIn(CommitRead, "--change") = AskedAll(g, "--change")
  <2>1. ValuesIn(CommitRead, "--change") = Values("--change")
    BY CommitReadValues DEF CommitValues
  <2>2. Values("--change") = ValuesIn(g, "--change")
    BY <1>1, <1>8, KeptOf
  <2>3. AskedAll(g, "--change") = ValuesIn(g, "--change") /\ "--change" \in Repeatable
    BY DEF AskedAll, Repeatable
  <2> QED BY <2>1, <2>2, <2>3
<1>17. \A f \in PodmanTable(verb).valued \ denyReasons :
         IF f \in Repeatable THEN ValuesIn(CommitRead, f) = AskedAll(g, f)
         ELSE LastIn(CommitRead, f) = AskedLast(g, f)
  BY <1>8, <1>15, <1>16
<1>18. \A f \in PodmanTable(verb).switch : LastIn(CommitRead, f) \in Truths <=> AskedOn(g, f)
  BY <1>8, <1>13, <1>14
<1>19. SameReading(u, given)
  BY <1>6, <1>7, <1>9, <1>17, <1>18 DEF SameReading
<1> QED BY <1>3, <1>19 DEF u
=============================================================================
