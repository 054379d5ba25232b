-------------------------- MODULE ProxyConfigProofs --------------------------
(* The defaults file under any number of setups, of edits by hand and of deaths:
   what becomes of the user's allow list, and who may leave the file torn. *)
EXTENDS ProxyConfig, FiniteSetTheorems, TLAPS

Dialogue == {"choose", "confirm"}

(* Nobody that read the file before the user's last edit has written since. *)
Clean == \A s \in outdated : pc[s] \in Dialogue \union {"ended"}

(* Who is up to date carries the user's list: of all setups as long as nobody else
   has written, and in any case while there is no file, which only the user
   removes. *)
ListInv ==
    /\ \A s \in outdated : pc[s] # "start"
    /\ file.state = "missing" => mine = {}
    /\ Clean \/ file.state = "missing" =>
         \A s \in Setups \ outdated :
           pc[s] \in Dialogue \union {"write"} => existing[s].allow = mine
    /\ Clean /\ file.state = "ok" => file.allow = mine

(* A torn file is its author's work, and what is being written was torn first. *)
Config == TypeOK /\ ListInv /\ TornOnlyByWriter

-----------------------------------------------------------------------------
LEMMA ContentsAre ==
    /\ Missing \in Contents /\ Torn \in Contents
    /\ \A u \in URLs \union {Blank}, as \in AllowLists : Content(u, as) \in Contents
    /\ \A c \in Contents : /\ c.state \in {"ok", "missing", "torn"}
                           /\ c.proxy \in URLs \union {Blank} /\ c.allow \in AllowLists
                           /\ c.state # "ok" => c.allow = {}
BY ConfigAssumption DEF ConfigAssumption, Contents, Missing, Torn, Content

(* The sole confirmed port is one of the default ports. *)
LEMMA SoleIsPort ==
    ASSUME NEW ports, ports \subseteq DefaultPorts
    PROVE  Sole(ports) \in DefaultPorts \union {0}
<1>1. CASE Cardinality(ports) = 1
  <2>1. ports # {}
    BY <1>1, FS_EmptySet
  <2> QED
    BY <2>1 DEF Sole
<1>2. CASE Cardinality(ports) # 1
  BY <1>2 DEF Sole
<1> QED
  BY <1>1, <1>2

(* What a bare Enter stands for is a URL or nothing. *)
LEMMA DefaultIsURL ==
    ASSUME TypeOK, NEW s \in Setups
    PROVE  Default(s) \in URLs \union {Blank}
BY ContentsAre, ConfigAssumption DEF TypeOK, Default, ConfigAssumption

LEMMA ConfigInit == Init => Config
<1> SUFFICES ASSUME Init PROVE Config
  OBVIOUS
<1>1. file \in Contents /\ Missing \in Contents
  BY ContentsAre DEF Init
<1>2. TypeOK
  BY <1>1, ContentsAre, ConfigAssumption DEF Init, TypeOK, Stages, ConfigAssumption
<1>3. ListInv
  BY <1>1, ContentsAre DEF Init, ListInv, Dialogue
<1>4. TornOnlyByWriter
  BY ConfigAssumption DEF Init, TornOnlyByWriter, ConfigAssumption
<1> QED
  BY <1>2, <1>3, <1>4 DEF Config

-----------------------------------------------------------------------------
(* The steps of one setup. *)
LEMMA BeginStep ==
    ASSUME Config, NEW s \in Setups, Begin(s)
    PROVE  Config'
<1> USE DEF Config
<1>1. /\ file' = file /\ author' = author /\ mine' = mine /\ outdated' = outdated
      /\ s \notin outdated
  BY DEF Begin, past, ListInv
<1>2. TypeOK'
  <2>1. sole' \in [Setups -> DefaultPorts \union {0}]
    <3>1. \A peer : Sole(Confirmed(peer)) \in DefaultPorts \union {0}
      BY SoleIsPort DEF Confirmed
    <3> QED
      BY <3>1 DEF Begin, TypeOK
  <2>2. /\ existing' \in [Setups -> Contents] /\ pc' \in [Setups -> Stages]
        /\ \A t \in Setups : pc'[t] \in {"confirm", "write", "chmod", "saved"}
                                => pc[t] = pc'[t]
    BY DEF Begin, TypeOK, Goto, Stages
  <2> QED
    BY <1>1, <2>1, <2>2 DEF Begin, TypeOK, past
<1>3. ListInv'
  <2>1. \A t \in outdated : pc'[t] = pc[t]
    BY <1>1 DEF Begin, Goto, TypeOK
  <2>2. Clean' = Clean
    BY <1>1, <2>1 DEF Clean
  <2>3. CASE file.state = "torn"
    BY <1>1, <2>1, <2>2, <2>3 DEF Begin, Goto, TypeOK, ListInv, Dialogue
  <2>4. CASE file.state # "torn"
    <3>1. \A t \in Setups : pc'[t] \in Dialogue \union {"write"} =>
             IF t = s THEN existing'[t] = file
             ELSE pc'[t] = pc[t] /\ existing'[t] = existing[t]
      BY <2>4 DEF Begin, Goto, TypeOK
    <3>2. (Clean \/ file.state = "missing") => file.allow = mine
      BY <2>4, ContentsAre DEF ListInv, TypeOK
    <3> QED
      BY <1>1, <2>1, <2>2, <3>1, <3>2 DEF ListInv
  <2> QED
    BY <2>3, <2>4
<1>4. TornOnlyByWriter'
  BY <1>1 DEF Begin, Goto, TypeOK, TornOnlyByWriter
<1> QED
  BY <1>2, <1>3, <1>4

(* Steps of the dialogue leave the file alone; who has read it goes on or ends. *)
LEMMA DialogueStep ==
    ASSUME Config, NEW s \in Setups, TypeOK',
           UNCHANGED <<file, author, existing, past>>,
           pc[s] \in Dialogue, NEW to \in Dialogue \union {"ended"}, Goto(s, to)
    PROVE  Config'
<1> USE DEF Config
<1>1. /\ file' = file /\ author' = author /\ existing' = existing
      /\ mine' = mine /\ outdated' = outdated
  BY DEF past
<1>2. /\ \A t \in Setups : t # s => pc'[t] = pc[t]
      /\ pc'[s] = to
  BY DEF Goto, TypeOK
<1>3. Clean' <=> Clean
  BY <1>1, <1>2 DEF Clean, TypeOK, Dialogue
<1>4. ListInv'
  BY <1>1, <1>2, <1>3 DEF ListInv, Dialogue, TypeOK
<1>5. TornOnlyByWriter'
  BY <1>1, <1>2 DEF TornOnlyByWriter, Dialogue
<1> QED
  BY <1>4, <1>5

LEMMA ChooseStep ==
    ASSUME Config, NEW s \in Setups, Choose(s)
    PROVE  Config'
<1>1. PICK typed \in URLs \union {Blank} : Answer(s, typed)
  BY DEF Choose
<1>2. Default(s) \in URLs \union {Blank}
  BY DefaultIsURL DEF Config
<1>3. \/ UNCHANGED chosen /\ Goto(s, "ended")
      \/ /\ \E raw \in URLs : raw # Blank /\ chosen' = [chosen EXCEPT ![s] = raw]
         /\ Goto(s, "confirm")
  BY <1>1, <1>2 DEF Answer
<1>4. TypeOK'
  BY <1>3 DEF Config, Choose, TypeOK, Goto, Stages, past
<1> QED
  BY <1>3, <1>4, DialogueStep DEF Choose, Dialogue

LEMMA LeaveStep ==
    ASSUME Config, NEW s \in Setups, Rechoose(s) \/ Decline(s)
    PROVE  Config'
<1>1. /\ UNCHANGED <<file, author, mode, existing, sole, chosen, edits, past>>
      /\ pc[s] \in Dialogue /\ \E to \in {"choose", "ended"} : Goto(s, to)
  BY DEF Rechoose, Decline, Dialogue
<1>2. TypeOK'
  BY <1>1 DEF Config, TypeOK, Goto, Stages, past
<1> QED
  BY <1>1, <1>2, DialogueStep DEF Dialogue

LEMMA ConfirmStep ==
    ASSUME Config, NEW s \in Setups, Confirm(s)
    PROVE  Config'
<1>1. pc[s] = "confirm" /\ UNCHANGED <<existing, sole, chosen, edits, past>>
  BY DEF Confirm
<1>2. CASE Refuse(s)
  <2>1. UNCHANGED <<file, author, mode>> /\ \E to \in {"choose", "ended"} : Goto(s, to)
    BY <1>2 DEF Refuse
  <2>2. TypeOK'
    BY <1>1, <2>1 DEF Config, TypeOK, Goto, Stages, past
  <2> QED
    BY <1>1, <2>1, <2>2, DialogueStep DEF Dialogue
<1>3. CASE Truncate(s)
  <2> USE DEF Config
  <2>1. /\ file' = Torn /\ author' = s /\ existing' = existing
        /\ mine' = mine /\ outdated' = outdated
        /\ pc'[s] = "write" /\ \A t \in Setups : t # s => pc'[t] = pc[t]
    BY <1>1, <1>3 DEF Truncate, Goto, TypeOK, past
  <2>2. TypeOK'
    <3>1. mode' \in {"0600", "loose"} /\ pc' \in [Setups -> Stages]
      BY <1>3 DEF Truncate, Goto, TypeOK, Stages
    <3> QED
      BY <1>1, <2>1, <3>1, ContentsAre DEF TypeOK, past
  <2>3. ListInv'
    <3>1. Clean' => Clean /\ s \notin outdated
      BY <1>1, <2>1 DEF Clean, TypeOK, Dialogue
    <3> QED
      BY <1>1, <2>1, <3>1 DEF ListInv, Torn, TypeOK, Dialogue
  <2>4. TornOnlyByWriter'
    BY <2>1 DEF TornOnlyByWriter
  <2> QED
    BY <2>2, <2>3, <2>4
<1> QED
  BY <1>2, <1>3 DEF Confirm

LEMMA WriteStep ==
    ASSUME Config, NEW s \in Setups, Write(s)
    PROVE  Config'
<1> USE DEF Config
<1>1. /\ pc[s] = "write" /\ UNCHANGED <<mode, existing, sole, chosen, edits, past>>
      /\ mine' = mine /\ outdated' = outdated /\ existing' = existing
      /\ \A t \in Setups : t # s => pc'[t] = pc[t]
      /\ pc'[s] \in {"chmod", "died-writing"} /\ pc' \in [Setups -> Stages]
  BY DEF Write, Goto, TypeOK, Stages, past
<1>2. Content(chosen[s], existing[s].allow) \in Contents
  BY ContentsAre DEF TypeOK
<1>3. \/ file.state = "missing" /\ file' = Missing /\ author' = author
      \/ /\ file.state # "missing" /\ author' = s /\ pc'[s] = "chmod"
         /\ file' = Content(chosen[s], existing[s].allow)
      \/ /\ file.state # "missing" /\ author' = s /\ pc'[s] = "died-writing"
         /\ file' = Torn
  BY DEF Write, KeptAllow, Goto, TypeOK
<1>4. TypeOK'
  <2>1. file' \in Contents /\ author' \in Setups \union {"hand"}
    BY <1>2, <1>3, ContentsAre DEF TypeOK
  <2> QED
    BY <1>1, <2>1 DEF TypeOK, past
<1>5. ListInv'
  <2>1. Clean' => Clean /\ s \notin outdated
    BY <1>1 DEF Clean, TypeOK, Dialogue
  <2>2. Clean' => existing[s].allow = mine
    BY <1>1, <2>1 DEF ListInv
  <2> QED
    BY <1>1, <1>3, <2>1, <2>2 DEF ListInv, Missing, Torn, Content, Dialogue, TypeOK
<1>6. TornOnlyByWriter'
  BY <1>1, <1>3 DEF TornOnlyByWriter, Missing, Content
<1> QED
  BY <1>4, <1>5, <1>6

(* A setup ends after its write only if the user has removed the file. *)
LEMMA ChmodStep ==
    ASSUME Config, NEW s \in Setups, Chmod(s)
    PROVE  Config'
<1> USE DEF Config
<1>1. /\ pc[s] = "chmod" /\ UNCHANGED <<file, author, existing, sole, chosen, edits, past>>
      /\ mine' = mine /\ outdated' = outdated /\ existing' = existing /\ file' = file
      /\ \A t \in Setups : t # s => pc'[t] = pc[t]
      /\ pc'[s] = IF file.state = "missing" THEN "ended" ELSE "saved"
      /\ mode' \in {"0600", "loose"} /\ pc' \in [Setups -> Stages]
  BY DEF Chmod, Goto, TypeOK, Stages, past
<1>2. TypeOK'
  BY <1>1 DEF TypeOK, past
<1>3. ListInv'
  <2>1. CASE file.state = "missing"
    BY <1>1, <2>1 DEF ListInv, Dialogue, TypeOK
  <2>2. CASE file.state # "missing"
    <3>1. Clean' => Clean
      BY <1>1, <2>2 DEF Clean, TypeOK, Dialogue
    <3> QED
      BY <1>1, <2>2, <3>1 DEF ListInv, Dialogue, TypeOK
  <2> QED
    BY <2>1, <2>2
<1>4. TornOnlyByWriter'
  BY <1>1 DEF TornOnlyByWriter
<1> QED
  BY <1>2, <1>3, <1>4

LEMMA CrashStep ==
    ASSUME Config, NEW s \in Setups, Crash(s)
    PROVE  Config'
<1> USE DEF Config
<1>1. /\ UNCHANGED <<file, author, mode, existing, sole, chosen, edits, past>>
      /\ mine' = mine /\ outdated' = outdated /\ existing' = existing /\ file' = file
      /\ \A t \in Setups : t # s => pc'[t] = pc[t]
      /\ IF pc[s] \in Dialogue THEN pc'[s] = "ended"
         ELSE pc[s] \in {"write", "chmod"} /\ pc'[s] = "died-writing"
      /\ pc' \in [Setups -> Stages]
  BY DEF Crash, Goto, TypeOK, Stages, past, Dialogue
<1>2. TypeOK'
  BY <1>1 DEF TypeOK, past, Dialogue
<1>3. ListInv'
  <2>1. Clean' => Clean
    BY <1>1 DEF Clean, TypeOK, Dialogue
  <2> QED
    BY <1>1, <2>1 DEF ListInv, Dialogue, TypeOK
<1>4. TornOnlyByWriter'
  BY <1>1 DEF TornOnlyByWriter, Dialogue
<1> QED
  BY <1>2, <1>3, <1>4

(* The user's own edit sets the list, and outdates who has read the file. *)
LEMMA EditStep ==
    ASSUME Config, Edit
    PROVE  Config'
<1> USE DEF Config
<1>1. /\ file' \in Contents /\ author' = "hand" /\ mine' = file'.allow
      /\ outdated' = {s \in Setups : pc[s] \in Dialogue \union {"write"}}
      /\ UNCHANGED <<pc, existing, sole, chosen>>
  <2>1. file' \in Contents
    <3>1. {Missing, Torn} \union
              {Content(u, as) : u \in URLs \union {Blank}, as \in AllowLists}
            \subseteq Contents
      BY ContentsAre
    <3> QED
      BY <3>1 DEF Edit
  <2>2. {"choose", "confirm", "write"} = Dialogue \union {"write"}
    BY DEF Dialogue
  <2> QED
    BY <2>1, <2>2 DEF Edit
<1>2. TypeOK'
  <2>1. edits' \in 0 .. MaxEdits
    BY ConfigAssumption DEF Edit, TypeOK, ConfigAssumption
  <2>2. mine' \in AllowLists /\ outdated' \in SUBSET Setups
    BY <1>1, ContentsAre
  <2> QED
    BY <1>1, <2>1, <2>2 DEF Edit, TypeOK
<1>3. ListInv'
  BY <1>1, ContentsAre DEF ListInv, Dialogue
<1>4. TornOnlyByWriter'
  BY <1>1, ConfigAssumption DEF TornOnlyByWriter, ConfigAssumption
<1> QED
  BY <1>2, <1>3, <1>4

LEMMA ConfigStep == Config /\ [Next]_vars => Config'
<1> SUFFICES ASSUME Config, [Next]_vars PROVE Config'
  OBVIOUS
<1>1. CASE UNCHANGED vars
  BY <1>1 DEF Config, TypeOK, ListInv, Clean, TornOnlyByWriter, vars, past
<1>2. CASE Finished
  BY <1>1, <1>2 DEF Finished
<1> QED
  BY <1>1, <1>2, BeginStep, ChooseStep, LeaveStep, ConfirmStep, WriteStep, ChmodStep,
     CrashStep, EditStep DEF Next

-----------------------------------------------------------------------------
(* The types of the defaults file and its setups. *)
THEOREM ConfigTypes == Spec => []TypeOK
<1>1. Config => TypeOK
  BY DEF Config
<1> QED
  BY ConfigInit, ConfigStep, <1>1, PTL DEF Spec

(* The user's split-tunnel list survives every setup that read the file after the
   user's last edit, however many of them overwrite each other and die. *)
THEOREM AllowListKeptHolds == Spec => []AllowListKept
<1>1. Config => AllowListKept
  BY DEF Config, ListInv, Clean, Dialogue, AllowListKept
<1> QED
  BY ConfigInit, ConfigStep, <1>1, PTL DEF Spec

(* A file that stops every command is the user's, or that of a setup which writes
   or died writing. *)
THEOREM TornOnlyByWriterHolds == Spec => []TornOnlyByWriter
<1>1. Config => TornOnlyByWriter
  BY DEF Config
<1> QED
  BY ConfigInit, ConfigStep, <1>1, PTL DEF Spec

-----------------------------------------------------------------------------
(* The parser of --allow, for addresses of any width.  The library counts the
   subsets of a finite set with a power of two: that is what makes the width a
   parameter. *)
LEMMA PowerOfTwo ==
    ASSUME NEW k \in Nat
    PROVE  2^k \in Nat \ {0}
<1>1. IsFiniteSet(1 .. k) /\ Cardinality(1 .. k) = k
  BY FS_Interval
<1>2. IsFiniteSet(SUBSET (1 .. k)) /\ Cardinality(SUBSET (1 .. k)) = 2^k
  BY <1>1, FS_SUBSET
<1>3. SUBSET (1 .. k) # {}
  OBVIOUS
<1> QED BY <1>2, <1>3, FS_CardinalityType, FS_EmptySet

LEMMA PowerOfSum ==
    ASSUME NEW a \in Nat, NEW b \in Nat
    PROVE  2^(a + b) = 2^a * 2^b
<1> DEFINE A == 1 .. a
           B == a + 1 .. a + b
           S == SUBSET A
           T == SUBSET B
           U == SUBSET (1 .. a + b)
<1>1. /\ IsFiniteSet(A) /\ Cardinality(A) = a
      /\ IsFiniteSet(B) /\ Cardinality(B) = b
      /\ IsFiniteSet(1 .. a + b) /\ Cardinality(1 .. a + b) = a + b
  <2>1. IsFiniteSet(A) /\ Cardinality(A) = a
    BY FS_Interval
  <2>2. /\ IsFiniteSet(B)
        /\ Cardinality(B) = IF a + 1 > a + b THEN 0 ELSE (a + b) - (a + 1) + 1
    BY FS_Interval, a + 1 \in Int, a + b \in Int
  <2>3. /\ IsFiniteSet(1 .. a + b)
        /\ Cardinality(1 .. a + b) = IF 1 > a + b THEN 0 ELSE (a + b) - 1 + 1
    BY FS_Interval, a + b \in Int
  <2>4. Cardinality(B) = b
    BY <2>2
  <2>5. Cardinality(1 .. a + b) = a + b
    BY <2>3
  <2> QED BY <2>1, <2>2, <2>3, <2>4, <2>5
<1>2. /\ IsFiniteSet(S) /\ Cardinality(S) = 2^a
      /\ IsFiniteSet(T) /\ Cardinality(T) = 2^b
      /\ IsFiniteSet(U) /\ Cardinality(U) = 2^(a + b)
  BY <1>1, FS_SUBSET
<1>3. /\ A \cup B = 1 .. a + b /\ A \cap B = {}
  OBVIOUS
<1> HIDE DEF A, B
<1>4. \E f : f \in Bijection(S \X T, U)
  <2> DEFINE f == [p \in S \X T |-> p[1] \cup p[2]]
  <2>1. f \in [S \X T -> U]
    BY <1>3
  <2>2. ASSUME NEW p \in S \X T, NEW q \in S \X T, f[p] = f[q] PROVE p = q
    <3>1. p[1] \cup p[2] = q[1] \cup q[2]
      BY <2>2
    <3>2. p[1] = q[1] /\ p[2] = q[2]
      BY <1>3, <3>1
    <3> QED BY <3>2
  <2>3. ASSUME NEW u \in U PROVE \E p \in S \X T : f[p] = u
    <3>1. <<u \cap A, u \cap B>> \in S \X T
      OBVIOUS
    <3>2. f[<<u \cap A, u \cap B>>] = u
      BY <1>3, <3>1
    <3> QED BY <3>1, <3>2
  <2>4. f \in Bijection(S \X T, U)
    BY <2>1, <2>2, <2>3 DEF Bijection, Injection, Surjection, IsInjective
  <2> QED BY <2>4
<1> HIDE DEF S, T, U
<1>5. IsFiniteSet(S \X T) /\ Cardinality(S \X T) = Cardinality(S) * Cardinality(T)
  BY <1>2, FS_Product
<1>6. Cardinality(U) = Cardinality(S \X T)
  BY <1>2, <1>4, <1>5, FS_Bijection DEF ExistsBijection
<1> QED BY <1>2, <1>5, <1>6

\* A network is as many addresses as its prefix leaves, and starts at a multiple.
LEMMA BlockTyped ==
    ASSUME NEW len \in 0 .. Bits
    PROVE  Block(len) \in Nat \ {0} /\ 2^len \in Nat \ {0} /\ 2^Bits = Block(len) * 2^len
<1>1. Bits \in Nat /\ len \in Nat /\ Bits - len \in Nat /\ (Bits - len) + len = Bits
  BY AllowAssumption DEF AllowAssumption
<1>2. 2^((Bits - len) + len) = 2^(Bits - len) * 2^len
  BY <1>1, PowerOfSum
<1>3. 2^(Bits - len) \in Nat \ {0} /\ 2^len \in Nat \ {0}
  BY <1>1, PowerOfTwo
<1> QED BY <1>1, <1>2, <1>3 DEF Block

\* Multiples.
LEMMA Multiple ==
    ASSUME NEW b \in Nat \ {0}, NEW m \in Nat \ {0}, NEW a \in 0 .. b * m - 1
    PROVE  /\ a - (a % b) \in Nat /\ (a - (a % b)) + b - 1 <= b * m - 1
           /\ (a - (a % b)) % b = 0 /\ a - (a % b) <= a /\ a <= (a - (a % b)) + b - 1
<1>1. /\ a \in Nat /\ a \div b \in Nat /\ a % b \in 0 .. b - 1
      /\ a = b * (a \div b) + (a % b)
  <2>1. b * m \in Nat
    OBVIOUS
  <2> QED BY <2>1
<1> DEFINE q == a \div b
           r == a % b
<1> HIDE DEF q, r
<1>2. q < m
  <2> SUFFICES ASSUME q >= m PROVE FALSE
    BY <1>1 DEF q
  <2>1. b * q >= b * m
    BY <1>1 DEF q
  <2> QED BY <1>1, <2>1 DEF q
<1>3. b * (q + 1) <= b * m
  BY <1>1, <1>2 DEF q
<1>4. b * (q + 1) = b * q + b
  BY <1>1 DEF q
<1>5. (b * q) % b = 0
  BY <1>1 DEF q
<1>6. a - (a % b) = b * q /\ b * q \in Nat
  BY <1>1 DEF q
<1> QED BY <1>1, <1>3, <1>4, <1>5, <1>6 DEF r

-----------------------------------------------------------------------------
(* The network of a literal is an interval of addresses. *)
First(h) == h.ip - (h.ip % Block(h.len))
Last(h) == First(h) + Block(h.len) - 1

LEMMA AddressesTyped ==
    ASSUME NEW h, h.ip \in Addresses, h.len \in 0 .. Bits
    PROVE  /\ Block(h.len) \in Nat \ {0}
           /\ First(h) \in Addresses /\ Last(h) \in Addresses
           /\ First(h) % Block(h.len) = 0
           /\ h.ip \in First(h) .. Last(h)
<1>1. Block(h.len) \in Nat \ {0} /\ 2^(h.len) \in Nat \ {0} /\ 2^Bits = Block(h.len) * 2^(h.len)
  BY BlockTyped
<1> DEFINE b == Block(h.len)
           m == 2^(h.len)
           a == h.ip
<1>2. a \in 0 .. b * m - 1 /\ Addresses = 0 .. b * m - 1
  BY <1>1 DEF Addresses
<1>3. b \in Nat \ {0} /\ m \in Nat \ {0}
  BY <1>1
<1>4. First(h) = a - (a % b) /\ Last(h) = First(h) + b - 1
  BY DEF First, Last
<1> HIDE DEF a, b, m
<1>5. /\ First(h) \in Nat /\ Last(h) <= b * m - 1
      /\ First(h) % b = 0 /\ First(h) <= a /\ a <= Last(h)
  BY <1>2, <1>3, <1>4, Multiple
<1>6. b * m \in Nat /\ a \in Nat
  BY <1>2, <1>3
<1>7. First(h) \in Addresses /\ Last(h) \in Addresses /\ a \in First(h) .. Last(h)
  BY <1>2, <1>3, <1>4, <1>5, <1>6
<1> QED BY <1>3, <1>5, <1>7 DEF a, b

LEMMA QuotientIs ==
    ASSUME NEW b \in Nat \ {0}, NEW a \in Nat, NEW n \in Nat
    PROVE  a \div b = n \div b <=> n - (n % b) <= a /\ a <= n - (n % b) + b - 1
OBVIOUS

LEMMA AddressesAre ==
    ASSUME NEW h, h.ip \in Addresses, h.len \in 0 .. Bits
    PROVE  AddressesOf(h) = First(h) .. Last(h)
<1>1. Block(h.len) \in Nat \ {0} /\ First(h) \in Addresses /\ Last(h) \in Addresses
  BY AddressesTyped
<1>2. 2^Bits \in Nat /\ Addresses \subseteq Nat
  BY BlockTyped, AllowAssumption, PowerOfTwo DEF AllowAssumption, Addresses
<1>3. ASSUME NEW a \in Nat
      PROVE  a \div Block(h.len) = h.ip \div Block(h.len) <=> First(h) <= a /\ a <= Last(h)
  BY <1>1, <1>2, QuotientIs DEF First, Last
<1>4. \A a \in Nat : First(h) <= a /\ a <= Last(h) => a \in Addresses
  BY <1>1, <1>2 DEF Addresses
<1>5. First(h) \in Nat /\ Last(h) \in Nat
  BY <1>1, <1>2
<1>6. \A a : a \in First(h) .. Last(h) <=> a \in Nat /\ First(h) <= a /\ a <= Last(h)
  BY <1>5
<1>7. \A a : a \in AddressesOf(h)
                <=> a \in Addresses /\ a \div Block(h.len) = h.ip \div Block(h.len)
  BY DEF AddressesOf
<1>8. \A a : a \in AddressesOf(h) <=> a \in First(h) .. Last(h)
  BY <1>2, <1>3, <1>4, <1>6, <1>7, Zenon
<1> QED BY <1>8, Zenon

\* A range starts at a multiple, and contains its addresses.
LEMMA RangeAddresses ==
    ASSUME NEW r \in privateRanges \union {hostLoopbackRange}
    PROVE  /\ r.ip \in Addresses /\ r.len \in 0 .. Bits
           /\ First(r) = r.ip /\ Last(r) = LastAddr(r)
           /\ \A a \in Addresses : Contains(r, a) <=> a \in AddressesOf(r)
<1>1. r \in Networks /\ r.ip % Block(r.len) = 0
  BY AllowAssumption DEF AllowAssumption
<1>2. r.ip \in Addresses /\ r.len \in 0 .. Bits
  BY <1>1 DEF Networks
<1>3. Addresses \subseteq Nat /\ Block(r.len) \in Nat \ {0}
  BY <1>2, BlockTyped, AllowAssumption, PowerOfTwo DEF AllowAssumption, Addresses
<1>4. First(r) = r.ip /\ Last(r) = LastAddr(r)
  <2>0. r.ip \in Nat
    BY <1>2, <1>3
  <2>1. r.ip - 0 = r.ip
    BY <2>0
  <2>2. First(r) = r.ip - (r.ip % Block(r.len))
    BY Zenon DEF First
  <2>3. First(r) = r.ip
    BY <1>1, <2>1, <2>2, Zenon
  <2> QED BY <2>3, Zenon DEF Last, LastAddr
<1>5. AddressesOf(r) = r.ip .. LastAddr(r)
  BY <1>2, <1>4, AddressesAre
<1>6. ASSUME NEW a \in Addresses PROVE Contains(r, a) <=> a \in r.ip .. LastAddr(r)
  <2> DEFINE b == Block(r.len)
             n == r.ip
  <2>1. a \in Nat /\ n \in Nat /\ b \in Nat \ {0} /\ n % b = 0
    BY <1>1, <1>2, <1>3
  <2> HIDE DEF b, n
  <2>2. a - (a % b) = n <=> n <= a /\ a <= n + b - 1
    BY <2>1
  <2>3. Contains(r, a) <=> a - (a % b) = n
    BY DEF Contains, b, n
  <2>4. LastAddr(r) = n + b - 1
    BY DEF LastAddr, b, n
  <2> QED BY <2>1, <2>2, <2>3, <2>4 DEF n
<1> QED BY <1>2, <1>4, <1>5, <1>6

\* The network of a literal starts at its first address and is as long.
LEMMA NetworkAddresses ==
    ASSUME NEW h, h.ip \in Addresses, h.len \in 0 .. Bits
    PROVE  LET n == ToNetwork(h) IN
           /\ n.ip = First(h) /\ LastAddr(n) = Last(h)
           /\ AddressesOf(n) = AddressesOf(h)
<1> DEFINE n == ToNetwork(h)
<1>1. n.ip = First(h) /\ n.len = h.len
  BY DEF ToNetwork, First
<1>2. LastAddr(n) = Last(h)
  BY <1>1 DEF LastAddr, Last
<1>3. /\ Block(h.len) \in Nat \ {0} /\ First(h) \in Addresses
      /\ First(h) % Block(h.len) = 0
  BY AddressesTyped
<1>4. First(h) \in Nat
  BY <1>3, AllowAssumption, PowerOfTwo DEF AllowAssumption, Addresses
<1> HIDE DEF n
<1>5. First(n) = First(h) /\ Last(n) = Last(h)
  <2>1. First(n) = n.ip - (n.ip % Block(n.len)) /\ Last(n) = First(n) + Block(n.len) - 1
    BY DEF First, Last
  <2>2. First(n) = First(h)
    BY <1>1, <1>3, <1>4, <2>1
  <2> QED BY <1>1, <2>1, <2>2 DEF Last
<1>6. AddressesOf(n) = First(n) .. Last(n) /\ AddressesOf(h) = First(h) .. Last(h)
  BY <1>1, <1>3, AddressesAre
<1> QED BY <1>1, <1>2, <1>5, <1>6 DEF n

\* A range contains a network when it contains its addresses.
LEMMA ContainsIsSubset ==
    ASSUME NEW r \in privateRanges \union {hostLoopbackRange},
           NEW h, h.ip \in Addresses, h.len \in 0 .. Bits
    PROVE  RangeContainsNetwork(r, ToNetwork(h)) <=> AddressesOf(h) \subseteq AddressesOf(r)
<1>1. /\ First(h) \in Addresses /\ Last(h) \in Addresses
      /\ AddressesOf(h) = First(h) .. Last(h) /\ h.ip \in First(h) .. Last(h)
  BY AddressesTyped, AddressesAre
<1>2. /\ r.ip \in Addresses /\ AddressesOf(r) = r.ip .. LastAddr(r)
      /\ LastAddr(r) \in Addresses
      /\ \A a \in Addresses : Contains(r, a) <=> a \in AddressesOf(r)
  BY RangeAddresses, AddressesAre, AddressesTyped
<1>3. RangeContainsNetwork(r, ToNetwork(h))
          <=> First(h) \in AddressesOf(r) /\ Last(h) \in AddressesOf(r)
  BY <1>1, <1>2, NetworkAddresses DEF RangeContainsNetwork
<1>4. Addresses \subseteq Int
  BY AllowAssumption, PowerOfTwo DEF AllowAssumption, Addresses
<1>5. First(h) \in Int /\ Last(h) \in Int /\ r.ip \in Int /\ LastAddr(r) \in Int
  BY <1>1, <1>2, <1>4
<1>6. First(h) <= Last(h)
  BY <1>1, <1>5
<1> QED BY <1>1, <1>2, <1>3, <1>5, <1>6

LEMMA LoopbackIs ==
    ASSUME NEW h, h.ip \in Addresses, h.len \in 0 .. Bits
    PROVE  WithinHostLoopback(ToNetwork(h)) <=> AddressesOf(h) \subseteq HostLoopback
BY ContainsIsSubset DEF WithinHostLoopback, HostLoopback

\* Addresses in a row that are all private are in one range, because the address
\* after a range is not private.
LEMMA PrivateIs ==
    ASSUME NEW h, h.ip \in Addresses, h.len \in 0 .. Bits
    PROVE  WithinPrivateRanges(ToNetwork(h)) <=> AddressesOf(h) \subseteq Private
<1>1. WithinPrivateRanges(ToNetwork(h))
          <=> \E r \in privateRanges : AddressesOf(h) \subseteq AddressesOf(r)
  BY ContainsIsSubset DEF WithinPrivateRanges
<1>2. ASSUME AddressesOf(h) \subseteq Private
      PROVE  \E r \in privateRanges : AddressesOf(h) \subseteq AddressesOf(r)
  <2>1. /\ AddressesOf(h) = First(h) .. Last(h)
        /\ First(h) \in Addresses /\ Last(h) \in Addresses
        /\ h.ip \in First(h) .. Last(h)
    BY AddressesAre, AddressesTyped
  <2>2. Addresses \subseteq Int
    BY AllowAssumption, PowerOfTwo DEF AllowAssumption, Addresses
  <2>3. /\ First(h) \in Int /\ Last(h) \in Int /\ First(h) <= Last(h)
    <3>1. First(h) \in Int /\ Last(h) \in Int
      BY <2>1, <2>2
    <3> QED BY <2>1, <3>1
  <2>4. PICK r \in privateRanges : First(h) \in AddressesOf(r)
    BY <1>2, <2>1, <2>3 DEF Private
  <2>5. /\ AddressesOf(r) = r.ip .. LastAddr(r)
        /\ r.ip \in Addresses /\ LastAddr(r) \in Addresses
    BY RangeAddresses, AddressesAre, AddressesTyped
  <2>6. LastAddr(r) + 1 \notin Private
    BY RangesAssumption DEF RangesAssumption
  <2>7. r.ip \in Int /\ LastAddr(r) \in Int
    BY <2>2, <2>5
  <2>8. LastAddr(r) + 1 \notin First(h) .. Last(h)
    BY <1>2, <2>1, <2>6
  <2>9. Last(h) <= LastAddr(r)
    <3>1. First(h) <= LastAddr(r)
      BY <2>3, <2>4, <2>5, <2>7
    <3> QED BY <2>3, <2>7, <2>8, <3>1
  <2>10. First(h) .. Last(h) \subseteq r.ip .. LastAddr(r)
    BY <2>3, <2>4, <2>5, <2>7, <2>9
  <2> QED BY <2>1, <2>5, <2>10
<1>3. ASSUME NEW r \in privateRanges, AddressesOf(h) \subseteq AddressesOf(r)
      PROVE  AddressesOf(h) \subseteq Private
  BY <1>3 DEF Private
<1> QED BY <1>1, <1>2, <1>3

LEMMA LiteralTyped ==
    ASSUME NEW raw \in RawAllows
    PROVE  raw.host.ip \in Addresses /\ raw.host.len \in 0 .. Bits
<1>1. Bits \in 0 .. Bits /\ 0 \in Addresses
  BY AllowAssumption, PowerOfTwo DEF AllowAssumption, Addresses
<1> QED BY <1>1 DEF RawAllows, HostLiterals

(* The parser accepts what may be allowed, and its entry stands for it. *)
THEOREM ParsesExactly ==
    ASSUME NEW raw \in RawAllows
    PROVE  /\ Parses(raw) <=> Permitted(raw)
           /\ AddressesOf(Entry(raw).network) = AddressesOf(raw.host)
           /\ Entry(raw).hostLoopback <=> AddressesOf(raw.host) \subseteq HostLoopback
           /\ Entry(raw).port = raw.port
<1>1. raw.host.ip \in Addresses /\ raw.host.len \in 0 .. Bits
  BY LiteralTyped
<1>2. /\ WithinHostLoopback(ToNetwork(raw.host)) <=> AddressesOf(raw.host) \subseteq HostLoopback
      /\ WithinPrivateRanges(ToNetwork(raw.host)) <=> AddressesOf(raw.host) \subseteq Private
  BY <1>1, LoopbackIs, PrivateIs
<1>3. ~(AddressesOf(raw.host) \subseteq HostLoopback /\ AddressesOf(raw.host) \subseteq Private)
  <2>1. raw.host.ip \in AddressesOf(raw.host)
    BY <1>1 DEF AddressesOf
  <2> QED BY <2>1, RangesAssumption DEF RangesAssumption
<1>4. Parses(raw) <=> Permitted(raw)
  <2>1. raw.host.kind \in {"ip", "cidr"} => SplitPort(raw) = raw.port
    BY DEF SplitPort
  <2> QED BY <1>2, <1>3, <2>1 DEF Parses, Permitted
<1>5. AddressesOf(Entry(raw).network) = AddressesOf(raw.host)
  BY <1>1, NetworkAddresses DEF Entry
<1> QED BY <1>2, <1>4, <1>5 DEF Entry

-----------------------------------------------------------------------------
(* What a setup is about to write has passed the checks, and what setups have
   written had. *)
StrictInv ==
    /\ \A s \in Setups :
         /\ pc[s] \in {"confirm", "write"} => ParseProxy(chosen[s])
         /\ pc[s] = "write" => ~Credentialed(chosen[s]) /\ ~BadAllow(s)
    /\ file.state = "ok" /\ author \in Setups =>
         /\ ParseProxy(file.proxy) /\ ~file.proxy.auth
         /\ \A raw \in file.allow : Parses(raw)

LEMMA StrictInit == Init => StrictInv
BY ConfigAssumption DEF Init, StrictInv, ConfigAssumption

\* Steps that leave the file and what was read alone.
LEMMA StrictKept ==
    ASSUME TypeOK, StrictInv, NEW s \in Setups, NEW to, Goto(s, to),
           UNCHANGED <<file, author>>, UNCHANGED existing,
           \A t \in Setups : t # s => chosen'[t] = chosen[t],
           to \in {"confirm", "write"} => ParseProxy(chosen'[s]),
           to # "write"
    PROVE  StrictInv'
<1>1. /\ file' = file /\ author' = author /\ existing' = existing
      /\ pc'[s] = to /\ \A t \in Setups : t # s => pc'[t] = pc[t]
  BY DEF Goto, TypeOK
<1>2. ASSUME NEW t \in Setups
      PROVE  /\ pc'[t] \in {"confirm", "write"} => ParseProxy(chosen[t])'
             /\ pc'[t] = "write" => ~Credentialed(chosen[t])' /\ ~BadAllow(t)'
  <2>1. CASE t = s
    BY <1>1, <2>1 DEF ParseProxy
  <2>2. CASE t # s
    BY <1>1, <2>2 DEF StrictInv, ParseProxy, Credentialed, BadAllow
  <2> QED BY <2>1, <2>2
<1>3. file'.state = "ok" /\ author' \in Setups =>
         /\ ParseProxy(file.proxy)' /\ ~file'.proxy.auth
         /\ \A raw \in file'.allow : Parses(raw)
  BY <1>1 DEF StrictInv, ParseProxy
<1> QED BY <1>2, <1>3 DEF StrictInv

LEMMA StrictBegin ==
    ASSUME TypeOK, StrictInv, NEW s \in Setups, Begin(s)
    PROVE  StrictInv'
<1>1. /\ file' = file /\ author' = author /\ chosen' = chosen
      /\ pc'[s] \in {"ended", "choose"}
      /\ \A t \in Setups : t # s => pc'[t] = pc[t] /\ existing'[t] = existing[t]
  BY DEF Begin, Goto, TypeOK
<1> QED BY <1>1 DEF StrictInv, ParseProxy, Credentialed, BadAllow

LEMMA StrictConfirm ==
    ASSUME TypeOK, StrictInv, NEW s \in Setups, Confirm(s)
    PROVE  StrictInv'
<1>1. pc[s] = "confirm" /\ existing' = existing /\ chosen' = chosen
  BY DEF Confirm
<1>2. CASE Refuse(s)
  <2>1. UNCHANGED <<file, author>> /\ \E to \in {"choose", "ended"} : Goto(s, to)
    BY <1>2 DEF Refuse
  <2> QED BY <1>1, <2>1, StrictKept
<1>3. CASE Truncate(s)
  <2>1. /\ file' = Torn /\ ~Credentialed(chosen[s]) /\ ~BadAllow(s)
        /\ pc'[s] = "write" /\ \A t \in Setups : t # s => pc'[t] = pc[t]
    BY <1>3 DEF Truncate, Goto, TypeOK
  <2> QED
    BY <1>1, <2>1 DEF StrictInv, ParseProxy, Credentialed, BadAllow, Torn
<1> QED BY <1>2, <1>3 DEF Confirm

LEMMA StrictWrite ==
    ASSUME TypeOK, StrictInv, NEW s \in Setups, Write(s)
    PROVE  StrictInv'
<1>1. /\ pc[s] = "write" /\ existing' = existing /\ chosen' = chosen
      /\ pc'[s] \in {"chmod", "died-writing"}
      /\ \A t \in Setups : t # s => pc'[t] = pc[t]
  BY DEF Write, Goto, TypeOK
<1>2. \/ file' = Missing \/ file' = Torn \/ file' = Content(chosen[s], existing[s].allow)
  BY DEF Write, KeptAllow
<1>3. ParseProxy(chosen[s]) /\ ~chosen[s].auth /\ \A raw \in existing[s].allow : Parses(raw)
  BY <1>1 DEF StrictInv, Credentialed, BadAllow
<1>4. file'.state = "ok" =>
         /\ ParseProxy(file.proxy)' /\ ~file'.proxy.auth
         /\ \A raw \in file'.allow : Parses(raw)
  BY <1>2, <1>3 DEF Missing, Torn, Content, ParseProxy
<1> QED BY <1>1, <1>4 DEF StrictInv, ParseProxy, Credentialed, BadAllow

LEMMA StrictStep == TypeOK /\ StrictInv /\ [Next]_vars => StrictInv'
<1> SUFFICES ASSUME TypeOK, StrictInv, [Next]_vars PROVE StrictInv'
  OBVIOUS
<1>1. ASSUME NEW s \in Setups, Choose(s) PROVE StrictInv'
  <2>1. PICK typed \in URLs \union {Blank} : Answer(s, typed)
    BY <1>1 DEF Choose
  <2>2. UNCHANGED <<file, author>> /\ UNCHANGED existing
    BY <1>1 DEF Choose
  <2>3. CASE Goto(s, "ended") /\ UNCHANGED chosen
    BY <2>2, <2>3, StrictKept
  <2>4. CASE \E raw : ParseProxy(raw) /\ chosen' = [chosen EXCEPT ![s] = raw] /\ Goto(s, "confirm")
    <3>1. PICK raw : ParseProxy(raw) /\ chosen' = [chosen EXCEPT ![s] = raw] /\ Goto(s, "confirm")
      BY <2>4
    <3>2. chosen'[s] = raw /\ \A t \in Setups : t # s => chosen'[t] = chosen[t]
      BY <3>1 DEF TypeOK
    <3> QED BY <2>2, <3>1, <3>2, StrictKept
  <2> QED BY <2>1, <2>3, <2>4 DEF Answer
<1>2. ASSUME NEW s \in Setups, Rechoose(s) \/ Decline(s) PROVE StrictInv'
  <2>1. /\ UNCHANGED <<file, author>> /\ UNCHANGED existing /\ UNCHANGED chosen
        /\ \E to \in {"choose", "ended"} : Goto(s, to)
    BY <1>2 DEF Rechoose, Decline
  <2> QED BY <2>1, StrictKept
<1>3. ASSUME NEW s \in Setups, Chmod(s) \/ Crash(s) PROVE StrictInv'
  <2>1. /\ UNCHANGED <<file, author>> /\ UNCHANGED existing /\ UNCHANGED chosen
        /\ \E to \in {"ended", "saved", "died-writing"} : Goto(s, to)
    BY <1>3 DEF Chmod, Crash
  <2> QED BY <2>1, StrictKept
<1>4. CASE Edit
  BY <1>4, ConfigAssumption
     DEF Edit, StrictInv, ConfigAssumption, ParseProxy, Credentialed, BadAllow
<1>5. CASE UNCHANGED vars
  BY <1>5 DEF vars, StrictInv, ParseProxy, Credentialed, BadAllow
<1> QED
  BY <1>1, <1>2, <1>3, <1>4, <1>5, StrictBegin, StrictConfirm, StrictWrite
     DEF Next, Finished

(* What a setup leaves in the file is a socks5h proxy without credentials, and
   allow entries that may be allowed: both were checked before the file was
   opened, and what was read is not read again. *)
THEOREM SavedIsStrictHolds == Spec => []SavedIsStrict
<1>1. TypeOK /\ StrictInv => SavedIsStrict
  <2> SUFFICES ASSUME TypeOK, StrictInv, file.state = "ok", author \in Setups
               PROVE  /\ file.proxy.scheme = "socks5h" /\ file.proxy.port # 0
                      /\ ~file.proxy.auth
                      /\ \A raw \in file.allow : Permitted(raw)
    BY DEF SavedIsStrict
  <2>1. file.allow \subseteq RawAllows
    BY ContentsAre, ConfigAssumption DEF TypeOK, ConfigAssumption
  <2> QED BY <2>1, ParsesExactly DEF StrictInv, ParseProxy
<1>2. TypeOK /\ StrictInv /\ [Next]_vars => StrictInv'
  BY StrictStep
<1> QED
  BY <1>1, <1>2, StrictInit, ConfigTypes, PTL DEF Spec

-----------------------------------------------------------------------------
(* What a command makes of the file and of its own arguments. *)
LEMMA AllowsTyped ==
    ASSUME TypeOK, NEW cl \in CommandLines
    PROVE  file.allow \subseteq RawAllows /\ cl.allow \subseteq RawAllows
BY ContentsAre, ConfigAssumption DEF TypeOK, ConfigAssumption, CommandLines

(* A command that runs a jail has a strict proxy, from the first source that
   gives one, and a file and arguments that say only what may be allowed. *)
THEOREM NoSilentFallbackHolds == Spec => []NoSilentFallback
<1>1. TypeOK => NoSilentFallback
  <2> SUFFICES ASSUME TypeOK, NEW cl \in CommandLines, Goes(cl)
               PROVE  /\ file.state # "torn"
                      /\ \A raw \in file.allow \union cl.allow : Permitted(raw)
                      /\ cl.flag # NotGiven => ResolvedProxy(cl) = cl.flag
                      /\ cl.flag = NotGiven /\ cl.env # Blank => ResolvedProxy(cl) = cl.env
                      /\ ResolvedProxy(cl) \in {cl.flag, cl.env, file.proxy}
                      /\ ResolvedProxy(cl).scheme = "socks5h"
    BY DEF NoSilentFallback
  <2>1. /\ file.state # "torn" /\ \A raw \in file.allow \union cl.allow : Parses(raw)
        /\ ResolvedProxy(cl).scheme = "socks5h" /\ ResolvedProxy(cl) # Blank
    BY DEF Goes, Loads, ParseProxy
  <2>2. \A raw \in file.allow \union cl.allow : Permitted(raw)
    BY <2>1, AllowsTyped, ParsesExactly
  <2>3. /\ cl.flag # NotGiven => ResolvedProxy(cl) = cl.flag
        /\ cl.flag = NotGiven /\ cl.env # Blank => ResolvedProxy(cl) = cl.env
        /\ cl.flag = NotGiven /\ cl.env = Blank => ResolvedProxy(cl) \in {file.proxy, Blank}
    BY DEF ResolvedProxy, Source
  <2> QED BY <2>1, <2>2, <2>3
<1> QED
  BY <1>1, ConfigTypes, PTL

(* No command runs a jail that may dial its own proxy on the host's loopback. *)
THEOREM NoDialToOwnProxyHolds == Spec => []NoDialToOwnProxy
<1>1. TypeOK => NoDialToOwnProxy
  <2> SUFFICES ASSUME TypeOK, NEW cl \in CommandLines, Goes(cl),
                      ResolvedProxy(cl).host = Loopback,
                      NEW raw \in ResolvedAllow(cl),
                      AddressesOf(raw.host) \subseteq HostLoopback
               PROVE  raw.port # ResolvedProxy(cl).port
    BY DEF NoDialToOwnProxy
  <2>1. raw \in RawAllows
    BY AllowsTyped DEF ResolvedAllow
  <2>2. Entry(raw).hostLoopback
    BY <2>1, ParsesExactly
  <2> QED BY <2>2 DEF Goes, OwnProxyPort, ProxyOnHostLoopback
<1> QED
  BY <1>1, ConfigTypes, PTL

(* An --allow more stops a bare command exactly when the value may not be allowed
   or is its own proxy, and the entry stands for the addresses that were written. *)
THEOREM AllowExactHolds == Spec => []AllowExact
<1>1. TypeOK => AllowExact
  <2> SUFFICES ASSUME TypeOK, Goes(BareCommand), NEW raw \in RawAllows
               PROVE  LET cl == [BareCommand EXCEPT !.allow = {raw}]
                          onLoopback == AddressesOf(raw.host) \subseteq HostLoopback
                      IN  /\ Goes(cl) <=>
                               /\ Permitted(raw)
                               /\ ~(/\ onLoopback /\ raw.port = file.proxy.port
                                    /\ file.proxy.host = Loopback)
                          /\ Goes(cl) =>
                               /\ AddressesOf(Entry(raw).network) = AddressesOf(raw.host)
                               /\ Entry(raw).hostLoopback <=> onLoopback
    BY Zenon DEF AllowExact
  <2> DEFINE cl == [BareCommand EXCEPT !.allow = {raw}]
  <2>1. cl.flag = NotGiven /\ cl.env = Blank /\ cl.allow = {raw}
    BY DEF BareCommand
  <2>2. BareCommand.flag = NotGiven /\ BareCommand.env = Blank
    BY DEF BareCommand
  <2> HIDE DEF cl
  <2>3. /\ file.proxy # Blank => ResolvedProxy(cl) = file.proxy
        /\ file.proxy = Blank => ResolvedProxy(BareCommand) = Blank
        /\ file.proxy # Blank => ResolvedProxy(BareCommand) = file.proxy
    BY <2>1, <2>2 DEF ResolvedProxy, Source
  <2>4. /\ ResolvedProxy(cl) = file.proxy /\ file.proxy # Blank
        /\ ParseProxy(file.proxy) /\ Loads
    BY <2>3 DEF Goes
  <2>5. ResolvedAllow(cl) = {raw}
    BY <2>1 DEF ResolvedAllow
  <2>6. OwnProxyPort(cl) <=> /\ file.proxy.host = Loopback /\ Entry(raw).hostLoopback
                             /\ raw.port = file.proxy.port
    BY <2>4, <2>5 DEF OwnProxyPort, ProxyOnHostLoopback
  <2>7. Goes(cl) <=> Parses(raw) /\ ~OwnProxyPort(cl)
    BY <2>1, <2>4 DEF Goes
  <2> QED BY <2>6, <2>7, ParsesExactly DEF cl
<1> QED
  BY <1>1, ConfigTypes, PTL
=============================================================================
