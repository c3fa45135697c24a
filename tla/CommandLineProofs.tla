-------------------------- MODULE CommandLineProofs ---------------------------
(***************************************************************************)
(* Proofs about CommandLine: the words of a shell without a quote in them  *)
(* stay apart, however many they are and whatever else is in them; what is *)
(* run and logged is one command with its qualifiers; a report shows what  *)
(* its filters ask for; and the line that is logged is read back as the    *)
(* chain it was written from, outside the cases where the code loses it.   *)
(***************************************************************************)
EXTENDS CommandLine, FiniteSetTheorems, SequenceTheorems, WellFoundedInduction, TLAPS

-----------------------------------------------------------------------------
(* Positions in a text                                                     *)

(* A set of numbers has a least one, ...                                   *)
LEMMA LeastNumber ==
    ASSUME NEW T \in SUBSET Nat, T # {}
    PROVE  Min(T) \in T /\ \A n \in T : Min(T) <= n
<1>1. PICK m \in T : TRUE
  OBVIOUS
<1> DEFINE C == {0 .. n : n \in {k \in T : k <= m}}
<1>2. C \subseteq FiniteSubsetsOf(0 .. m)
  <2> SUFFICES ASSUME NEW n \in T, n <= m
               PROVE  0 .. n \in SUBSET (0 .. m) /\ IsFiniteSet(0 .. n)
    BY DEF FiniteSubsetsOf
  <2>1. m \in Nat /\ n \in Nat
    OBVIOUS
  <2>2. IsFiniteSet(0 .. n)
    BY <2>1, FS_Interval
  <2>3. QED
    BY <2>1, <2>2
<1>3. C # {} /\ IsFiniteSet(0 .. m)
  BY <1>1, FS_Interval
<1>4. PICK Y \in C : \A Z \in C : <<Z, Y>> \notin StrictSubsetOrdering(0 .. m)
  BY <1>2, <1>3, WFMin, FS_StrictSubsetOrderingWellFounded
<1>5. PICK k \in T : k <= m /\ Y = 0 .. k
  BY <1>4
<1>6. \A n \in T : k <= n
  <2> SUFFICES ASSUME NEW n \in T, n < k
               PROVE  FALSE
    OBVIOUS
  <2>1. 0 .. n \in C /\ 0 .. n \subseteq Y /\ 0 .. n # Y
    BY <1>5
  <2>2. QED
    BY <1>2, <1>4, <2>1 DEF StrictSubsetOrdering, FiniteSubsetsOf
<1>7. QED
  BY <1>6 DEF Min

(* ... and a bounded one a greatest.                                       *)
LEMMA GreatestNumber ==
    ASSUME NEW T \in SUBSET Nat, T # {}, NEW m \in Nat, \A n \in T : n <= m
    PROVE  Max(T) \in T /\ \A n \in T : n <= Max(T)
<1> DEFINE U == {u \in Nat : \A n \in T : n <= u}
           u == Min(U)
<1>1. u \in U /\ \A n \in U : u <= n
  BY LeastNumber
<1>2. u \in T
  <2> SUFFICES ASSUME u \notin T
               PROVE  FALSE
    OBVIOUS
  <2>1. PICK n \in T : TRUE
    OBVIOUS
  <2>2. n \in Nat /\ n <= u /\ n # u /\ u \in Nat
    BY <1>1
  <2>3. u - 1 \in Nat /\ \A k \in T : k <= u - 1
    BY <1>1, <2>2
  <2>4. u - 1 \in U
    BY <2>3
  <2>5. u <= u - 1
    BY <1>1, <2>4
  <2>6. QED
    BY <2>2, <2>5
<1>3. QED
  BY <1>1, <1>2 DEF Max

(* The greater and the smaller of two.                                     *)
LEMMA OfTwo ==
    ASSUME NEW m \in Nat, NEW n \in Nat
    PROVE  /\ Max({m, n}) = IF m >= n THEN m ELSE n
           /\ Min({m, n}) = IF m <= n THEN m ELSE n
<1>1. Max({m, n}) \in {m, n} /\ Max({m, n}) >= m /\ Max({m, n}) >= n
  BY GreatestNumber, \A k \in {m, n} : k <= m + n
<1>2. Min({m, n}) \in {m, n} /\ Min({m, n}) <= m /\ Min({m, n}) <= n
  BY LeastNumber
<1>3. QED
  BY <1>1, <1>2

(* Where the characters of C end.                                          *)
LEMMA SkipEnds ==
    ASSUME NEW X, NEW s \in Seq(X), NEW p \in Nat \ {0}, p <= Len(s) + 1, NEW C
    PROVE  LET q == Skip(s, p, C)
           IN  /\ q \in p .. Len(s) + 1
               /\ \A j \in p .. q - 1 : s[j] \in C
               /\ q <= Len(s) => s[q] \notin C
<1> DEFINE T == {q \in p .. Len(s) : s[q] \notin C} \cup {Len(s) + 1}
<1>1. T \in SUBSET Nat /\ T # {}
  OBVIOUS
<1>2. Skip(s, p, C) = Min(T)
  BY DEF Skip
<1>3. Min(T) \in T /\ \A n \in T : Min(T) <= n
  BY <1>1, LeastNumber
<1> DEFINE m == Min(T)
<1>4. m \in p .. Len(s) + 1 /\ (m <= Len(s) => s[m] \notin C)
  BY <1>3
<1>5. ASSUME NEW j \in p .. m - 1, s[j] \notin C
      PROVE  FALSE
  <2>1. j \in T
    BY <1>4, <1>5
  <2>2. QED
    BY <1>3, <1>4, <2>1
<1>6. QED
  BY <1>2, <1>4, <1>5

(* The first place from p on with a character of C, or behind the text.    *)
LEMMA StopsAt ==
    ASSUME NEW X, NEW s \in Seq(X), NEW p \in Nat \ {0}, p <= Len(s) + 1, NEW C
    PROVE  LET q == Min({k \in p .. Len(s) : s[k] \in C} \cup {Len(s) + 1})
           IN  /\ q \in p .. Len(s) + 1
               /\ \A j \in p .. q - 1 : s[j] \notin C
               /\ q <= Len(s) => s[q] \in C
<1> DEFINE T == {q \in p .. Len(s) : s[q] \in C} \cup {Len(s) + 1}
<1>1. T \in SUBSET Nat /\ T # {}
  OBVIOUS
<1>2. Min(T) \in T /\ \A n \in T : Min(T) <= n
  BY <1>1, LeastNumber
<1> DEFINE m == Min(T)
<1>3. m \in p .. Len(s) + 1 /\ (m <= Len(s) => s[m] \in C)
  BY <1>2
<1>4. ASSUME NEW j \in p .. m - 1, s[j] \in C
      PROVE  FALSE
  <2>1. j \in T
    BY <1>3, <1>4
  <2>2. QED
    BY <1>2, <1>3, <2>1
<1>5. QED
  BY <1>3, <1>4

(* The first c from p on, or 0.                                            *)
LEMMA IndexFinds ==
    ASSUME NEW X, NEW s \in Seq(X), NEW p \in Nat \ {0}, NEW c
    PROVE  LET q == Index(s, p, c)
           IN  \/ q = 0 /\ \A j \in p .. Len(s) : s[j] # c
               \/ q \in p .. Len(s) /\ s[q] = c /\ \A j \in p .. q - 1 : s[j] # c
<1> DEFINE T == {q \in p .. Len(s) : s[q] = c} \cup {Len(s) + 1}
<1>1. T \in SUBSET Nat /\ T # {}
  OBVIOUS
<1>2. Index(s, p, c) = Min(T) % (Len(s) + 1)
  BY DEF Index
<1>3. Min(T) \in T /\ \A n \in T : Min(T) <= n
  BY <1>1, LeastNumber
<1>4. \A k \in Nat, n \in Nat : k % (n + 1) = IF k = n + 1 THEN 0 ELSE IF k <= n THEN k ELSE k % (n + 1)
  OBVIOUS
<1> DEFINE m == Min(T)
<1>5. m \in Nat /\ m <= Len(s) + 1 /\ m # 0
  BY <1>3
<1>6. Index(s, p, c) = IF m = Len(s) + 1 THEN 0 ELSE m
  BY <1>2, <1>4, <1>5
<1>7. \A j \in p .. Len(s) : s[j] = c => m <= j
  BY <1>3
<1>8. m = Len(s) + 1 \/ (m \in p .. Len(s) /\ s[m] = c)
  BY <1>3
<1> HIDE DEF m, T
<1>9. QED
  BY <1>5, <1>6, <1>7, <1>8

-----------------------------------------------------------------------------
(* One command                                                             *)

Char == Character \cup Sign

(* Quotes, names, signs and blanks are different characters.               *)
LEMMA Kinds ==
    /\ Name = {"/modify", "/report", "/group", "/usage"}
    /\ Name \cap Quote = {} /\ Name \cap Sign = {} /\ Character \cap Sign = {}
    /\ "blank" \notin Name \cup Quote \cup Sign /\ "nul" \notin Name \cup Quote \cup Sign \cup {"blank"}
    /\ "'" \in Quote /\ "'" \notin Name \cup Sign
    /\ Name \subseteq Character /\ Quote \subseteq Character
  BY DEF Name, CmdQuals, Quote, Sign, Character, Digit, DigitValue

(* A comparison is one there is, or none, or an error.                     *)
LEMMA Comparisons ==
    ASSUME NEW signs \in Seq(Sign), Len(signs) <= 2
    PROVE  GetCmp(signs) \in DOMAIN Signs \cup {"ERR"}
<1>1. DOMAIN Signs = {"NONE", "LT", "LE", "EQ", "GE", "GT", "NE", "OPT"}
  BY DEF Signs
<1>2. \A k \in DOMAIN signs : signs[k] \in Sign
  OBVIOUS
<1>3. \A c \in Sign : FirstSign[c] \in DOMAIN Signs
  BY <1>1 DEF FirstSign, Sign
<1>4. \A c \in Sign, d \in Sign :
        FirstSign[c] \in DOMAIN SecondSign[d] => SecondSign[d][FirstSign[c]] \in DOMAIN Signs
  <2> SUFFICES ASSUME NEW c \in Sign, NEW d \in Sign, NEW first, first \in DOMAIN SecondSign[d]
               PROVE  SecondSign[d][first] \in DOMAIN Signs
    OBVIOUS
  <2>1. CASE d = "?"
    <3>1. SecondSign[d] = [EQ |-> "OPT"]
      BY <2>1 DEF SecondSign, Sign
    <3>2. QED
      BY <1>1, <3>1
  <2>2. CASE d = "="
    <3>1. SecondSign[d] = [EQ |-> "EQ", GT |-> "GE", LT |-> "LE", NE |-> "NE", OPT |-> "OPT"]
      BY <2>2 DEF SecondSign, Sign
    <3>2. QED
      BY <1>1, <3>1
  <2>3. CASE d \in {">", "."}
    <3>1. SecondSign[d] = [EQ |-> "GE", NE |-> "LE"]
      BY <2>3 DEF SecondSign, Sign
    <3>2. QED
      BY <1>1, <3>1
  <2>4. CASE d \in {"<", ","}
    <3>1. SecondSign[d] = [EQ |-> "LE", NE |-> "GE"]
      BY <2>4 DEF SecondSign, Sign
    <3>2. QED
      BY <1>1, <3>1
  <2>5. CASE d = "!"
    <3>1. SecondSign[d] = [EQ |-> "NE", NE |-> "EQ", LT |-> "GE", GT |-> "LE"]
      BY <2>5 DEF SecondSign, Sign
    <3>2. QED
      BY <1>1, <3>1
  <2>6. QED
    BY <2>1, <2>2, <2>3, <2>4, <2>5 DEF Sign
<1>5. CASE signs = <<>>
  BY <1>1, <1>5 DEF GetCmp
<1>6. CASE Len(signs) = 1
  <2>1. signs # <<>> /\ signs[1] \in Sign
    BY <1>2, <1>6
  <2>2. GetCmp(signs) = FirstSign[signs[1]]
    BY <1>6, <2>1 DEF GetCmp
  <2>3. QED
    BY <1>3, <2>1, <2>2
<1>7. CASE Len(signs) = 2
  <2>1. signs # <<>> /\ signs[1] \in Sign /\ signs[2] \in Sign
    BY <1>2, <1>7
  <2> DEFINE first == FirstSign[signs[1]]
  <2>2. GetCmp(signs) = IF first \in DOMAIN SecondSign[signs[2]] THEN SecondSign[signs[2]][first] ELSE "ERR"
    BY <1>7, <2>1 DEF GetCmp
  <2>3. QED
    BY <1>4, <2>1, <2>2
<1>8. Len(signs) = 0 => signs = <<>>
  OBVIOUS
<1>9. Len(signs) \in {0, 1, 2}
  <2> DEFINE n == Len(signs)
  <2>1. n \in Nat /\ n <= 2
    OBVIOUS
  <2> HIDE DEF n
  <2>2. n \in {0, 1, 2}
    BY <2>1
  <2>3. QED
    BY <2>2 DEF n
<1>10. QED
  BY <1>5, <1>6, <1>7, <1>8, <1>9

(* newcmd keeps the name and the comparison, or makes an error.            *)
LEMMA NewCmdNames ==
    ASSUME NEW name, NEW cmp, NEW v
    PROVE  /\ NewCmd(name, cmp, v).name \in {name, "ERR"}
           /\ NewCmd(name, cmp, v).cmp = cmp
  BY DEF NewCmd

(* The places and parts of the text that getcmd goes through from p on:    *)
(* where the command starts, where its name is and where its quotes close, *)
(* what is behind the name, and the value.                                 *)
Parts(s, p, start, f, end, after, m, signs, v) ==
    /\ start = SkipWSpace(s, p)
    /\ f = IF At(s, start) \in Quote THEN start + 1 ELSE start
    /\ end = IF At(s, start) \in Quote THEN Index(s, f, s[start]) ELSE 0
    /\ after = SkipWSpace(s, f + 1)
    /\ m = Min({Skip(s, after, Sign) - 1, after + 1})
    /\ signs = SubSeq(s, after, m)
    /\ v = Value(s, SkipWSpace(s, after + Len(signs)), end)

\* There is a name to read.
Named(s, start, f, end) == ~(At(s, start) \in Quote /\ end = 0) /\ At(s, f) \in Name

\* What getcmd makes of the parts.
Reading(s, start, f, end, after, signs, v) ==
    IF At(s, start) \in Quote /\ end = 0 THEN [cmd |-> Error, next |-> 0]
    ELSE IF At(s, f) = "nul" THEN [cmd |-> Other("END"), next |-> 0]
    ELSE IF \/ At(s, f) \notin Name
            \/ At(s, f + 1) \notin Name \cup Quote \cup (Sign \ {"?"}) \cup {"blank", "nul"}
         THEN [cmd |-> Error, next |-> 0]
    ELSE IF GetCmp(signs) \in {"NONE", "ERR"}
         THEN [cmd |-> NewCmd(s[f], GetCmp(signs), <<>>), next |-> Max({after + Len(signs), end + 1})]
    ELSE IF ~v.ok THEN [cmd |-> Error, next |-> 0]
    ELSE IF v.from > v.to THEN [cmd |-> Other("EXIT"), next |-> 0]
    ELSE [cmd |-> NewCmd(s[f], GetCmp(signs), SubSeq(s, v.from, v.to)), next |-> v.next]

(* getcmd is its parts and the reading of them.                            *)
LEMMA GetCmdParts ==
    ASSUME NEW s, NEW p
    PROVE  \E start, f, end, after, m, signs, v :
               /\ Parts(s, p, start, f, end, after, m, signs, v)
               /\ GetCmd(s, p) = Reading(s, start, f, end, after, signs, v)
<1> DEFINE start == SkipWSpace(s, p)
           f == IF At(s, start) \in Quote THEN start + 1 ELSE start
           end == IF At(s, start) \in Quote THEN Index(s, f, s[start]) ELSE 0
           after == SkipWSpace(s, f + 1)
           m == Min({Skip(s, after, Sign) - 1, after + 1})
           signs == SubSeq(s, after, m)
           v == Value(s, SkipWSpace(s, after + Len(signs)), end)
<1>1. Parts(s, p, start, f, end, after, m, signs, v)
  BY DEF Parts
<1>2. GetCmd(s, p) = Reading(s, start, f, end, after, signs, v)
  BY DEF GetCmd, Reading
<1> HIDE DEF start, f, end, after, m, signs, v
<1>3. QED
  BY <1>1, <1>2

(* Where the parts are, if there is a name.                                *)
LEMMA PartsPlaced ==
    ASSUME NEW s \in Seq(Char), NEW p \in 1 .. Len(s) + 1, NEW start, NEW f, NEW end,
           NEW after, NEW m, NEW signs, NEW v,
           Parts(s, p, start, f, end, after, m, signs, v), Named(s, start, f, end)
    PROVE  /\ start \in p .. Len(s) + 1
           /\ f \in start .. Len(s) /\ s[f] \in Name
           /\ end \in f .. Len(s) \/ (end = 0 /\ At(s, start) \notin Quote)
           /\ after \in f + 1 .. Len(s) + 1
           /\ signs \in Seq(Sign) /\ Len(signs) <= 2
           /\ after + Len(signs) <= Len(s) + 1
<1>1. start \in p .. Len(s) + 1
  <2>1. p \in Nat \ {0} /\ p <= Len(s) + 1
    OBVIOUS
  <2>2. QED
    BY <2>1, SkipEnds DEF Parts, SkipWSpace
<1>2. f \in Nat \ {0} /\ f >= start
  BY <1>1 DEF Parts
<1>3. f \in DOMAIN s /\ s[f] \in Name
  BY Kinds DEF Named, At
<1>4. f \in start .. Len(s)
  BY <1>1, <1>2, <1>3
<1>5. end \in f .. Len(s) \/ (end = 0 /\ At(s, start) \notin Quote)
  <2>1. CASE At(s, start) \in Quote
    <3>1. end = Index(s, f, s[start]) /\ end # 0
      BY <2>1 DEF Parts, Named
    <3>2. QED
      BY <1>2, <3>1, IndexFinds
  <2>2. QED
    BY <2>1 DEF Parts
<1>6. after \in f + 1 .. Len(s) + 1
  <2>1. f + 1 \in Nat \ {0} /\ f + 1 <= Len(s) + 1
    BY <1>4, <1>1
  <2>2. QED
    BY <2>1, SkipEnds DEF Parts, SkipWSpace
<1> DEFINE q == Skip(s, after, Sign)
<1>7. after \in Nat \ {0} /\ after <= Len(s) + 1
  BY <1>1, <1>4, <1>6
<1>8. q \in after .. Len(s) + 1 /\ \A j \in after .. q - 1 : s[j] \in Sign
  BY <1>7, SkipEnds
<1>9. m = IF q - 1 <= after + 1 THEN q - 1 ELSE after + 1
  <2>1. q - 1 \in Nat /\ after + 1 \in Nat
    BY <1>7, <1>8
  <2>2. QED
    BY <2>1, OfTwo DEF Parts
<1>10. m \in after - 1 .. Len(s) /\ m <= after + 1 /\ \A j \in after .. m : s[j] \in Sign
  BY <1>7, <1>8, <1>9
<1>11. /\ Len(SubSeq(s, after, m)) = m - after + 1
       /\ SubSeq(s, after, m) \in Seq(Sign)
  BY <1>7, <1>10
<1>12. signs \in Seq(Sign) /\ Len(signs) = m - after + 1
  BY <1>11 DEF Parts
<1>13. Len(signs) <= 2 /\ after + Len(signs) <= Len(s) + 1
  BY <1>7, <1>10, <1>12
<1>14. QED
  BY <1>1, <1>3, <1>4, <1>5, <1>6, <1>12, <1>13

(* A value ends within the text, and behind where it starts.               *)
LEMMA ValuePlaced ==
    ASSUME NEW s \in Seq(Char), NEW p \in 1 .. Len(s) + 1, NEW end \in 0 .. Len(s)
    PROVE  LET v == Value(s, p, end)
           IN  /\ v.ok => v.next \in Nat /\ v.next <= Len(s) + 1 /\ v.next > end
               /\ v.ok /\ end = 0 => v.next >= p
<1>0. p \in Nat \ {0} /\ p <= Len(s) + 1 /\ Len(s) \in Nat /\ end \in Nat /\ end <= Len(s)
  OBVIOUS
<1>1. CASE At(s, p) \in Quote
  <2> DEFINE close == Index(s, p + 1, s[p])
  <2>1. close = 0 \/ close \in p + 1 .. Len(s)
    BY <1>0, IndexFinds
  <2>2. Value(s, p, end) = [ok |-> close # 0, from |-> p + 1, to |-> close - 1,
                            next |-> IF close > end + 1 THEN close + 1 ELSE end + 1]
    BY <1>1 DEF Value
  <2> HIDE DEF close
  <2>4. CASE close = 0
    <3>1. Value(s, p, end) = [ok |-> FALSE, from |-> p + 1, to |-> close - 1,
                              next |-> IF close > end + 1 THEN close + 1 ELSE end + 1]
      BY <2>2, <2>4
    <3>2. QED
      BY <3>1
  <2>5. CASE close # 0
    <3>1. Value(s, p, end) = [ok |-> TRUE, from |-> p + 1, to |-> close - 1,
                              next |-> IF close > end + 1 THEN close + 1 ELSE end + 1]
      BY <2>2, <2>5
    <3>2. QED
      BY <1>0, <2>1, <2>5, <3>1
  <2>6. QED
    BY <2>4, <2>5
<1>2. CASE At(s, p) \notin Quote
  <2> DEFINE stop == Min({q \in p .. Len(s) : s[q] \in Name \cup {"blank"}} \cup {Len(s) + 1})
  <2>1. stop \in p .. Len(s) + 1
    <3>1. ASSUME NEW C
          PROVE  Min({q \in p .. Len(s) : s[q] \in C} \cup {Len(s) + 1}) \in p .. Len(s) + 1
      <4>1. s \in Seq(Char) /\ p \in Nat \ {0} /\ p <= Len(s) + 1
        BY <1>0
      <4>2. QED
        BY <4>1, StopsAt
    <3>2. QED
      BY <3>1
  <2>2. Value(s, p, end) = [ok |-> TRUE, from |-> p, to |-> IF end = 0 THEN stop - 1 ELSE end - 1,
                            next |-> IF end = 0 THEN stop ELSE end + 1]
    BY <1>2 DEF Value
  <2> HIDE DEF stop
  <2>3. QED
    BY <1>0, <2>1, <2>2
<1>3. QED
  BY <1>1, <1>2

(* The text of a command is read onwards: getcmd ends or goes on behind    *)
(* where it was, and never behind the end of the text.                     *)
LEMMA GetCmdAdvances ==
    ASSUME NEW s \in Seq(Char), NEW p \in 1 .. Len(s) + 1
    PROVE  LET g == GetCmd(s, p)
           IN  /\ g.next = 0 \/ g.next \in p + 1 .. Len(s) + 1
               /\ g.cmd.name \in Name \cup {"ERR", "END", "EXIT"}
               /\ g.cmd.name \in {"END", "EXIT"} => g.next = 0
               /\ g.cmd.name \in Name => g.cmd.cmp \in DOMAIN Signs \cup {"ERR"}
<1>1. PICK start, f, end, after, m, signs, v :
           /\ Parts(s, p, start, f, end, after, m, signs, v)
           /\ GetCmd(s, p) = Reading(s, start, f, end, after, signs, v)
  BY GetCmdParts
<1>2. /\ Error.name = "ERR" /\ Other("END").name = "END" /\ Other("EXIT").name = "EXIT"
      /\ "ERR" \notin Name /\ "END" \notin Name /\ "EXIT" \notin Name
  BY Kinds DEF Error, Other
<1>3. CASE ~Named(s, start, f, end)
  <2>1. Reading(s, start, f, end, after, signs, v) \in
          {[cmd |-> Error, next |-> 0], [cmd |-> Other("END"), next |-> 0]}
    BY <1>3, Kinds DEF Named, Reading
  <2>2. QED
    BY <1>1, <1>2, <2>1
<1>4. CASE Named(s, start, f, end)
  <2>1. /\ start \in p .. Len(s) + 1
        /\ f \in start .. Len(s) /\ s[f] \in Name
        /\ end \in f .. Len(s) \/ (end = 0 /\ At(s, start) \notin Quote)
        /\ after \in f + 1 .. Len(s) + 1
        /\ signs \in Seq(Sign) /\ Len(signs) <= 2
        /\ after + Len(signs) <= Len(s) + 1
    BY <1>1, <1>4, PartsPlaced
  <2> DEFINE n == SkipWSpace(s, after + Len(signs))
             d == NewCmd(s[f], GetCmp(signs), <<>>)
             e == NewCmd(s[f], GetCmp(signs), SubSeq(s, v.from, v.to))
  <2>2. Reading(s, start, f, end, after, signs, v) \in
          {[cmd |-> Error, next |-> 0], [cmd |-> Other("EXIT"), next |-> 0],
           [cmd |-> d, next |-> Max({after + Len(signs), end + 1})]} \cup
          {[cmd |-> e, next |-> v.next] : x \in {y \in {1} : v.ok}}
    BY <1>4, Kinds DEF Named, Reading
  <2>3. GetCmp(signs) \in DOMAIN Signs \cup {"ERR"}
    BY <2>1, Comparisons
  <2>4. d.name \in {s[f], "ERR"} /\ d.cmp = GetCmp(signs) /\ e.name \in {s[f], "ERR"} /\ e.cmp = GetCmp(signs)
    BY NewCmdNames
  <2>5. Max({after + Len(signs), end + 1}) \in p + 1 .. Len(s) + 1
    <3>1. after + Len(signs) \in Nat /\ end + 1 \in Nat
      BY <2>1
    <3>2. QED
      BY SMTT(30), <2>1, <3>1, OfTwo
  <2>6. v.ok => v.next \in p + 1 .. Len(s) + 1
    <3>1. after + Len(signs) \in Nat \ {0} /\ after + Len(signs) > p /\ end \in 0 .. Len(s)
      BY <2>1
    <3>2. n \in after + Len(signs) .. Len(s) + 1
      BY <2>1, <3>1, SkipEnds DEF SkipWSpace
    <3>3. v = Value(s, n, end)
      BY <1>1 DEF Parts
    <3> HIDE DEF n
    <3>4. /\ v.ok => v.next \in Nat /\ v.next <= Len(s) + 1 /\ v.next > end
          /\ v.ok /\ end = 0 => v.next >= n
      BY <3>1, <3>2, <3>3, ValuePlaced
    <3>5. QED
      BY <2>1, <3>1, <3>2, <3>4
  <2> HIDE DEF n, d, e
  <2>7. QED
    BY <1>1, <1>2, <2>1, <2>2, <2>3, <2>4, <2>5, <2>6
<1>5. QED
  BY <1>3, <1>4

-----------------------------------------------------------------------------
(* All commands of a text                                                  *)

\* What parseslashcmd has of the text from p on, if all is what it has behind p.
Step(s, all, p) ==
    LET g == GetCmd(s, p)
    IN  IF g.cmd.name = "END" THEN <<>>
        ELSE IF g.cmd.name = "EXIT" THEN <<Error>>
        ELSE IF g.next = 0 THEN <<g.cmd>>
        ELSE <<g.cmd>> \o all[g.next]

\* all is what parseslashcmd has of the text from n or a later place on.
IsParse(s, n, all) == all = [p \in n .. Len(s) + 1 |-> Step(s, all, p)]

Parse1(s) == CHOOSE all : IsParse(s, 1, all)

(* What is read at p depends on what is read behind it only.               *)
LEMMA StepLooksBehind ==
    ASSUME NEW s \in Seq(Char), NEW p \in 1 .. Len(s) + 1, NEW all, NEW others,
           \A q \in p + 1 .. Len(s) + 1 : all[q] = others[q]
    PROVE  Step(s, all, p) = Step(s, others, p)
  BY GetCmdAdvances DEF Step

(* Since a text is read onwards, there is one such function, ...           *)
LEMMA ParseExists ==
    ASSUME NEW s \in Seq(Char)
    PROVE  IsParse(s, 1, Parse1(s))
<1> DEFINE T == {n \in 1 .. Len(s) + 1 : \E all : IsParse(s, n, all)}
           end == Len(s) + 1
<1>0. end \in Nat \ {0} /\ end = Len(s) + 1
  OBVIOUS
<1>1. IsParse(s, end, [p \in end .. end |-> Step(s, <<>>, p)])
  <2> DEFINE all == [p \in end .. end |-> Step(s, <<>>, p)]
  <2>1. \A p \in end .. end : p \in 1 .. Len(s) + 1 /\ Step(s, all, p) = Step(s, <<>>, p)
    <3> TAKE p \in end .. end
    <3>1. p \in 1 .. Len(s) + 1 /\ \A q \in p + 1 .. Len(s) + 1 : all[q] = <<>>[q]
      BY <1>0
    <3> HIDE DEF all
    <3>2. QED
      BY <3>1, StepLooksBehind
  <2>2. all = [p \in end .. end |-> Step(s, all, p)]
    BY <2>1
  <2> HIDE DEF all
  <2>3. IsParse(s, end, all)
    BY <1>0, <2>2 DEF IsParse
  <2>4. QED
    BY <2>3 DEF all
<1>2. end \in T
  BY <1>0, <1>1
<1>3. PICK n \in T : \A k \in T : n <= k
  <2>1. T \in SUBSET Nat /\ T # {}
    BY <1>0, <1>2
  <2>2. QED
    BY <2>1, LeastNumber
<1>4. PICK all : IsParse(s, n, all)
  BY <1>3
<1>5. n = 1
  <2> SUFFICES ASSUME n # 1
               PROVE  FALSE
    OBVIOUS
  <2>1. n \in 1 .. end /\ n - 1 \in 1 .. Len(s) + 1 /\ n \in Nat
    BY <1>0, <1>3
  <2> DEFINE more == [p \in n - 1 .. end |-> IF p = n - 1 THEN Step(s, all, n - 1) ELSE all[p]]
  <2>2. \A p \in n - 1 .. end : Step(s, more, p) = Step(s, all, p)
    <3> TAKE p \in n - 1 .. end
    <3>1. p \in 1 .. Len(s) + 1 /\ \A q \in p + 1 .. Len(s) + 1 : more[q] = all[q]
      BY <1>0, <2>1
    <3> HIDE DEF more
    <3>2. QED
      BY <3>1, StepLooksBehind
  <2>3. \A p \in n .. end : all[p] = Step(s, all, p)
    BY <1>4, <1>0 DEF IsParse
  <2>4. \A p \in n - 1 .. end : more[p] = Step(s, more, p)
    BY <2>1, <2>2, <2>3
  <2>5. more = [p \in n - 1 .. end |-> Step(s, more, p)]
    BY <2>4
  <2> HIDE DEF more
  <2>6. IsParse(s, n - 1, more)
    BY <1>0, <2>5 DEF IsParse
  <2>7. n - 1 \in T
    BY <2>1, <2>6
  <2> HIDE DEF T
  <2>8. QED
    BY <1>3, <2>1, <2>7
<1>6. QED
  BY <1>4, <1>5 DEF Parse1

(* ... and it is the one of parseslashcmd.                                 *)
LEMMA ParseIsParse1 ==
    ASSUME NEW s
    PROVE  ParseSlashCmd(s) = IF CheckSyntax(Parse1(s)[1]) THEN Parse1(s)[1] ELSE <<>>
  BY DEF ParseSlashCmd, Parse1, IsParse, Step

(* It reads a command and goes on behind it ...                            *)
LEMMA ParseSteps ==
    ASSUME NEW s \in Seq(Char), NEW p \in 1 .. Len(s) + 1
    PROVE  Parse1(s)[p] = Step(s, Parse1(s), p)
  BY ParseExists DEF IsParse

\* The commands that are read somewhere in the text, and are not its end.
Found(s) == {c \in {GetCmd(s, p).cmd : p \in 1 .. Len(s) + 1} : c.name \notin {"END", "EXIT"}} \cup {Error}

(* ... and has but commands of the text, or an error.                      *)
LEMMA ParseFinds ==
    ASSUME NEW s \in Seq(Char), NEW p \in 1 .. Len(s) + 1
    PROVE  Parse1(s)[p] \in Seq(Found(s))
<1> DEFINE end == Len(s) + 1
           T == {n \in 1 .. end + 1 : \A q \in n .. end : Parse1(s)[q] \in Seq(Found(s))}
<1>0. end \in Nat \ {0} /\ end = Len(s) + 1
  OBVIOUS
<1>1. end + 1 \in T
  BY <1>0
<1>2. PICK n \in T : \A k \in T : n <= k
  <2>1. T \in SUBSET Nat /\ T # {}
    BY <1>0, <1>1
  <2> HIDE DEF T
  <2>2. QED
    BY <2>1, LeastNumber
<1>3. n = 1
  <2> SUFFICES ASSUME n # 1
               PROVE  FALSE
    OBVIOUS
  <2>1. n \in Nat /\ n - 1 \in 1 .. end /\ n - 1 \in 1 .. Len(s) + 1
    BY <1>0, <1>2
  <2> DEFINE g == GetCmd(s, n - 1)
  <2>2. g.next = 0 \/ g.next \in n .. end
    <3>1. g.next = 0 \/ g.next \in (n - 1) + 1 .. Len(s) + 1
      BY <2>1, GetCmdAdvances
    <3>2. QED
      BY <1>0, <2>1, <3>1
  <2>3. (g.cmd.name \notin {"END", "EXIT"} => g.cmd \in Found(s)) /\ Error \in Found(s)
    BY <2>1 DEF Found
  <2>4. g.next # 0 => Parse1(s)[g.next] \in Seq(Found(s))
    BY <1>2, <2>2
  <2>5. Parse1(s)[n - 1] = Step(s, Parse1(s), n - 1)
    BY <2>1, ParseSteps
  <2> HIDE DEF T, g
  <2>6. Step(s, Parse1(s), n - 1) \in Seq(Found(s))
    BY <2>3, <2>4 DEF Step, g
  <2>7. n - 1 \in T
    BY <1>2, <2>1, <2>5, <2>6 DEF T
  <2>8. QED
    BY <1>2, <2>1, <2>7
<1>4. QED
  BY <1>2, <1>3

-----------------------------------------------------------------------------
(* The words in the text                                                   *)

\* f is what flattening the first n of seqs makes, one after the other.
IsFlat(seqs, n, f) == f = [i \in 1 .. n |-> IF i = 1 THEN seqs[i] ELSE f[i - 1] \o seqs[i]]

Flat(seqs) == CHOOSE f : IsFlat(seqs, Len(seqs), f)

(* There is such a function, ...                                           *)
LEMMA FlatExists ==
    ASSUME NEW X, NEW seqs \in Seq(X), Len(seqs) # 0
    PROVE  IsFlat(seqs, Len(seqs), Flat(seqs))
<1> DEFINE N == Len(seqs)
           T == {n \in 1 .. N : \E f : IsFlat(seqs, n, f)}
<1>1. N \in Nat \ {0}
  OBVIOUS
<1> HIDE DEF N
<1>2. 1 \in T
  <2> DEFINE f == [i \in 1 .. 1 |-> seqs[i]]
  <2>1. f = [i \in 1 .. 1 |-> IF i = 1 THEN seqs[i] ELSE f[i - 1] \o seqs[i]]
    OBVIOUS
  <2> HIDE DEF f
  <2>2. IsFlat(seqs, 1, f)
    BY <2>1 DEF IsFlat
  <2>3. QED
    BY <1>1, <2>2
<1>3. PICK n \in T : \A k \in T : k <= n
  <2>1. T \in SUBSET Nat /\ T # {} /\ \A k \in T : k <= N
    BY <1>1, <1>2
  <2>2. QED
    BY <1>1, <2>1, GreatestNumber
<1>4. PICK f : IsFlat(seqs, n, f)
  BY <1>3
<1>5. n = N
  <2> SUFFICES ASSUME n # N
               PROVE  FALSE
    OBVIOUS
  <2>1. n \in Nat \ {0} /\ n + 1 \in 1 .. N
    BY <1>1, <1>3
  <2> DEFINE more == [i \in 1 .. n + 1 |-> IF i = n + 1 THEN f[n] \o seqs[i] ELSE f[i]]
  <2>2. \A i \in 1 .. n : f[i] = IF i = 1 THEN seqs[i] ELSE f[i - 1] \o seqs[i]
    BY <1>4 DEF IsFlat
  <2>3. \A i \in 1 .. n + 1 : more[i] = IF i = 1 THEN seqs[i] ELSE more[i - 1] \o seqs[i]
    BY <2>1, <2>2
  <2>4. more = [i \in 1 .. n + 1 |-> IF i = 1 THEN seqs[i] ELSE more[i - 1] \o seqs[i]]
    BY <2>3
  <2> HIDE DEF more
  <2>5. IsFlat(seqs, n + 1, more)
    BY <2>4 DEF IsFlat
  <2>6. n + 1 \in T
    BY <2>1, <2>5
  <2> HIDE DEF T
  <2>7. QED
    BY <1>3, <2>1, <2>6
<1>6. QED
  BY <1>4, <1>5 DEF Flat, N

(* ... and FlattenSeq is its last value.                                   *)
LEMMA FlattenIsFlat ==
    ASSUME NEW seqs, Len(seqs) # 0
    PROVE  FlattenSeq(seqs) = Flat(seqs)[Len(seqs)]
  BY DEF FlattenSeq, Flat, IsFlat

(* What the parts of a sequence are in it.                                 *)
LEMMA Joined ==
    ASSUME NEW X, NEW u \in Seq(X), NEW v \in Seq(X)
    PROVE  /\ u \o v \in Seq(X) /\ Len(u) \in Nat /\ Len(v) \in Nat
           /\ Len(u \o v) = Len(u) + Len(v)
           /\ \A j \in 1 .. Len(u) : (u \o v)[j] = u[j]
           /\ \A j \in 1 .. Len(v) : (u \o v)[Len(u) + j] = v[j]
  OBVIOUS

\* v begins with u.
Begins(v, u) == Len(u) <= Len(v) /\ \A j \in 1 .. Len(u) : v[j] = u[j]

(* What is appended does not change the beginning.                         *)
LEMMA BeginsJoined ==
    ASSUME NEW X, NEW u \in Seq(X), NEW v \in Seq(X), NEW w \in Seq(X), Begins(u, w)
    PROVE  Begins(u \o v, w)
<1>1. /\ Len(u \o v) = Len(u) + Len(v) /\ Len(u) \in Nat /\ Len(v) \in Nat /\ Len(w) \in Nat
      /\ \A j \in 1 .. Len(u) : (u \o v)[j] = u[j]
  BY Joined
<1>2. Len(w) <= Len(u) /\ \A j \in 1 .. Len(w) : u[j] = w[j]
  BY DEF Begins
<1>3. Len(w) <= Len(u \o v) /\ \A j \in 1 .. Len(w) : (u \o v)[j] = w[j]
  BY <1>1, <1>2
<1>4. QED
  BY <1>3 DEF Begins

\* f[i] is the first i of seqs, one after the other.
Grows(X, n, seqs, f) ==
    /\ n \in Nat \ {0}
    /\ \A i \in 1 .. n : seqs[i] \in Seq(X)
    /\ f[1] = seqs[1]
    /\ \A i \in 1 .. n : i # 1 => f[i] = f[i - 1] \o seqs[i]

(* Each of them is a sequence that begins with those before.               *)
LEMMA GrowsOn ==
    ASSUME NEW X, NEW N, NEW seqs, NEW f, Grows(X, N, seqs, f), NEW n \in 1 .. N, NEW k \in 1 .. n
    PROVE  f[k] \in Seq(X) /\ Begins(f[n], f[k])
<1> DEFINE Good(q) == \A i \in 1 .. q : f[i] \in Seq(X) /\ Begins(f[q], f[i])
           T == {q \in 1 .. N + 1 : q = N + 1 \/ ~Good(q)}
<1>1. N \in Nat \ {0}
  BY DEF Grows
<1>2. ASSUME NEW u \in Seq(X)
      PROVE  Begins(u, u)
  BY DEF Begins
<1>3. Good(1)
  <2>1. f[1] \in Seq(X)
    BY <1>1 DEF Grows
  <2>2. Begins(f[1], f[1])
    BY <1>2, <2>1
  <2>3. QED
    BY <2>1, <2>2
<1>4. ASSUME NEW q \in 1 .. N, q # 1, Good(q - 1)
      PROVE  Good(q)
  <2>1. q - 1 \in 1 .. N /\ q - 1 \in 1 .. q - 1 /\ q \in Nat
    BY <1>1, <1>4
  <2>2. f[q - 1] \in Seq(X) /\ seqs[q] \in Seq(X) /\ f[q] = f[q - 1] \o seqs[q]
    BY <1>4, <2>1 DEF Grows
  <2>3. PICK u, v : u = f[q - 1] /\ v = seqs[q] /\ u \in Seq(X) /\ v \in Seq(X) /\ f[q] = u \o v
    BY <2>2
  <2>4. f[q] \in Seq(X)
    BY <2>3, Joined
  <2>5. Begins(f[q], f[q])
    BY <1>2, <2>4
  <2>6. ASSUME NEW i \in 1 .. q - 1
        PROVE  f[i] \in Seq(X) /\ Begins(f[q], f[i])
    <3>1. f[i] \in Seq(X) /\ Begins(u, f[i])
      BY <1>4, <2>3
    <3>2. PICK w : w = f[i]
      OBVIOUS
    <3>3. Begins(u \o v, w)
      BY <2>3, <3>1, <3>2, BeginsJoined
    <3>4. QED
      BY <2>3, <3>1, <3>2, <3>3
  <2>7. \A i \in 1 .. q : i = q \/ i \in 1 .. q - 1
    BY <2>1
  <2>8. QED
    BY <2>4, <2>5, <2>6, <2>7
<1>5. PICK m \in T : \A j \in T : m <= j
  <2>1. T \in SUBSET Nat /\ N + 1 \in T
    BY <1>1
  <2> HIDE DEF T
  <2>2. QED
    BY <2>1, LeastNumber
<1>6. m = N + 1
  <2> SUFFICES ASSUME m # N + 1
               PROVE  FALSE
    OBVIOUS
  <2>1. m \in 1 .. N /\ ~Good(m)
    BY <1>1, <1>5
  <2>2. m # 1
    BY <1>3, <2>1
  <2>3. m - 1 \in 1 .. N /\ m - 1 \notin T
    BY <1>1, <1>5, <2>1, <2>2
  <2>4. m - 1 \in 1 .. N + 1 /\ m - 1 # N + 1
    BY <1>1, <2>3
  <2> HIDE DEF Good
  <2>6. Good(m - 1)
    BY <2>3, <2>4
  <2>5. QED
    BY <1>4, <2>1, <2>2, <2>6
<1>7. n \in 1 .. N + 1 /\ n # N + 1 /\ n \notin T
  BY <1>1, <1>5, <1>6
<1>8. Good(n)
  <2> HIDE DEF Good
  <2>1. QED
    BY <1>7
<1>9. QED
  BY <1>8

\* The characters of t are those of s from p on.
Spelled(s, p, t) == \A j \in 1 .. Len(t) : s[p + j - 1] = t[j]

(* What a sequence begins with has its last part where it has it.          *)
LEMMA SpelledBehind ==
    ASSUME NEW X, NEW u \in Seq(X), NEW v \in Seq(X), NEW s, Begins(s, u \o v)
    PROVE  Spelled(s, Len(u) + 1, v)
<1>1. SUFFICES ASSUME NEW j \in 1 .. Len(v)
               PROVE  s[Len(u) + 1 + j - 1] = v[j]
  BY DEF Spelled
<1>2. /\ Len(u \o v) = Len(u) + Len(v) /\ Len(u) \in Nat /\ Len(v) \in Nat
      /\ (u \o v)[Len(u) + j] = v[j]
  BY Joined
<1>3. Len(u) + j \in 1 .. Len(u \o v) /\ Len(u) + 1 + j - 1 = Len(u) + j
  BY <1>2
<1>4. s[Len(u) + j] = (u \o v)[Len(u) + j]
  BY <1>3 DEF Begins
<1>5. QED
  BY <1>2, <1>3, <1>4

\* The sequences follow one another in s, where places says.
Follow(s, seqs, places) ==
    /\ places \in [1 .. Len(seqs) + 1 -> 1 .. Len(s) + 1]
    /\ places[1] = 1 /\ places[Len(seqs) + 1] = Len(s) + 1
    /\ \A k \in 1 .. Len(seqs) :
          places[k + 1] = places[k] + Len(seqs[k]) /\ Spelled(s, places[k], seqs[k])

(* So the last of them has all parts at their places.                      *)
LEMMA GrowsFollow ==
    ASSUME NEW X, NEW seqs, NEW f, Grows(X, Len(seqs), seqs, f)
    PROVE  /\ f[Len(seqs)] \in Seq(X)
           /\ \E places : Follow(f[Len(seqs)], seqs, places)
<1>1. PICK N, s : N = Len(seqs) /\ s = f[Len(seqs)]
  OBVIOUS
<1>2. N \in Nat \ {0} /\ Grows(X, N, seqs, f) /\ N \in 1 .. N
  <2>1. Grows(X, N, seqs, f)
    BY <1>1
  <2>2. N \in Nat \ {0}
    BY <2>1 DEF Grows
  <2>3. QED
    BY <2>1, <2>2
<1>3. \A k \in 1 .. N : f[k] \in Seq(X) /\ Begins(s, f[k])
  BY <1>1, <1>2, GrowsOn
<1>4. s \in Seq(X) /\ Len(s) \in Nat
  BY <1>1, <1>2, <1>3
<1>5. \A k \in 1 .. N : Len(f[k]) \in Nat /\ Len(f[k]) <= Len(s)
  <2> TAKE k \in 1 .. N
  <2>1. PICK u : u = f[k] /\ u \in Seq(X)
    BY <1>3
  <2>2. Len(u) \in Nat
    BY <2>1
  <2>3. QED
    BY <1>3, <2>1, <2>2 DEF Begins
<1> DEFINE places == [k \in 1 .. N + 1 |-> IF k = 1 THEN 1 ELSE Len(f[k - 1]) + 1]
<1>6. \A k \in 1 .. N + 1 : places[k] = IF k = 1 THEN 1 ELSE Len(f[k - 1]) + 1
  OBVIOUS
<1>7. places \in [1 .. N + 1 -> 1 .. Len(s) + 1]
  <2> SUFFICES ASSUME NEW k \in 1 .. N + 1
               PROVE  (IF k = 1 THEN 1 ELSE Len(f[k - 1]) + 1) \in 1 .. Len(s) + 1
    OBVIOUS
  <2>1. k # 1 => k - 1 \in 1 .. N
    BY <1>2
  <2>2. k # 1 => Len(f[k - 1]) \in Nat /\ Len(f[k - 1]) <= Len(s)
    BY <1>5, <2>1
  <2>3. QED
    BY <1>4, <2>2
<1> HIDE DEF places
<1>8. places[1] = 1 /\ places[N + 1] = Len(s) + 1
  <2>1. 1 \in 1 .. N + 1 /\ N + 1 \in 1 .. N + 1 /\ N + 1 # 1 /\ N + 1 - 1 = N
    BY <1>2
  <2>2. QED
    BY <1>1, <1>6, <2>1
<1>9. ASSUME NEW k \in 1 .. N
      PROVE  places[k + 1] = places[k] + Len(seqs[k]) /\ Spelled(s, places[k], seqs[k])
  <2>1. k \in 1 .. N + 1 /\ k + 1 \in 1 .. N + 1 /\ k + 1 # 1 /\ k + 1 - 1 = k
    BY <1>2
  <2>2. places[k + 1] = Len(f[k]) + 1
    BY <1>6, <2>1
  <2>3. CASE k = 1
    <3>1. places[k] = 1 /\ f[k] = seqs[k]
      BY <1>8, <1>2, <2>3 DEF Grows
    <3>2. PICK u : u = f[k] /\ u \in Seq(X) /\ Begins(s, u)
      BY <1>3
    <3>3. Len(u) \in Nat
      BY <3>2
    <3>4. Spelled(s, 1, u)
      <4>1. \A j \in 1 .. Len(u) : 1 + j - 1 = j
        OBVIOUS
      <4>2. QED
        BY <3>2, <4>1 DEF Spelled, Begins
    <3>5. QED
      BY <2>2, <3>1, <3>2, <3>3, <3>4
  <2>4. CASE k # 1
    <3>0. k - 1 \in 1 .. N
      BY <1>2, <2>4
    <3>1. f[k] = f[k - 1] \o seqs[k] /\ seqs[k] \in Seq(X)
      BY <1>2, <2>4 DEF Grows
    <3>2. PICK u, v : u = f[k - 1] /\ v = seqs[k] /\ u \in Seq(X) /\ v \in Seq(X)
      BY <1>3, <3>0, <3>1
    <3>3. Begins(s, u \o v) /\ places[k] = Len(u) + 1
      BY <1>3, <1>6, <2>1, <2>4, <3>1, <3>2
    <3>4. Spelled(s, Len(u) + 1, v)
      BY <3>2, <3>3, SpelledBehind
    <3>5. Len(u \o v) = Len(u) + Len(v) /\ Len(u) \in Nat /\ Len(v) \in Nat
      BY <3>2, Joined
    <3>6. places[k + 1] = Len(u) + Len(v) + 1
      BY <2>2, <3>1, <3>2, <3>5
    <3>7. places[k + 1] = places[k] + Len(v)
      BY <3>3, <3>5, <3>6
    <3>8. Spelled(s, places[k], v)
      BY <3>3, <3>4
    <3>9. QED
      BY <3>2, <3>7, <3>8
  <2>5. QED
    BY <2>3, <2>4
<1>10. Follow(s, seqs, places)
  BY <1>1, <1>7, <1>8, <1>9 DEF Follow
<1>11. QED
  BY <1>1, <1>4, <1>10

(* A flattened sequence has the parts at their places.                     *)
LEMMA FlattenFollows ==
    ASSUME NEW X, NEW seqs \in Seq(Seq(X)), Len(seqs) # 0
    PROVE  FlattenSeq(seqs) \in Seq(X) /\ \E places : Follow(FlattenSeq(seqs), seqs, places)
<1>1. PICK N, f : N = Len(seqs) /\ f = Flat(seqs)
  OBVIOUS
<1>2. N \in Nat \ {0} /\ \A i \in 1 .. N : seqs[i] \in Seq(X)
  BY <1>1
<1>3. IsFlat(seqs, N, f) /\ FlattenSeq(seqs) = f[N]
  BY <1>1, FlatExists, FlattenIsFlat
<1>4. \A i \in 1 .. N : f[i] = IF i = 1 THEN seqs[i] ELSE f[i - 1] \o seqs[i]
  BY <1>3 DEF IsFlat
<1>5. Grows(X, N, seqs, f)
  <2>1. 1 \in 1 .. N
    BY <1>2
  <2>2. QED
    BY <1>2, <1>4, <2>1 DEF Grows
<1>6. QED
  BY <1>1, <1>3, <1>5, GrowsFollow

-----------------------------------------------------------------------------
(* One word                                                                *)

InQuotes(w) == <<"'">> \o Text(w) \o <<"'">>

IsWord(w) ==
    /\ w.name \in Name /\ w.signs \in Seq(Sign) /\ Len(w.signs) <= 2 /\ w.value \in Seq(Character)

\* Word w is within quotes at p, of which the second is at e.
Laid(s, p, w, e) ==
    /\ p \in Nat \ {0} /\ e \in Nat /\ e <= Len(s)
    /\ Len(w.signs) \in Nat /\ Len(w.value) \in Nat
    /\ e = p + Len(w.signs) + Len(w.value) + 2
    /\ s[p] = "'" /\ s[p + 1] = w.name /\ s[e] = "'"
    /\ \A j \in 1 .. Len(w.signs) : s[p + 1 + j] = w.signs[j]
    /\ \A j \in 1 .. Len(w.value) : s[p + 1 + Len(w.signs) + j] = w.value[j]

(* The characters of a word within quotes.                                 *)
LEMMA InQuotesIs ==
    ASSUME NEW name \in Name, NEW signs \in Seq(Sign), NEW value \in Seq(Character)
    PROVE  LET t == <<"'">> \o (<<name>> \o signs \o value) \o <<"'">>
               a == Len(signs)
               b == Len(value)
           IN  /\ a \in Nat /\ b \in Nat /\ t \in Seq(Char) /\ Len(t) = a + b + 3
               /\ t[1] = "'" /\ t[2] = name /\ t[a + b + 3] = "'"
               /\ \A j \in 1 .. a : t[j + 2] = signs[j]
               /\ \A j \in 1 .. b : t[a + j + 2] = value[j]
<1>1. PICK a, b, n, q : a = Len(signs) /\ b = Len(value) /\ n = <<name>> /\ q = <<"'">>
  OBVIOUS
<1>2. /\ n \in Seq(Char) /\ q \in Seq(Char) /\ Len(n) = 1 /\ Len(q) = 1
      /\ n[1] = name /\ q[1] = "'" /\ signs \in Seq(Char) /\ value \in Seq(Char)
      /\ a \in Nat /\ b \in Nat
  <2>1. name \in Char /\ "'" \in Char
    BY Kinds DEF Char
  <2>2. signs \in Seq(Char) /\ value \in Seq(Char) /\ Len(signs) \in Nat /\ Len(value) \in Nat
    BY DEF Char
  <2>3. QED
    BY <1>1, <2>1, <2>2
<1>3. PICK u : u = n \o signs
  OBVIOUS
<1>4. /\ u \in Seq(Char) /\ Len(u) = 1 + a /\ u[1] = name
      /\ \A j \in 1 .. a : u[1 + j] = signs[j]
  <2>1. /\ u \in Seq(Char) /\ Len(u) = Len(n) + Len(signs)
        /\ \A j \in 1 .. Len(n) : u[j] = n[j]
        /\ \A j \in 1 .. Len(signs) : u[Len(n) + j] = signs[j]
    <3>1. n \in Seq(Char) /\ signs \in Seq(Char)
      BY <1>2
    <3>2. /\ n \o signs \in Seq(Char) /\ Len(n \o signs) = Len(n) + Len(signs)
          /\ \A j \in 1 .. Len(n) : (n \o signs)[j] = n[j]
          /\ \A j \in 1 .. Len(signs) : (n \o signs)[Len(n) + j] = signs[j]
      BY <3>1, Joined
    <3>3. QED
      BY <1>3, <3>2
  <2>2. QED
    BY <1>1, <1>2, <2>1
<1>5. PICK v : v = u \o value
  OBVIOUS
<1>6. /\ v \in Seq(Char) /\ Len(v) = 1 + a + b /\ v[1] = name
      /\ \A j \in 1 .. a : v[1 + j] = signs[j]
      /\ \A j \in 1 .. b : v[1 + a + j] = value[j]
  <2>1. /\ v \in Seq(Char) /\ Len(v) = Len(u) + Len(value)
        /\ \A j \in 1 .. Len(u) : v[j] = u[j]
        /\ \A j \in 1 .. Len(value) : v[Len(u) + j] = value[j]
    <3>1. u \in Seq(Char) /\ value \in Seq(Char)
      BY <1>2, <1>4
    <3>2. /\ u \o value \in Seq(Char) /\ Len(u \o value) = Len(u) + Len(value)
          /\ \A j \in 1 .. Len(u) : (u \o value)[j] = u[j]
          /\ \A j \in 1 .. Len(value) : (u \o value)[Len(u) + j] = value[j]
      BY <3>1, Joined
    <3>3. QED
      BY <1>5, <3>2
  <2>2. 1 \in 1 .. Len(u) /\ \A j \in 1 .. a : 1 + j \in 1 .. Len(u)
    BY <1>2, <1>4
  <2>3. QED
    BY <1>1, <1>2, <1>4, <2>1, <2>2
<1>7. PICK x : x = q \o v
  OBVIOUS
<1>8. /\ x \in Seq(Char) /\ Len(x) = 2 + a + b /\ x[1] = "'"
      /\ \A j \in 1 .. 1 + a + b : x[1 + j] = v[j]
  <2>1. /\ x \in Seq(Char) /\ Len(x) = Len(q) + Len(v)
        /\ \A j \in 1 .. Len(q) : x[j] = q[j]
        /\ \A j \in 1 .. Len(v) : x[Len(q) + j] = v[j]
    <3>1. q \in Seq(Char) /\ v \in Seq(Char)
      BY <1>2, <1>6
    <3>2. /\ q \o v \in Seq(Char) /\ Len(q \o v) = Len(q) + Len(v)
          /\ \A j \in 1 .. Len(q) : (q \o v)[j] = q[j]
          /\ \A j \in 1 .. Len(v) : (q \o v)[Len(q) + j] = v[j]
      BY <3>1, Joined
    <3>3. QED
      BY <1>7, <3>2
  <2>2. QED
    BY <1>2, <1>6, <2>1
<1>9. PICK t : t = x \o q
  OBVIOUS
<1>10. /\ t \in Seq(Char) /\ Len(t) = a + b + 3 /\ t[a + b + 3] = "'"
       /\ \A j \in 1 .. 2 + a + b : t[j] = x[j]
  <2>1. /\ t \in Seq(Char) /\ Len(t) = Len(x) + Len(q)
        /\ \A j \in 1 .. Len(x) : t[j] = x[j]
        /\ \A j \in 1 .. Len(q) : t[Len(x) + j] = q[j]
    <3>1. x \in Seq(Char) /\ q \in Seq(Char)
      BY <1>2, <1>8
    <3>2. /\ x \o q \in Seq(Char) /\ Len(x \o q) = Len(x) + Len(q)
          /\ \A j \in 1 .. Len(x) : (x \o q)[j] = x[j]
          /\ \A j \in 1 .. Len(q) : (x \o q)[Len(x) + j] = q[j]
      BY <3>1, Joined
    <3>3. QED
      BY <1>9, <3>2
  <2>2. 1 \in 1 .. Len(q) /\ Len(x) + 1 = a + b + 3
    BY <1>2, <1>8
  <2>3. QED
    BY <1>2, <1>8, <2>1, <2>2
<1>11. t = <<"'">> \o (<<name>> \o signs \o value) \o <<"'">>
  BY <1>1, <1>3, <1>5, <1>7, <1>9
<1>12. /\ t[1] = "'" /\ t[2] = name
       /\ \A j \in 1 .. a : t[j + 2] = signs[j]
       /\ \A j \in 1 .. b : t[a + j + 2] = value[j]
  <2>1. 1 \in 1 .. 2 + a + b /\ 2 \in 1 .. 2 + a + b /\ 1 \in 1 .. 1 + a + b /\ 1 + 1 = 2
    BY <1>2
  <2>2. t[1] = "'" /\ t[2] = name
    BY <1>6, <1>8, <1>10, <2>1
  <2>3. ASSUME NEW j \in 1 .. 1 + a + b
        PROVE  t[1 + j] = v[j]
    <3>1. 1 + j \in 1 .. 2 + a + b
      BY <1>2
    <3>2. QED
      BY <1>8, <1>10, <3>1
  <2>4. ASSUME NEW j \in 1 .. a
        PROVE  t[j + 2] = signs[j]
    <3>1. 1 + j \in 1 .. 1 + a + b /\ 1 + (1 + j) = j + 2
      BY <1>2
    <3>2. QED
      BY <1>6, <2>3, <3>1
  <2>5. ASSUME NEW j \in 1 .. b
        PROVE  t[a + j + 2] = value[j]
    <3>1. 1 + a + j \in 1 .. 1 + a + b /\ 1 + (1 + a + j) = a + j + 2
      BY <1>2
    <3>2. QED
      BY <1>6, <2>3, <3>1
  <2>6. QED
    BY <2>2, <2>4, <2>5
<1>13. QED
  BY <1>1, <1>2, <1>10, <1>11, <1>12

(* A word that is spelled in the text is laid there.                       *)
LEMMA WordIsLaid ==
    ASSUME NEW s \in Seq(Char), NEW p \in Nat \ {0}, NEW w, IsWord(w),
           Spelled(s, p, InQuotes(w)), p + Len(InQuotes(w)) <= Len(s) + 1
    PROVE  Laid(s, p, w, p + Len(InQuotes(w)) - 1)
<1>1. PICK t, a, b : t = InQuotes(w) /\ a = Len(w.signs) /\ b = Len(w.value)
  OBVIOUS
<1>2. /\ a \in Nat /\ b \in Nat /\ Len(t) = a + b + 3
      /\ t[1] = "'" /\ t[2] = w.name /\ t[a + b + 3] = "'"
      /\ \A j \in 1 .. a : t[j + 2] = w.signs[j]
      /\ \A j \in 1 .. b : t[a + j + 2] = w.value[j]
  <2>1. w.name \in Name /\ w.signs \in Seq(Sign) /\ w.value \in Seq(Character)
    BY DEF IsWord
  <2>2. PICK name, signs, value : name = w.name /\ signs = w.signs /\ value = w.value
    OBVIOUS
  <2>3. t = <<"'">> \o (<<name>> \o signs \o value) \o <<"'">>
    BY <1>1, <2>2 DEF InQuotes, Text
  <2>4. /\ a \in Nat /\ b \in Nat /\ Len(t) = a + b + 3
        /\ t[1] = "'" /\ t[2] = name /\ t[a + b + 3] = "'"
        /\ \A j \in 1 .. a : t[j + 2] = signs[j]
        /\ \A j \in 1 .. b : t[a + j + 2] = value[j]
    <3>1. name \in Name /\ signs \in Seq(Sign) /\ value \in Seq(Character) /\ a = Len(signs) /\ b = Len(value)
      BY <1>1, <2>1, <2>2
    <3> HIDE <1>1
    <3>2. QED
      BY SMTT(30), <2>3, <3>1, InQuotesIs
  <2>5. QED
    BY <2>2, <2>4
<1>3. \A j \in 1 .. a + b + 3 : s[p + j - 1] = t[j]
  BY <1>1, <1>2 DEF Spelled
<1>4. s[p] = "'" /\ s[p + 1] = w.name /\ s[p + a + b + 2] = "'"
  <2>1. /\ 1 \in 1 .. a + b + 3 /\ 2 \in 1 .. a + b + 3 /\ a + b + 3 \in 1 .. a + b + 3
        /\ p + 1 - 1 = p /\ p + 2 - 1 = p + 1 /\ p + (a + b + 3) - 1 = p + a + b + 2
    BY <1>2
  <2>2. QED
    BY <1>2, <1>3, <2>1
<1>5. ASSUME NEW j \in 1 .. a
      PROVE  s[p + 1 + j] = w.signs[j]
  <2>1. j + 2 \in 1 .. a + b + 3 /\ p + (j + 2) - 1 = p + 1 + j
    BY <1>2
  <2>2. QED
    BY <1>2, <1>3, <2>1
<1>6. ASSUME NEW j \in 1 .. b
      PROVE  s[p + 1 + a + j] = w.value[j]
  <2>1. a + j + 2 \in 1 .. a + b + 3 /\ p + (a + j + 2) - 1 = p + 1 + a + j
    BY <1>2
  <2>2. QED
    BY <1>2, <1>3, <2>1
<1>7. /\ p + Len(t) - 1 \in Nat /\ p + Len(t) - 1 <= Len(s)
      /\ p + Len(t) - 1 = p + a + b + 2
  <2>1. Len(s) \in Nat /\ p + Len(t) <= Len(s) + 1
    BY <1>1
  <2>2. QED
    BY <1>2, <2>1
<1>8. QED
  BY <1>1, <1>2, <1>4, <1>5, <1>6, <1>7 DEF Laid

(* Skip is known by what is before it and at it, ...                       *)
LEMMA SkipIs ==
    ASSUME NEW X, NEW s \in Seq(X), NEW p \in Nat \ {0}, NEW C, NEW q \in p .. Len(s) + 1,
           \A j \in p .. q - 1 : s[j] \in C, q <= Len(s) => s[q] \notin C
    PROVE  Skip(s, p, C) = q
<1>1. PICK r : r = Skip(s, p, C)
  OBVIOUS
<1>2. p <= Len(s) + 1 /\ p \in Nat /\ q \in Nat /\ Len(s) \in Nat
  OBVIOUS
<1>3. /\ r \in p .. Len(s) + 1
      /\ \A j \in p .. r - 1 : s[j] \in C
      /\ r <= Len(s) => s[r] \notin C
  BY <1>1, <1>2, SkipEnds
<1>4. ~(r < q)
  BY <1>2, <1>3
<1>5. ~(q < r)
  BY <1>2, <1>3
<1>6. QED
  BY <1>1, <1>2, <1>3, <1>4, <1>5

(* ... stays where there is nothing to skip, ...                           *)
LEMMA SkipStays ==
    ASSUME NEW X, NEW s \in Seq(X), NEW p \in Nat \ {0}, NEW C, p <= Len(s), s[p] \notin C
    PROVE  Skip(s, p, C) = p
<1>1. p \in p .. Len(s) + 1
  OBVIOUS
<1>2. \A j \in p .. p - 1 : s[j] \in C
  OBVIOUS
<1>3. QED
  BY <1>1, <1>2, SkipIs

(* ... and index() is known in the same way.                               *)
LEMMA IndexIs ==
    ASSUME NEW X, NEW s \in Seq(X), NEW p \in Nat \ {0}, NEW c, NEW q \in p .. Len(s),
           s[q] = c, \A j \in p .. q - 1 : s[j] # c
    PROVE  Index(s, p, c) = q
<1>1. PICK r : r = Index(s, p, c)
  OBVIOUS
<1>2. \/ r = 0 /\ \A j \in p .. Len(s) : s[j] # c
      \/ r \in p .. Len(s) /\ s[r] = c /\ \A j \in p .. r - 1 : s[j] # c
  BY <1>1, IndexFinds
<1>3. r \in p .. Len(s) /\ s[r] = c /\ \A j \in p .. r - 1 : s[j] # c
  BY <1>2
<1>4. ~(r < q) /\ ~(q < r) /\ r \in Nat /\ q \in Nat
  BY <1>3
<1>5. QED
  BY <1>1, <1>4

(* Where the characters of the word are.                                   *)
LEMMA LaidCharacters ==
    ASSUME NEW s \in Seq(Char), NEW p, NEW w, NEW e, IsWord(w), ~Quoted(w), Laid(s, p, w, e)
    PROVE  /\ \A j \in p + 2 .. p + 1 + Len(w.signs) : s[j] \in Sign
           /\ \A j \in p + 2 + Len(w.signs) .. e - 1 : s[j] \in Character /\ s[j] \notin Quote
           /\ \A j \in p + 1 .. e - 1 : s[j] # "'"
<1>1. PICK a, b, signs, value : a = Len(w.signs) /\ b = Len(w.value) /\ signs = w.signs /\ value = w.value
  OBVIOUS
<1>2. /\ p \in Nat \ {0} /\ a \in Nat /\ b \in Nat /\ e = p + a + b + 2
      /\ s[p + 1] \in Name
      /\ \A j \in 1 .. a : s[p + 1 + j] = signs[j]
      /\ \A j \in 1 .. b : s[p + 1 + a + j] = value[j]
  BY <1>1 DEF Laid, IsWord
<1>3. /\ signs \in Seq(Sign) /\ value \in Seq(Character) /\ a = Len(signs) /\ b = Len(value)
      /\ \A k \in DOMAIN value : value[k] \notin Quote
  BY <1>1 DEF IsWord, Quoted
<1>4. \A j \in 1 .. a : signs[j] \in Sign
  BY <1>3
<1>5. \A j \in 1 .. b : value[j] \in Character /\ value[j] \notin Quote
  BY <1>3
<1>6. ASSUME NEW j \in p + 2 .. p + 1 + a
      PROVE  s[j] \in Sign
  <2>1. j - (p + 1) \in 1 .. a /\ p + 1 + (j - (p + 1)) = j
    BY <1>2
  <2>2. QED
    BY <1>2, <1>4, <2>1
<1>7. ASSUME NEW j \in p + 2 + a .. e - 1
      PROVE  s[j] \in Character /\ s[j] \notin Quote
  <2>1. j - (p + 1 + a) \in 1 .. b /\ p + 1 + a + (j - (p + 1 + a)) = j
    BY <1>2
  <2>2. QED
    BY <1>2, <1>5, <2>1
<1>8. ASSUME NEW j \in p + 1 .. e - 1
      PROVE  s[j] # "'"
  <2>1. j = p + 1 \/ j \in p + 2 .. p + 1 + a \/ j \in p + 2 + a .. e - 1
    BY <1>2
  <2>2. QED
    BY <1>2, <1>6, <1>7, <2>1, Kinds
<1>9. QED
  BY <1>1, <1>6, <1>7, <1>8

(* What getcmd finds of a word without a quote: all of it, and its signs.  *)
LEMMA WordParts ==
    ASSUME NEW s \in Seq(Char), NEW p, NEW w, NEW e, IsWord(w), ~Quoted(w), Laid(s, p, w, e),
           NEW start, NEW f, NEW end, NEW after, NEW m, NEW signs, NEW v,
           Parts(s, p, start, f, end, after, m, signs, v)
    PROVE  /\ At(s, start) \in Quote /\ f = p + 1 /\ end = e /\ At(s, f) = w.name /\ s[f] = w.name
           /\ after \in Nat /\ Len(signs) \in Nat /\ after + Len(signs) <= e
           /\ signs = w.signs /\ (signs = <<>> \/ after = p + 2)
           /\ v = Value(s, SkipWSpace(s, after + Len(signs)), e)
<1>1. PICK a, b : a = Len(w.signs) /\ b = Len(w.value)
  OBVIOUS
<1>2. /\ p \in Nat \ {0} /\ a \in Nat /\ b \in Nat /\ e = p + a + b + 2 /\ e \in Nat
      /\ e <= Len(s) /\ Len(s) \in Nat /\ p \in DOMAIN s /\ p + 1 \in DOMAIN s /\ a <= 2
      /\ s[p] = "'" /\ s[p + 1] = w.name /\ s[e] = "'" /\ w.name \in Name
  <2>1. /\ p \in Nat \ {0} /\ a \in Nat /\ b \in Nat /\ e = p + a + b + 2 /\ e \in Nat
        /\ e <= Len(s) /\ a <= 2 /\ w.name \in Name
        /\ s[p] = "'" /\ s[p + 1] = w.name /\ s[e] = "'"
    BY <1>1 DEF Laid, IsWord
  <2>2. Len(s) \in Nat /\ DOMAIN s = 1 .. Len(s)
    OBVIOUS
  <2>3. p \in 1 .. Len(s) /\ p + 1 \in 1 .. Len(s)
    BY <2>1, <2>2
  <2>4. QED
    BY <2>1, <2>2, <2>3
<1>3. /\ \A j \in p + 2 .. p + 1 + a : s[j] \in Sign
      /\ \A j \in p + 2 + a .. e - 1 : s[j] \in Character /\ s[j] \notin Quote
      /\ \A j \in p + 1 .. e - 1 : s[j] # "'"
  BY <1>1, LaidCharacters
<1>4. start = p
  <2>1. s[p] \notin {"blank"} /\ p <= Len(s)
    BY <1>2
  <2>2. Skip(s, p, {"blank"}) = p
    BY <1>2, <2>1, SkipStays
  <2>3. QED
    BY <2>2 DEF Parts, SkipWSpace
<1>5. At(s, start) = "'" /\ At(s, start) \in Quote /\ f = p + 1
  <2>1. At(s, start) = "'"
    BY <1>2, <1>4 DEF At
  <2>2. At(s, start) \in Quote
    BY <2>1, Kinds
  <2>3. QED
    BY <1>4, <2>1, <2>2 DEF Parts
<1>6. end = e
  <2>1. p + 1 \in Nat \ {0} /\ e \in p + 1 .. Len(s)
    BY <1>2
  <2>2. Index(s, p + 1, "'") = e
    BY <1>2, <1>3, <2>1, IndexIs
  <2>3. end = Index(s, f, s[start])
    BY <1>5 DEF Parts
  <2>4. QED
    BY <1>2, <1>4, <1>5, <2>2, <2>3
<1>7. At(s, f) = w.name /\ s[f] = w.name
  BY <1>2, <1>5 DEF At
<1>8. after = Skip(s, p + 2, {"blank"})
  <2>1. f + 1 = p + 2
    BY <1>2, <1>5
  <2>2. QED
    BY <2>1 DEF Parts, SkipWSpace
<1>9. after \in p + 2 .. e
  <2>1. p + 2 \in Nat \ {0} /\ p + 2 <= Len(s) + 1
    BY <1>2
  <2>2. after \in p + 2 .. Len(s) + 1 /\ \A j \in p + 2 .. after - 1 : s[j] \in {"blank"}
    BY <1>8, <2>1, SkipEnds
  <2>3. after \in Int /\ p + 2 <= after /\ p + 2 \in Int /\ p + 2 <= e
    <3>1. after \in p + 2 .. Len(s) + 1
      BY <2>2
    <3>2. p \in Int /\ a \in Nat /\ b \in Nat /\ e = p + a + b + 2 /\ Len(s) \in Nat
      BY <1>2
    <3>3. QED
      BY <3>1, <3>2
  <2>4. ASSUME e < after
        PROVE  FALSE
    <3>1. e \in p + 2 .. after - 1
      BY <1>2, <2>3, <2>4
    <3>2. s[e] \in {"blank"}
      BY <2>2, <3>1
    <3>3. QED
      BY <1>2, <3>2
  <2>5. QED
    BY <1>2, <2>3, <2>4
<1>10. \A j \in p + 2 + a .. e : s[j] \notin Sign
  <2> TAKE j \in p + 2 + a .. e
  <2>1. j = e \/ j \in p + 2 + a .. e - 1
    BY <1>2
  <2>2. QED
    BY <1>2, <1>3, <2>1, Kinds
<1>11. CASE a = 0
  <2>1. after \in Nat \ {0} /\ after <= e /\ after \in p + 2 + a .. e /\ after - 1 \in Nat
    BY <1>2, <1>9, <1>11
  <2>2. s[after] \notin Sign
    BY <1>10, <2>1
  <2>3. after <= Len(s)
    BY <1>2, <2>1
  <2>4. Skip(s, after, Sign) = after
    BY <2>1, <2>2, <2>3, SkipStays
  <2>5. m = after - 1
    <3>1. m = Min({after - 1, after + 1})
      BY <2>4 DEF Parts
    <3>2. after - 1 \in Nat /\ after + 1 \in Nat /\ after - 1 <= after + 1
      BY <2>1
    <3>3. QED
      BY <3>1, <3>2, OfTwo
  <2>6. signs = <<>>
    <3>1. signs = SubSeq(s, after, after - 1)
      BY <2>5 DEF Parts
    <3>2. SubSeq(s, after, after - 1) = <<>>
      BY <2>1
    <3>3. QED
      BY <3>1, <3>2
  <2>7. Len(signs) = 0 /\ after + Len(signs) <= e
    BY <2>1, <2>6
  <2>8. v = Value(s, SkipWSpace(s, after + Len(signs)), e)
    BY <1>6 DEF Parts
  <2>9. w.signs = <<>>
    <3>1. PICK u : u = w.signs
      OBVIOUS
    <3>2. u \in Seq(Sign) /\ Len(u) = 0
      BY <1>1, <1>11, <3>1 DEF IsWord
    <3>3. u = <<>>
      BY <3>2
    <3>4. QED
      BY <3>1, <3>3
  <2>10. QED
    BY <1>5, <1>6, <1>7, <2>1, <2>6, <2>7, <2>8, <2>9
<1>12. CASE a # 0
  <2>1. after = p + 2
    <3>1. p + 2 \in p + 2 .. p + 1 + a /\ p + 2 \in Nat \ {0} /\ p + 2 <= Len(s)
      BY <1>2, <1>12
    <3>2. s[p + 2] \in Sign
      BY <1>3, <3>1
    <3>3. s[p + 2] \notin {"blank"}
      BY <3>2, Kinds
    <3>4. Skip(s, p + 2, {"blank"}) = p + 2
      BY <3>1, <3>3, SkipStays
    <3>5. QED
      BY <1>8, <3>4
  <2>2. Skip(s, after, Sign) = p + 2 + a
    <3>1. /\ after \in Nat \ {0} /\ p + 2 + a \in after .. Len(s) + 1
          /\ p + 2 + a \in p + 2 + a .. e
          /\ \A j \in after .. p + 2 + a - 1 : j \in p + 2 .. p + 1 + a
      BY <1>2, <2>1
    <3>2. (\A j \in after .. p + 2 + a - 1 : s[j] \in Sign) /\ s[p + 2 + a] \notin Sign
      BY <1>3, <1>10, <3>1
    <3>3. PICK q : q = p + 2 + a
      OBVIOUS
    <3>4. /\ after \in Nat \ {0} /\ q \in after .. Len(s) + 1
          /\ (\A j \in after .. q - 1 : s[j] \in Sign) /\ s[q] \notin Sign
      <4>1. after \in Nat \ {0} /\ q \in after .. Len(s) + 1
        BY <3>1, <3>3
      <4>2. \A j \in after .. q - 1 : s[j] \in Sign
        <5>1. q - 1 = p + 2 + a - 1
          BY <1>2, <3>3
        <5>2. \A j \in after .. p + 2 + a - 1 : s[j] \in Sign
          BY <3>2
        <5>3. QED
          BY <5>1, <5>2
      <4>3. s[q] \notin Sign
        BY <3>2, <3>3
      <4>4. QED
        BY <4>1, <4>2, <4>3
    <3>5. Skip(s, after, Sign) = q
      BY <3>4, SkipIs
    <3>6. QED
      BY <3>3, <3>5
  <2>3. m = p + 1 + a
    <3>1. PICK q, d : q = Skip(s, after, Sign) /\ d = after
      OBVIOUS
    <3>2. m = Min({q - 1, d + 1})
      BY <3>1 DEF Parts
    <3>3. q - 1 \in Nat /\ d + 1 \in Nat /\ q - 1 <= d + 1 /\ q - 1 = p + 1 + a
      BY <1>2, <2>1, <2>2, <3>1
    <3>4. QED
      BY <3>2, <3>3, OfTwo
  <2>4. signs = SubSeq(s, p + 2, p + 1 + a)
    BY <2>1, <2>3 DEF Parts
  <2>5. PICK u : u = w.signs
    OBVIOUS
  <2>6. u \in Seq(Sign) /\ Len(u) = a /\ \A j \in 1 .. a : s[p + 1 + j] = u[j]
    BY <1>1, <2>5 DEF IsWord, Laid
  <2>7. /\ signs \in Seq(Char) /\ Len(signs) = a
        /\ \A j \in 1 .. a : signs[j] = s[p + 1 + j]
    <3>1. p + 2 \in 1 .. Len(s) + 1 /\ p + 1 + a \in p + 1 .. Len(s) /\ (p + 1 + a) - (p + 2) + 1 = a
      BY <1>2
    <3>2. Len(signs) = a
      BY <1>2, <2>4, <3>1
    <3>3. signs \in Seq(Char)
      BY <1>2, <2>4, <3>1
    <3>4. ASSUME NEW j \in 1 .. a
          PROVE  signs[j] = s[p + 1 + j]
      <4>1. p + 2 + j - 1 = p + 1 + j
        BY <1>2
      <4>2. signs[j] = s[p + 2 + j - 1]
        BY <1>2, <2>4, <3>1
      <4>3. QED
        BY <4>1, <4>2
    <3>5. QED
      BY <3>2, <3>3, <3>4
  <2>8. signs = u
    BY <2>6, <2>7
  <2>9. Len(signs) = a /\ after + Len(signs) <= e
    BY <1>2, <2>1, <2>7
  <2>10. v = Value(s, SkipWSpace(s, after + Len(signs)), e)
    BY <1>6 DEF Parts
  <2>11. QED
    BY SMTT(30), <1>2, <1>5, <1>6, <1>7, <2>1, <2>5, <2>8, <2>9, <2>10
<1>13. QED
  BY <1>11, <1>12

(* The last character that is not blank.                                   *)
LEMMA RTrimEnds ==
    ASSUME NEW X, NEW v \in Seq(X)
    PROVE  \E k \in 0 .. Len(v) :
              /\ RTrim(v) = SubSeq(v, 1, k)
              /\ k # 0 => v[k] # "blank"
              /\ \A j \in k + 1 .. Len(v) : v[j] = "blank"
<1> DEFINE T == {0} \cup {k \in DOMAIN v : v[k] # "blank"}
<1>1. DOMAIN v = 1 .. Len(v) /\ Len(v) \in Nat
  OBVIOUS
<1>2. T \in SUBSET Nat /\ T # {} /\ \A n \in T : n <= Len(v)
  BY <1>1
<1>3. Max(T) \in T /\ \A n \in T : n <= Max(T)
  BY <1>1, <1>2, GreatestNumber
<1>4. PICK k : k = Max(T)
  OBVIOUS
<1>5. k \in 0 .. Len(v) /\ (k # 0 => v[k] # "blank")
  BY <1>1, <1>3, <1>4
<1>6. ASSUME NEW j \in k + 1 .. Len(v), v[j] # "blank"
      PROVE  FALSE
  <2>1. j \in 1 .. Len(v) /\ k < j
    BY <1>1, <1>5
  <2>2. j \in T
    BY <1>1, <1>6, <2>1
  <2>3. j <= k
    BY <1>3, <1>4, <2>2
  <2>4. QED
    BY <1>1, <1>5, <2>1, <2>3
<1>7. RTrim(v) = SubSeq(v, 1, k)
  BY <1>4 DEF RTrim
<1>8. QED
  BY <1>5, <1>6, <1>7

(* rtrim is known by the last character that is not blank.                 *)
LEMMA RTrimIs ==
    ASSUME NEW X, NEW v \in Seq(X), NEW k \in 0 .. Len(v),
           k # 0 => v[k] # "blank", \A j \in k + 1 .. Len(v) : v[j] = "blank"
    PROVE  RTrim(v) = SubSeq(v, 1, k)
<1>1. PICK i \in 0 .. Len(v) :
              /\ RTrim(v) = SubSeq(v, 1, i)
              /\ i # 0 => v[i] # "blank"
              /\ \A j \in i + 1 .. Len(v) : v[j] = "blank"
  BY RTrimEnds
<1>2. i \in Nat /\ k \in Nat /\ Len(v) \in Nat /\ i <= Len(v) /\ k <= Len(v)
  OBVIOUS
<1>3. ~(i < k)
  <2> SUFFICES ASSUME i < k
               PROVE  FALSE
    OBVIOUS
  <2>1. k \in i + 1 .. Len(v) /\ k # 0
    BY <1>2
  <2>2. QED
    BY <1>1, <2>1
<1>4. ~(k < i)
  <2> SUFFICES ASSUME k < i
               PROVE  FALSE
    OBVIOUS
  <2>1. i \in k + 1 .. Len(v) /\ i # 0
    BY <1>2
  <2>2. QED
    BY <1>1, <2>1
<1>5. i = k
  BY <1>2, <1>3, <1>4
<1>6. QED
  BY <1>1, <1>5

\* A part of a sequence.
LEMMA PartOf ==
    ASSUME NEW X, NEW v \in Seq(X), NEW i \in Nat \ {0}, NEW k \in Nat, i <= k + 1, k <= Len(v)
    PROVE  /\ SubSeq(v, i, k) \in Seq(X) /\ Len(SubSeq(v, i, k)) = k - i + 1
           /\ \A j \in 1 .. k - i + 1 : SubSeq(v, i, k)[j] = v[i + j - 1]
  OBVIOUS

(* getcmd leaves the blanks before a value out, and newcmd those behind it.*)
LEMMA TrimmedValue ==
    ASSUME NEW X, NEW v \in Seq(X), SkipWSpace(v, 1) <= Len(v)
    PROVE  RTrim(SubSeq(v, SkipWSpace(v, 1), Len(v))) = Trim(v) /\ Trim(v) # <<>>
<1>1. PICK n, b : n = SkipWSpace(v, 1) /\ b = Len(v)
  OBVIOUS
<1>2. n \in 1 .. b /\ b \in Nat /\ v[n] # "blank" /\ \A j \in 1 .. n - 1 : v[j] = "blank"
  <2>1. 1 \in Nat \ {0} /\ 1 <= Len(v) + 1 /\ b \in Nat
    BY <1>1
  <2>2. n = Skip(v, 1, {"blank"})
    BY <1>1 DEF SkipWSpace
  <2>3. /\ n \in 1 .. Len(v) + 1
        /\ \A j \in 1 .. n - 1 : v[j] \in {"blank"}
        /\ n <= Len(v) => v[n] \notin {"blank"}
    BY <2>1, <2>2, SkipEnds
  <2>4. QED
    BY <1>1, <2>1, <2>3
<1>3. PICK k \in 0 .. b :
         /\ RTrim(v) = SubSeq(v, 1, k)
         /\ k # 0 => v[k] # "blank"
         /\ \A j \in k + 1 .. b : v[j] = "blank"
  BY <1>1, RTrimEnds
<1>4. n <= k /\ k \in Nat /\ n \in Nat /\ k <= b
  <2>1. n \in Nat /\ k \in Nat /\ b \in Nat /\ n <= b /\ k <= b
    BY <1>2
  <2>2. ASSUME k < n
        PROVE  FALSE
    <3>1. n \in k + 1 .. b
      BY <2>1, <2>2
    <3>2. QED
      BY <1>2, <1>3, <3>1
  <2>3. QED
    BY <2>1, <2>2
<1>5. PICK r : r = SubSeq(v, 1, k)
  OBVIOUS
<1>6. r \in Seq(X) /\ Len(r) = k /\ \A j \in 1 .. k : r[j] = v[j]
  <2>1. 1 \in Nat \ {0} /\ 1 <= k + 1 /\ k <= Len(v) /\ k - 1 + 1 = k
    BY <1>1, <1>4
  <2>2. /\ r \in Seq(X) /\ Len(r) = k - 1 + 1
        /\ \A j \in 1 .. k - 1 + 1 : r[j] = v[1 + j - 1]
    BY <1>4, <1>5, <2>1, PartOf
  <2>3. \A j \in 1 .. k : 1 + j - 1 = j
    OBVIOUS
  <2>4. QED
    BY <2>1, <2>2, <2>3
<1>7. SkipWSpace(r, 1) = n
  <2>1. n \in 1 .. Len(r) + 1 /\ n \in 1 .. k /\ 1 \in Nat \ {0} /\ \A j \in 1 .. n - 1 : j \in 1 .. k
    BY <1>2, <1>4, <1>6
  <2>2. (\A j \in 1 .. n - 1 : r[j] \in {"blank"}) /\ r[n] \notin {"blank"}
    BY <1>2, <1>6, <2>1
  <2>3. Skip(r, 1, {"blank"}) = n
    BY <1>6, <2>1, <2>2, SkipIs
  <2>4. QED
    BY <2>3 DEF SkipWSpace
<1>8. Trim(v) = SubSeq(r, n, k)
  BY <1>3, <1>5, <1>6, <1>7 DEF Trim
<1>9. PICK t, c : t = SubSeq(r, n, k) /\ c = k - n + 1
  OBVIOUS
<1>10. c \in Nat \ {0} /\ t \in Seq(X) /\ Len(t) = c /\ \A j \in 1 .. c : t[j] = v[n + j - 1]
  <2>1. n \in Nat \ {0} /\ n <= k + 1 /\ k <= Len(r) /\ c \in Nat \ {0}
    BY <1>2, <1>4, <1>6, <1>9
  <2>2. t \in Seq(X) /\ Len(t) = c /\ \A j \in 1 .. c : t[j] = r[n + j - 1]
    BY <1>4, <1>6, <1>9, <2>1, PartOf
  <2>3. \A j \in 1 .. c : n + j - 1 \in 1 .. k
    BY <1>4, <1>9, <2>1
  <2>4. QED
    BY <1>6, <2>1, <2>2, <2>3
<1>11. PICK u : u = SubSeq(v, n, b)
  OBVIOUS
<1>12. u \in Seq(X) /\ Len(u) = b - n + 1 /\ \A j \in 1 .. b - n + 1 : u[j] = v[n + j - 1]
  <2>1. n \in Nat \ {0} /\ n <= b + 1 /\ b <= Len(v)
    BY <1>1, <1>2, <1>4
  <2>2. QED
    BY <1>2, <1>11, <2>1, PartOf
<1>13. RTrim(u) = SubSeq(u, 1, c)
  <2>1. c \in 0 .. Len(u) /\ c \in 1 .. b - n + 1 /\ n + c - 1 = k /\ k # 0
    BY <1>2, <1>4, <1>9, <1>10, <1>12
  <2>2. u[c] # "blank"
    BY <1>3, <1>12, <2>1
  <2>3. ASSUME NEW j \in c + 1 .. Len(u)
        PROVE  u[j] = "blank"
    <3>1. j \in 1 .. b - n + 1 /\ n + j - 1 \in k + 1 .. b
      BY <1>2, <1>4, <1>9, <1>10, <1>12
    <3>2. QED
      BY <1>3, <1>12, <3>1
  <2>4. QED
    BY <1>12, <2>1, <2>2, <2>3, RTrimIs
<1>14. SubSeq(u, 1, c) = t
  <2>1. 1 \in Nat \ {0} /\ 1 <= c + 1 /\ c <= Len(u) /\ c \in Nat /\ c - 1 + 1 = c
    BY <1>2, <1>4, <1>9, <1>10, <1>12
  <2>2. PICK x : x = SubSeq(u, 1, c)
    OBVIOUS
  <2>3. x \in Seq(X) /\ Len(x) = c - 1 + 1 /\ \A j \in 1 .. c - 1 + 1 : x[j] = u[1 + j - 1]
    BY <1>12, <2>1, <2>2, PartOf
  <2>4. \A j \in 1 .. c : 1 + j - 1 = j /\ j \in 1 .. b - n + 1
    BY <1>2, <1>4, <1>9
  <2>5. x \in Seq(X) /\ Len(x) = c /\ \A j \in 1 .. c : x[j] = t[j]
    BY <1>10, <1>12, <2>1, <2>3, <2>4
  <2>6. x = t
    BY <1>10, <2>5
  <2>7. QED
    BY <2>2, <2>6
<1>15. t # <<>>
  BY <1>10
<1>16. QED
  BY <1>1, <1>8, <1>9, <1>11, <1>13, <1>14, <1>15

\* What is made of the value v for a qualifier of that name.
Meant(name, v) == IF name = "/usage" THEN Number(v) ELSE v

\* c is what w says, or an error: it has the value of the word if there is a
\* comparison to have one.
Reads(w, c) ==
    /\ c.name \in {w.name, "ERR"} /\ c.cmp = GetCmp(w.signs)
    /\ c.set => c.val = Meant(w.name, Trim(w.value))
    /\ c.name # "ERR" /\ c.cmp # "ERR" => c.set = (c.cmp # "NONE")

(* newcmd has the name and the value without the blanks behind it.         *)
LEMMA NewCmdReads ==
    ASSUME NEW name \in Name, NEW cmp, NEW v
    PROVE  LET c == NewCmd(name, cmp, v)
           IN  /\ c.name \in {name, "ERR"} /\ c.cmp = cmp
               /\ c.set => RTrim(v) # <<>> /\ c.val = Meant(name, RTrim(v))
               /\ c.name # "ERR" => c.set = (RTrim(v) # <<>>)
<1>1. (CmdQuals[name].type = "number") <=> (name = "/usage")
  BY DEF Name, CmdQuals
<1>2. PICK text, c : text = RTrim(v) /\ c = NewCmd(name, cmp, v)
  OBVIOUS
<1>3. CASE c = [name |-> "ERR", cmp |-> cmp, set |-> FALSE, val |-> <<>>]
  <2>1. c.name = "ERR" /\ c.set = FALSE /\ c.cmp = cmp
    BY <1>3
  <2>2. QED
    BY <1>2, <2>1
<1>4. CASE c = [name |-> name, cmp |-> cmp, set |-> text # <<>>,
                val |-> IF ~(text # <<>>) THEN <<>>
                        ELSE IF CmdQuals[name].type = "number" THEN Number(text) ELSE text]
  <2>1. CASE text = <<>>
    <3>1. c = [name |-> name, cmp |-> cmp, set |-> FALSE, val |-> <<>>]
      BY <1>4, <2>1
    <3>2. c.name = name /\ c.set = FALSE /\ c.cmp = cmp
      BY <3>1
    <3>3. QED
      BY <1>2, <2>1, <3>2
  <2>2. CASE text # <<>>
    <3>1. c = [name |-> name, cmp |-> cmp, set |-> TRUE, val |-> Meant(name, text)]
      BY <1>1, <1>4, <2>2 DEF Meant
    <3>2. c.name = name /\ c.val = Meant(name, text) /\ c.set = TRUE /\ c.cmp = cmp
      BY <3>1
    <3>3. QED
      BY <1>2, <2>2, <3>2
  <2>3. QED
    BY <2>1, <2>2
<1>5. QED
  BY <1>2, <1>3, <1>4 DEF NewCmd

(* There are no blanks to cut off an empty text.                           *)
LEMMA NothingTrimmed == RTrim(<<>>) = <<>>
<1>1. PICK X, v : X = {} /\ v = <<>>
  OBVIOUS
<1>2. v \in Seq(X) /\ Len(v) = 0
  BY <1>1
<1>3. PICK k \in 0 .. Len(v) : RTrim(v) = SubSeq(v, 1, k)
  BY <1>2, RTrimEnds
<1>4. k = 0
  BY <1>2
<1>5. SubSeq(v, 1, 0) = <<>>
  BY <1>2
<1>6. QED
  BY <1>1, <1>3, <1>4, <1>5

(* Where the value of a laid word begins, and what it is.                  *)
LEMMA LaidValue ==
    ASSUME NEW s \in Seq(Char), NEW p, NEW w, NEW e, IsWord(w), Laid(s, p, w, e)
    PROVE  LET n == SkipWSpace(w.value, 1)
               x == SkipWSpace(s, p + 2 + Len(w.signs))
           IN  /\ n \in 1 .. Len(w.value) + 1
               /\ x = p + 1 + Len(w.signs) + n
               /\ n <= Len(w.value) => SubSeq(s, x, e - 1) = SubSeq(w.value, n, Len(w.value))
<1>1. PICK a, b, v : a = Len(w.signs) /\ b = Len(w.value) /\ v = w.value
  OBVIOUS
<1>2. /\ p \in Nat \ {0} /\ a \in Nat /\ b \in Nat /\ e = p + a + b + 2 /\ e <= Len(s)
      /\ s[e] = "'" /\ Len(s) \in Nat /\ v \in Seq(Character) /\ b = Len(v)
      /\ \A j \in 1 .. b : s[p + 1 + a + j] = v[j]
  BY <1>1 DEF Laid, IsWord
<1>3. PICK n : n = Skip(v, 1, {"blank"})
  OBVIOUS
<1>4. /\ n \in 1 .. b + 1 /\ n \in Nat
      /\ \A j \in 1 .. n - 1 : v[j] \in {"blank"}
      /\ n <= b => v[n] \notin {"blank"}
  <2>1. 1 \in Nat \ {0} /\ 1 <= Len(v) + 1
    BY <1>2
  <2>2. /\ n \in 1 .. Len(v) + 1
        /\ \A j \in 1 .. n - 1 : v[j] \in {"blank"}
        /\ n <= Len(v) => v[n] \notin {"blank"}
    BY <1>2, <1>3, <2>1, SkipEnds
  <2>3. QED
    BY <1>2, <2>2
<1>5. PICK d, x : d = p + 2 + a /\ x = p + 1 + a + n
  OBVIOUS
<1>6. /\ d \in Nat \ {0} /\ x \in d .. Len(s) + 1 /\ x <= Len(s)
  BY <1>2, <1>4, <1>5
<1>7. \A j \in d .. x - 1 : s[j] \in {"blank"}
  <2> TAKE j \in d .. x - 1
  <2>1. j - (p + 1 + a) \in 1 .. n - 1 /\ j - (p + 1 + a) \in 1 .. b /\ p + 1 + a + (j - (p + 1 + a)) = j
    BY <1>2, <1>4, <1>5
  <2>2. QED
    BY <1>2, <1>4, <2>1
<1>8. s[x] \notin {"blank"}
  <2>1. CASE n <= b
    <3>1. n \in 1 .. b
      BY <1>2, <1>4, <2>1
    <3>2. QED
      BY <1>2, <1>4, <1>5, <2>1, <3>1
  <2>2. CASE n = b + 1
    <3>1. x = e
      BY <1>2, <1>5, <2>2
    <3>2. QED
      BY <1>2, <3>1
  <2>3. QED
    BY <1>2, <1>4, <2>1, <2>2
<1>9. Skip(s, d, {"blank"}) = x
  BY <1>6, <1>7, <1>8, SkipIs
<1>10. ASSUME n <= b
       PROVE  SubSeq(s, x, e - 1) = SubSeq(v, n, b)
  <2>1. PICK y, z, c : y = SubSeq(s, x, e - 1) /\ z = SubSeq(v, n, b) /\ c = b - n + 1
    OBVIOUS
  <2>2. /\ x \in Nat \ {0} /\ e - 1 \in Nat /\ x <= (e - 1) + 1 /\ e - 1 <= Len(s)
        /\ (e - 1) - x + 1 = c
        /\ n \in Nat \ {0} /\ n <= b + 1 /\ b <= Len(v) /\ c \in Nat
    BY <1>2, <1>4, <1>5, <1>6, <1>10, <2>1
  <2>3. y \in Seq(Char) /\ Len(y) = c /\ \A j \in 1 .. c : y[j] = s[x + j - 1]
    <3>1. /\ y \in Seq(Char) /\ Len(y) = (e - 1) - x + 1
          /\ \A j \in 1 .. (e - 1) - x + 1 : y[j] = s[x + j - 1]
      BY <2>1, <2>2, PartOf
    <3>2. QED
      BY <2>2, <3>1
  <2>4. z \in Seq(Character) /\ Len(z) = c /\ \A j \in 1 .. c : z[j] = v[n + j - 1]
    <3>1. /\ z \in Seq(Character) /\ Len(z) = b - n + 1
          /\ \A j \in 1 .. b - n + 1 : z[j] = v[n + j - 1]
      BY <1>2, <2>1, <2>2, PartOf
    <3>2. QED
      BY <2>1, <3>1
  <2>5. ASSUME NEW j \in 1 .. c
        PROVE  y[j] = z[j]
    <3>1. n + j - 1 \in 1 .. b /\ x + j - 1 = p + 1 + a + (n + j - 1)
      BY <1>2, <1>4, <1>5, <2>1, <2>2
    <3>2. QED
      BY <1>2, <2>3, <2>4, <3>1
  <2>6. y = z
    BY <2>2, <2>3, <2>4, <2>5
  <2>7. QED
    BY <2>1, <2>6
<1>11. n = SkipWSpace(w.value, 1) /\ x = SkipWSpace(s, p + 2 + Len(w.signs))
  BY <1>1, <1>3, <1>5, <1>9 DEF SkipWSpace
<1>12. QED
  BY <1>1, <1>4, <1>5, <1>10, <1>11

\* Behind e there is a quote or nothing.
QuoteOrEnd(s, e) == e + 1 <= Len(s) => s[e + 1] = "'"

(* A word without a quote is read as the command or qualifier it says, up  *)
(* to its end, or not at all.                                              *)
LEMMA WordRead ==
    ASSUME NEW s \in Seq(Char), NEW p, NEW w, NEW e, IsWord(w), ~Quoted(w), Laid(s, p, w, e),
           QuoteOrEnd(s, e)
    PROVE  LET g == GetCmd(s, p)
           IN  \/ g.next = e + 1 /\ Reads(w, g.cmd)
               \/ g.next = 0 /\ g.cmd.name \in {"ERR", "EXIT"}
<1>1. PICK start, f, end, after, m, signs, v :
           /\ Parts(s, p, start, f, end, after, m, signs, v)
           /\ GetCmd(s, p) = Reading(s, start, f, end, after, signs, v)
  BY GetCmdParts
<1>2. /\ At(s, start) \in Quote /\ f = p + 1 /\ end = e /\ At(s, f) = w.name /\ s[f] = w.name
      /\ after \in Nat /\ Len(signs) \in Nat /\ after + Len(signs) <= e
      /\ signs = w.signs /\ (signs = <<>> \/ after = p + 2)
      /\ v = Value(s, SkipWSpace(s, after + Len(signs)), e)
  BY <1>1, WordParts
<1>3. w.name \in Name /\ w.value \in Seq(Character)
  BY DEF IsWord
<1>0. PICK a, b : a = Len(w.signs) /\ b = Len(w.value)
  OBVIOUS
<1>4. /\ p \in Nat \ {0} /\ e \in Nat /\ e # 0 /\ e <= Len(s) /\ s[e] = "'" /\ Len(s) \in Nat
      /\ a \in Nat /\ b \in Nat /\ e = p + a + b + 2
  <2>1. /\ p \in Nat \ {0} /\ e \in Nat /\ e <= Len(s) /\ s[e] = "'"
        /\ a \in Nat /\ b \in Nat /\ e = p + a + b + 2
    BY <1>0 DEF Laid
  <2>2. Len(s) \in Nat /\ e # 0
    BY <2>1
  <2>3. QED
    BY <2>1, <2>2
<1>5. Error.name = "ERR" /\ Other("EXIT").name = "EXIT"
  BY DEF Error, Other
<1>6. PICK g : g = GetCmd(s, p)
  OBVIOUS
<1>7. \/ g = [cmd |-> Error, next |-> 0]
      \/ /\ GetCmp(signs) \in {"NONE", "ERR"}
         /\ g = [cmd |-> NewCmd(w.name, GetCmp(signs), <<>>), next |-> Max({after + Len(signs), e + 1})]
      \/ /\ GetCmp(signs) # "NONE"
         /\ \/ ~v.ok /\ g = [cmd |-> Error, next |-> 0]
            \/ v.ok /\ v.from > v.to /\ g = [cmd |-> Other("EXIT"), next |-> 0]
            \/ v.ok /\ ~(v.from > v.to)
               /\ g = [cmd |-> NewCmd(w.name, GetCmp(signs), SubSeq(s, v.from, v.to)), next |-> v.next]
  <2>1. ~(At(s, start) \in Quote /\ end = 0) /\ At(s, f) # "nul" /\ At(s, f) \in Name
    BY <1>2, <1>3, <1>4, Kinds
  <2>2. QED
    BY <1>1, <1>2, <1>6, <2>1 DEF Reading
<1>8. CASE g = [cmd |-> Error, next |-> 0]
  BY <1>5, <1>6, <1>8
<1>9. CASE /\ GetCmp(signs) \in {"NONE", "ERR"}
           /\ g = [cmd |-> NewCmd(w.name, GetCmp(signs), <<>>), next |-> Max({after + Len(signs), e + 1})]
  <2>1. Max({after + Len(signs), e + 1}) = e + 1
    <3>1. PICK d : d = Len(signs)
      OBVIOUS
    <3>2. after \in Nat /\ d \in Nat /\ after + d <= e
      BY <1>2, <3>1
    <3>3. after + d \in Nat /\ e + 1 \in Nat /\ ~(after + d >= e + 1)
      BY <1>4, <3>2
    <3>4. QED
      BY <3>1, <3>3, OfTwo
  <2>2. PICK c : c = NewCmd(w.name, GetCmp(signs), <<>>)
    OBVIOUS
  <2>3. /\ c.name \in {w.name, "ERR"} /\ c.cmp = GetCmp(w.signs) /\ ~c.set
        /\ c.name # "ERR" => c.set = FALSE
    BY <1>2, <1>3, <2>2, NewCmdReads, NothingTrimmed
  <2>4. Reads(w, c)
    BY <1>2, <1>9, <2>3 DEF Reads
  <2>5. g.next = e + 1 /\ g.cmd = c
    BY <1>9, <2>1, <2>2
  <2>6. QED
    BY <1>6, <2>4, <2>5
<1>10. CASE /\ GetCmp(signs) # "NONE"
            /\ \/ ~v.ok /\ g = [cmd |-> Error, next |-> 0]
               \/ v.ok /\ v.from > v.to /\ g = [cmd |-> Other("EXIT"), next |-> 0]
               \/ v.ok /\ ~(v.from > v.to)
                  /\ g = [cmd |-> NewCmd(w.name, GetCmp(signs), SubSeq(s, v.from, v.to)), next |-> v.next]
  <2>1. signs = w.signs /\ after = p + 2 /\ GetCmp(w.signs) # "NONE"
    BY <1>2, <1>10 DEF GetCmp
  <2>2. PICK n, x : n = SkipWSpace(w.value, 1) /\ x = SkipWSpace(s, p + 2 + a)
    OBVIOUS
  <2>3. /\ n \in 1 .. b + 1
        /\ x = p + 1 + a + n
        /\ n <= b => SubSeq(s, x, e - 1) = SubSeq(w.value, n, b)
    <3>1. /\ SkipWSpace(w.value, 1) \in 1 .. Len(w.value) + 1
          /\ SkipWSpace(s, p + 2 + Len(w.signs)) = p + 1 + Len(w.signs) + SkipWSpace(w.value, 1)
          /\ SkipWSpace(w.value, 1) <= Len(w.value) =>
                SubSeq(s, SkipWSpace(s, p + 2 + Len(w.signs)), e - 1)
                = SubSeq(w.value, SkipWSpace(w.value, 1), Len(w.value))
      BY LaidValue
    <3>2. QED
      BY <1>0, <2>2, <3>1
  <2>4. v = Value(s, x, e)
    BY <1>0, <1>2, <2>1, <2>2
  <2>5. CASE n <= b
    <3>1. x \in p + 2 + a .. e - 1 /\ x \in 1 .. Len(s)
      BY <1>3, <1>4, <2>3, <2>5
    <3>2. s[x] \notin Quote
      BY <1>0, <3>1, LaidCharacters
    <3>3. At(s, x) \notin Quote
      BY <3>1, <3>2 DEF At
    <3>4. v = [ok |-> TRUE, from |-> x, to |-> e - 1, next |-> e + 1]
      BY <1>4, <2>4, <3>3 DEF Value
    <3>5. v.ok = TRUE /\ v.from = x /\ v.to = e - 1 /\ v.next = e + 1 /\ ~(x > e - 1)
      BY <1>3, <1>4, <3>1, <3>4
    <3>6. PICK c : c = NewCmd(w.name, GetCmp(signs), SubSeq(s, x, e - 1))
      OBVIOUS
    <3>7. g = [cmd |-> c, next |-> e + 1]
      BY <1>10, <3>5, <3>6
    <3>8. RTrim(SubSeq(s, x, e - 1)) = Trim(w.value) /\ Trim(w.value) # <<>>
      BY <1>0, <1>3, <2>2, <2>3, <2>5, TrimmedValue
    <3>9. Reads(w, c)
      <4>1. /\ c.name \in {w.name, "ERR"} /\ c.cmp = GetCmp(w.signs)
            /\ c.set => c.val = Meant(w.name, Trim(w.value))
            /\ c.name # "ERR" => c.set = TRUE
        <5>1. PICK y : y = SubSeq(s, x, e - 1)
          OBVIOUS
        <5>2. c = NewCmd(w.name, GetCmp(signs), y)
          BY <3>6, <5>1
        <5>3. /\ c.name \in {w.name, "ERR"} /\ c.cmp = GetCmp(signs)
              /\ c.set => c.val = Meant(w.name, RTrim(y))
              /\ c.name # "ERR" => c.set = (RTrim(y) # <<>>)
          BY <1>3, <5>2, NewCmdReads
        <5>4. RTrim(y) = Trim(w.value) /\ RTrim(y) # <<>>
          BY <3>8, <5>1
        <5>5. QED
          BY <2>1, <5>3, <5>4
      <4>2. QED
        BY <2>1, <4>1 DEF Reads
    <3>10. g.next = e + 1 /\ g.cmd = c
      BY <3>7
    <3>11. QED
      BY <1>6, <3>9, <3>10
  <2>6. CASE n = b + 1
    <3>1. x = e
      BY <1>3, <1>4, <2>3, <2>6
    <3>2. At(s, x) = "'" /\ At(s, x) \in Quote /\ s[x] = "'"
      BY <1>4, <3>1, Kinds DEF At
    <3>3. PICK close : close = Index(s, e + 1, "'")
      OBVIOUS
    <3>4. v = [ok |-> close # 0, from |-> e + 1, to |-> close - 1, next |-> IF close > e + 1 THEN close + 1 ELSE e + 1]
      BY <2>4, <3>1, <3>2, <3>3 DEF Value
    <3>5. CASE e + 1 <= Len(s)
      <4>1. e + 1 \in Nat \ {0} /\ e + 1 \in e + 1 .. Len(s) /\ \A j \in e + 1 .. (e + 1) - 1 : s[j] # "'"
        BY <1>4, <3>5
      <4>2. close = e + 1
        BY <3>3, <3>5, <4>1, IndexIs DEF QuoteOrEnd
      <4>3. v = [ok |-> TRUE, from |-> e + 1, to |-> e, next |-> IF close > e + 1 THEN close + 1 ELSE e + 1]
        <5>1. close # 0 /\ close - 1 = e
          BY <1>4, <4>2
        <5>2. QED
          BY <3>4, <5>1
      <4>4. v.ok = TRUE /\ v.from > v.to
        BY <1>4, <4>3
      <4>5. g = [cmd |-> Other("EXIT"), next |-> 0]
        BY <1>10, <4>4
      <4>6. QED
        BY <1>5, <1>6, <4>5
    <3>6. CASE ~(e + 1 <= Len(s))
      <4>1. e + 1 \in Nat \ {0} /\ ~(close \in e + 1 .. Len(s))
        BY <1>4, <3>6
      <4>2. close = 0
        BY <3>3, <4>1, IndexFinds
      <4>3. v = [ok |-> FALSE, from |-> e + 1, to |-> close - 1, next |-> IF close > e + 1 THEN close + 1 ELSE e + 1]
        BY <3>4, <4>2
      <4>4. v.ok = FALSE
        BY <4>3
      <4>5. g = [cmd |-> Error, next |-> 0]
        BY <1>10, <4>4
      <4>6. QED
        BY <1>5, <1>6, <4>5
    <3>7. QED
      BY <3>5, <3>6
  <2>7. QED
    BY <1>4, <2>3, <2>5, <2>6
<1>11. QED
  BY <1>7, <1>8, <1>9, <1>10

-----------------------------------------------------------------------------
(* All words                                                               *)

\* The words are laid in the text one behind the other.
AllLaid(s, words, places) ==
    /\ s \in Seq(Char)
    /\ places \in [1 .. Len(words) + 1 -> 1 .. Len(s) + 1]
    /\ places[1] = 1 /\ places[Len(words) + 1] = Len(s) + 1
    /\ \A k \in 1 .. Len(words) : /\ Laid(s, places[k], words[k], places[k + 1] - 1)
                                  /\ QuoteOrEnd(s, places[k + 1] - 1)

(* So mkcmdline lays them.                                                 *)
LEMMA LineOfWords ==
    ASSUME NEW X, NEW words \in Seq(X), Len(words) # 0, \A k \in 1 .. Len(words) : IsWord(words[k])
    PROVE  \E places : AllLaid(MkCmdLine(words), words, places)
<1>1. PICK N, seqs, s :
          N = Len(words) /\ seqs = [k \in DOMAIN words |-> InQuotes(words[k])] /\ s = MkCmdLine(words)
  OBVIOUS
<1>2. N \in Nat \ {0} /\ DOMAIN words = 1 .. N
  BY <1>1
<1>3. ASSUME NEW k \in 1 .. N
      PROVE  /\ seqs[k] = InQuotes(words[k]) /\ seqs[k] \in Seq(Char)
             /\ Len(seqs[k]) \in Nat \ {0} /\ seqs[k][1] = "'"
  <2>1. PICK w, t : w = words[k] /\ t = InQuotes(w)
    OBVIOUS
  <2>2. seqs[k] = t
    BY <1>1, <1>2, <2>1
  <2>3. PICK name, signs, value, a, b : /\ name = w.name /\ signs = w.signs /\ value = w.value
                                        /\ a = Len(signs) /\ b = Len(value)
    OBVIOUS
  <2>4. name \in Name /\ signs \in Seq(Sign) /\ value \in Seq(Character)
    BY <1>1, <2>1, <2>3 DEF IsWord
  <2>5. t = <<"'">> \o (<<name>> \o signs \o value) \o <<"'">>
    BY <2>1, <2>3 DEF InQuotes, Text
  <2>10. a = Len(signs) /\ b = Len(value)
    BY <2>3
  <2>6. a \in Nat /\ b \in Nat /\ t \in Seq(Char) /\ Len(t) = a + b + 3 /\ t[1] = "'"
    BY SMTT(30), <2>4, <2>5, <2>10, InQuotesIs
  <2>7. Len(t) \in Nat \ {0}
    BY <2>6
  <2>8. QED
    BY <2>1, <2>2, <2>6, <2>7
<1>4. seqs \in Seq(Seq(Char)) /\ Len(seqs) = N
  <2>1. seqs \in [1 .. N -> Seq(Char)]
    BY <1>1, <1>2, <1>3
  <2>2. QED
    BY <1>2, <2>1
<1>5. s = FlattenSeq(seqs)
  BY <1>1 DEF MkCmdLine, InQuotes
<1>6. PICK places : s \in Seq(Char) /\ Follow(s, seqs, places)
  BY <1>2, <1>4, <1>5, FlattenFollows
<1>7. /\ places \in [1 .. N + 1 -> 1 .. Len(s) + 1]
      /\ places[1] = 1 /\ places[N + 1] = Len(s) + 1
      /\ \A k \in 1 .. N :
            places[k + 1] = places[k] + Len(seqs[k]) /\ Spelled(s, places[k], seqs[k])
  BY <1>4, <1>6 DEF Follow
<1>8. Len(s) \in Nat
  BY <1>6
<1>9. ASSUME NEW k \in 1 .. N
      PROVE  Laid(s, places[k], words[k], places[k + 1] - 1) /\ QuoteOrEnd(s, places[k + 1] - 1)
  <2>1. PICK p, q, w, t : p = places[k] /\ q = places[k + 1] /\ w = words[k] /\ t = seqs[k]
    OBVIOUS
  <2>2. k \in 1 .. N + 1 /\ k + 1 \in 1 .. N + 1
    BY <1>2
  <2>3. p \in 1 .. Len(s) + 1 /\ q \in 1 .. Len(s) + 1
    BY <1>7, <2>1, <2>2
  <2>4. p \in Nat \ {0} /\ q \in Nat \ {0} /\ q <= Len(s) + 1
    BY <1>8, <2>3
  <2>5. q = p + Len(t) /\ Spelled(s, p, t) /\ t = InQuotes(w) /\ IsWord(w) /\ Len(t) \in Nat
    BY <1>1, <1>3, <1>7, <2>1
  <2>6. Laid(s, p, w, p + Len(InQuotes(w)) - 1)
    <3>1. p + Len(InQuotes(w)) <= Len(s) + 1 /\ Spelled(s, p, InQuotes(w))
      BY <2>4, <2>5
    <3>2. QED
      BY <1>6, <2>4, <2>5, <3>1, WordIsLaid
  <2>7. p + Len(InQuotes(w)) - 1 = q - 1
    BY <2>4, <2>5
  <2>8. QuoteOrEnd(s, q - 1)
    <3>1. CASE k = N
      <4>1. q = Len(s) + 1
        BY <1>7, <2>1, <3>1
      <4>2. ~((q - 1) + 1 <= Len(s))
        BY <1>8, <4>1
      <4>3. QED
        BY <4>2 DEF QuoteOrEnd
    <3>2. CASE k # N
      <4>1. k + 1 \in 1 .. N
        BY <1>2, <3>2
      <4>2. Spelled(s, q, seqs[k + 1]) /\ Len(seqs[k + 1]) \in Nat \ {0} /\ seqs[k + 1][1] = "'"
        BY <1>3, <1>7, <2>1, <4>1
      <4>3. 1 \in 1 .. Len(seqs[k + 1]) /\ q + 1 - 1 = (q - 1) + 1
        BY <2>4, <4>2
      <4>4. s[q + 1 - 1] = "'"
        BY <4>2, <4>3 DEF Spelled
      <4>5. s[(q - 1) + 1] = "'"
        BY <4>3, <4>4
      <4>6. QED
        BY <4>5 DEF QuoteOrEnd
    <3>3. QED
      BY <3>1, <3>2
  <2>9. QED
    BY <2>1, <2>6, <2>7, <2>8
<1>10. AllLaid(s, words, places)
  BY <1>1, <1>6, <1>7, <1>9 DEF AllLaid
<1>11. QED
  BY <1>1, <1>10

\* What is read from the k-th word on has an error in it or is one command or
\* qualifier for each word.
ReadsFrom(s, words, places, k) ==
    LET c == Parse1(s)[places[k]]
        n == Len(words) - k + 1
    IN  \/ \E i \in 1 .. Len(c) : c[i].name = "ERR"
        \/ Len(c) = n /\ \A i \in 1 .. n : Reads(words[k + i - 1], c[i])

(* At the end of the text there is no command.                             *)
LEMMA NothingBehind ==
    ASSUME NEW s \in Seq(Char)
    PROVE  Parse1(s)[Len(s) + 1] = <<>>
<1>1. PICK p : p = Len(s) + 1
  OBVIOUS
<1>2. p \in 1 .. Len(s) + 1 /\ p \in Nat \ {0} /\ p <= Len(s) + 1 /\ p \notin DOMAIN s
  BY <1>1
<1>3. PICK start, f, end, after, m, signs, v :
           /\ Parts(s, p, start, f, end, after, m, signs, v)
           /\ GetCmd(s, p) = Reading(s, start, f, end, after, signs, v)
  BY GetCmdParts
<1>4. Skip(s, p, {"blank"}) = p
  <2>1. p \in p .. Len(s) + 1 /\ ~(p <= Len(s)) /\ \A j \in p .. p - 1 : s[j] \in {"blank"}
    BY <1>1, <1>2
  <2>2. QED
    BY <1>2, <2>1, SkipIs
<1>5. start = p
  BY <1>3, <1>4 DEF Parts, SkipWSpace
<1>6. At(s, start) = "nul" /\ At(s, start) \notin Quote
  <2>1. At(s, start) = "nul"
    BY <1>2, <1>5 DEF At
  <2>2. QED
    BY <2>1, Kinds
<1>7. f = p /\ At(s, f) = "nul"
  BY <1>3, <1>5, <1>6 DEF Parts
<1>8. GetCmd(s, p) = [cmd |-> Other("END"), next |-> 0]
  BY <1>3, <1>6, <1>7 DEF Reading
<1>9. GetCmd(s, p).cmd.name = "END"
  BY <1>8 DEF Other
<1>10. Parse1(s)[p] = <<>>
  BY <1>2, <1>9, ParseSteps DEF Step
<1>11. QED
  BY <1>1, <1>10

(* One word more is one command more, or there is an error.                *)
LEMMA ReadsOneMore ==
    ASSUME NEW s, NEW words, NEW places, AllLaid(s, words, places), NEW k \in 1 .. Len(words),
           Len(words) \in Nat, IsWord(words[k]), ~Quoted(words[k]),
           ReadsFrom(s, words, places, k + 1)
    PROVE  ReadsFrom(s, words, places, k)
<1>1. PICK N, p, q, w : N = Len(words) /\ p = places[k] /\ q = places[k + 1] /\ w = words[k]
  OBVIOUS
<1>2. N \in Nat /\ k \in 1 .. N /\ k \in Nat /\ k \in 1 .. N + 1 /\ k + 1 \in 1 .. N + 1
  BY <1>1
<1>3. /\ s \in Seq(Char) /\ p \in 1 .. Len(s) + 1 /\ q \in 1 .. Len(s) + 1
      /\ Laid(s, p, w, q - 1) /\ QuoteOrEnd(s, q - 1) /\ IsWord(w) /\ ~Quoted(w)
  BY <1>1, <1>2 DEF AllLaid
<1>4. Len(s) \in Nat /\ q \in Nat /\ q # 0 /\ (q - 1) + 1 = q
  BY <1>3
<1>5. PICK g, c, d : g = GetCmd(s, p) /\ c = Parse1(s)[p] /\ d = Parse1(s)[q]
  OBVIOUS
<1>6. c = Step(s, Parse1(s), p)
  BY <1>3, <1>5, ParseSteps
<1>7. \/ g.next = q /\ Reads(w, g.cmd)
      \/ g.next = 0 /\ g.cmd.name \in {"ERR", "EXIT"}
  BY <1>3, <1>4, <1>5, WordRead
<1>8. d \in Seq(Found(s))
  BY <1>3, <1>5, ParseFinds
<1>9. w.name \in Name /\ w.name \notin {"END", "EXIT"} /\ Error.name = "ERR"
  BY <1>3 DEF IsWord, Name, CmdQuals, Error, Other
<1>10. CASE g.next = 0 /\ g.cmd.name \in {"ERR", "EXIT"}
  <2>1. PICK x : c = <<x>> /\ x.name = "ERR"
    <3>1. CASE g.cmd.name = "EXIT"
      BY <1>5, <1>6, <1>9, <3>1 DEF Step
    <3>2. CASE g.cmd.name = "ERR"
      BY <1>5, <1>6, <1>10, <3>2 DEF Step
    <3>3. QED
      BY <1>10, <3>1, <3>2
  <2>2. Len(c) = 1 /\ c[1].name = "ERR" /\ 1 \in 1 .. Len(c)
    BY <2>1
  <2>3. QED
    BY <1>1, <1>5, <2>2 DEF ReadsFrom
<1>11. CASE g.next = q /\ Reads(w, g.cmd)
  <2>1. g.cmd.name \notin {"END", "EXIT"}
    BY <1>9, <1>11 DEF Reads
  <2>2. c = <<g.cmd>> \o d
    BY <1>4, <1>5, <1>6, <1>11, <2>1 DEF Step
  <2>3. PICK u, X : u = <<g.cmd>> /\ X = Found(s) \cup {g.cmd}
    OBVIOUS
  <2>4. u \in Seq(X) /\ d \in Seq(X) /\ Len(u) = 1 /\ u[1] = g.cmd /\ Len(d) \in Nat
    BY <1>8, <2>3
  <2>5. /\ Len(u \o d) = Len(u) + Len(d)
        /\ \A j \in 1 .. Len(u) : (u \o d)[j] = u[j]
        /\ \A j \in 1 .. Len(d) : (u \o d)[Len(u) + j] = d[j]
    BY SMTT(30), <2>4, Joined
  <2>6. /\ Len(c) = 1 + Len(d) /\ c[1] = g.cmd
        /\ \A j \in 1 .. Len(d) : c[1 + j] = d[j]
    <3>1. c = u \o d
      BY <2>2, <2>3
    <3>2. 1 \in 1 .. Len(u)
      BY <2>4
    <3>3. QED
      BY <2>4, <2>5, <3>1, <3>2
  <2>7. CASE \E i \in 1 .. Len(d) : d[i].name = "ERR"
    <3>1. PICK i \in 1 .. Len(d) : d[i].name = "ERR"
      BY <2>7
    <3>2. 1 + i \in 1 .. Len(c) /\ c[1 + i] = d[i]
      BY <2>4, <2>6
    <3>3. QED
      BY <1>1, <1>5, <3>1, <3>2 DEF ReadsFrom
  <2>8. CASE /\ Len(d) = N - (k + 1) + 1
             /\ \A i \in 1 .. N - (k + 1) + 1 : Reads(words[(k + 1) + i - 1], d[i])
    <3>1. Len(c) = N - k + 1
      BY <1>2, <2>6, <2>8
    <3>2. ASSUME NEW i \in 1 .. N - k + 1
          PROVE  Reads(words[k + i - 1], c[i])
      <4>1. CASE i = 1
        <5>1. k + i - 1 = k
          BY <1>2, <4>1
        <5>2. QED
          BY <1>1, <1>11, <2>6, <4>1, <5>1
      <4>2. CASE i # 1
        <5>1. /\ i - 1 \in 1 .. N - (k + 1) + 1 /\ i - 1 \in 1 .. Len(d)
              /\ 1 + (i - 1) = i /\ (k + 1) + (i - 1) - 1 = k + i - 1
          BY <1>2, <2>8, <4>2
        <5>2. c[1 + (i - 1)] = d[i - 1] /\ Reads(words[(k + 1) + (i - 1) - 1], d[i - 1])
          BY <2>6, <2>8, <5>1
        <5>3. QED
          BY <5>1, <5>2
      <4>3. QED
        BY <4>1, <4>2
    <3>3. QED
      BY <1>1, <1>5, <3>1, <3>2 DEF ReadsFrom
  <2>9. QED
    BY <1>1, <1>5, <2>7, <2>8 DEF ReadsFrom
<1>12. QED
  BY <1>7, <1>10, <1>11

(* All words are read apart.                                               *)
LEMMA AllRead ==
    ASSUME NEW s, NEW words, NEW places, AllLaid(s, words, places), Len(words) \in Nat,
           \A k \in 1 .. Len(words) : IsWord(words[k]) /\ ~Quoted(words[k])
    PROVE  ReadsFrom(s, words, places, 1)
<1>1. PICK N : N = Len(words) /\ N \in Nat
  OBVIOUS
<1> DEFINE T == {n \in 1 .. N + 1 : ReadsFrom(s, words, places, n)}
<1>2. N + 1 \in T
  <2>1. s \in Seq(Char) /\ places[N + 1] = Len(s) + 1
    BY <1>1 DEF AllLaid
  <2>2. Parse1(s)[places[N + 1]] = <<>>
    BY <2>1, NothingBehind
  <2>3. N - (N + 1) + 1 = 0
    BY <1>1
  <2>4. ReadsFrom(s, words, places, N + 1)
    BY <1>1, <2>2, <2>3 DEF ReadsFrom
  <2>5. QED
    BY <1>1, <2>4
<1>3. PICK n \in T : \A k \in T : n <= k
  <2>1. T \in SUBSET Nat /\ T # {}
    BY <1>1, <1>2
  <2>2. QED
    BY <2>1, LeastNumber
<1>4. n = 1
  <2> SUFFICES ASSUME n # 1
               PROVE  FALSE
    OBVIOUS
  <2>1. n \in 1 .. N + 1 /\ ReadsFrom(s, words, places, n)
    BY <1>3
  <2>2. PICK k : k = n - 1
    OBVIOUS
  <2>3. k \in 1 .. N /\ k \in 1 .. N + 1 /\ k + 1 = n /\ ~(n <= k) /\ k \in 1 .. Len(words)
    BY <1>1, <2>1, <2>2
  <2>4. ReadsFrom(s, words, places, k + 1)
    BY <2>1, <2>3
  <2>5. ReadsFrom(s, words, places, k)
    BY <2>3, <2>4, ReadsOneMore
  <2>6. k \in T
    BY <2>3, <2>5
  <2>7. QED
    BY <1>3, <2>3, <2>6
<1>5. QED
  BY <1>3, <1>4

-----------------------------------------------------------------------------
(* What parseslashcmd makes of a command line                              *)

\* c is a command: a record of these fields.
IsCmd(c) == c = [name |-> c.name, cmp |-> c.cmp, set |-> c.set, val |-> c.val]

(* What is read is a command, were it an error.                            *)
LEMMA ReadIsCmd ==
    ASSUME NEW s, NEW p
    PROVE  IsCmd(GetCmd(s, p).cmd)
<1>0. ASSUME NEW n, NEW cmp, NEW b, NEW x
      PROVE  IsCmd([name |-> n, cmp |-> cmp, set |-> b, val |-> x])
  BY DEF IsCmd
<1>1. \A n : IsCmd(Other(n))
  BY DEF IsCmd, Other
<1>2. ASSUME NEW n, NEW cmp, NEW v
      PROVE  IsCmd(NewCmd(n, cmp, v))
  <2>1. \E m, b, x : NewCmd(n, cmp, v) = [name |-> m, cmp |-> cmp, set |-> b, val |-> x]
    <3>1. PICK text : text = RTrim(v)
      OBVIOUS
    <3>2. CASE NewCmd(n, cmp, v) = [name |-> "ERR", cmp |-> cmp, set |-> FALSE, val |-> <<>>]
      BY <3>2
    <3>3. CASE NewCmd(n, cmp, v) = [name |-> n, cmp |-> cmp, set |-> text # <<>>,
                val |-> IF ~(text # <<>>) THEN <<>>
                        ELSE IF CmdQuals[n].type = "number" THEN Number(text) ELSE text]
      BY <3>3
    <3>4. QED
      BY <3>1, <3>2, <3>3 DEF NewCmd
  <2>2. QED
    BY <1>0, <2>1
<1>3. PICK start, f, end, after, m, signs, v :
           GetCmd(s, p) = Reading(s, start, f, end, after, signs, v)
  BY GetCmdParts
<1>4. \E c, q : /\ Reading(s, start, f, end, after, signs, v) = [cmd |-> c, next |-> q]
                /\ (\E n : c = Other(n)) \/ \E n, cmp, x : c = NewCmd(n, cmp, x)
  BY DEF Reading, Error
<1>5. QED
  BY <1>1, <1>2, <1>3, <1>4

(* The name that is read first is that of the word, or an error.           *)
LEMMA FirstRead ==
    ASSUME NEW s \in Seq(Char), NEW p, NEW w, NEW e, IsWord(w), Laid(s, p, w, e)
    PROVE  GetCmd(s, p).cmd.name \in {w.name, "ERR", "EXIT"}
<1>1. /\ p \in Nat \ {0} /\ p + 1 <= Len(s) /\ s[p] = "'" /\ s[p + 1] = w.name /\ w.name \in Name
  <2>1. PICK a, b : a = Len(w.signs) /\ b = Len(w.value)
    OBVIOUS
  <2>2. /\ p \in Nat \ {0} /\ a \in Nat /\ b \in Nat /\ e = p + a + b + 2 /\ e <= Len(s)
        /\ s[p] = "'" /\ s[p + 1] = w.name /\ w.name \in Name
    BY <2>1 DEF Laid, IsWord
  <2>3. p + 1 <= Len(s)
    BY <2>2
  <2>4. QED
    BY <2>2, <2>3
<1>2. p \in DOMAIN s /\ p + 1 \in DOMAIN s /\ p <= Len(s)
  BY <1>1
<1>3. PICK start, f, end, after, m, signs, v :
           /\ Parts(s, p, start, f, end, after, m, signs, v)
           /\ GetCmd(s, p) = Reading(s, start, f, end, after, signs, v)
  BY GetCmdParts
<1>4. start = p
  <2>1. s[p] \notin {"blank"}
    BY <1>1
  <2>2. Skip(s, p, {"blank"}) = p
    BY <1>1, <1>2, <2>1, SkipStays
  <2>3. QED
    BY <1>3, <2>2 DEF Parts, SkipWSpace
<1>5. f = p + 1 /\ At(s, start) \in Quote
  <2>1. At(s, start) \in Quote
    BY <1>1, <1>2, <1>4, Kinds DEF At
  <2>2. QED
    BY <1>3, <1>4, <2>1 DEF Parts
<1>6. At(s, f) = w.name /\ s[f] = w.name /\ At(s, f) # "nul"
  <2>1. At(s, f) = w.name /\ s[f] = w.name
    BY <1>1, <1>2, <1>5 DEF At
  <2>2. QED
    BY <1>1, <2>1, Kinds
<1>7. Error.name = "ERR" /\ Other("EXIT").name = "EXIT"
  BY DEF Error, Other
<1>8. \E c, q : /\ GetCmd(s, p) = [cmd |-> c, next |-> q]
                /\ c = Error \/ c = Other("EXIT") \/ \E cmp, x : c = NewCmd(w.name, cmp, x)
  BY <1>3, <1>6 DEF Reading
<1>9. QED
  BY <1>7, <1>8, NewCmdNames

(* Of a line that passes check_syntax, the commands and qualifiers, ...    *)
LEMMA ParsedLine ==
    ASSUME NEW X, NEW words \in Seq(X), Len(words) # 0, \A k \in 1 .. Len(words) : IsWord(words[k]),
           CmdQuals[words[1].name].command,
           NEW cmds, cmds = ParseSlashCmd(MkCmdLine(words)), cmds # <<>>
    PROVE  /\ DOMAIN cmds = 1 .. Len(cmds) /\ Len(cmds) \in Nat
           /\ \A k \in DOMAIN cmds :
                 /\ IsCmd(cmds[k]) /\ cmds[k].name \in Name /\ cmds[k].cmp \in DOMAIN Signs
                 /\ CmdQuals[cmds[k].name].command <=> k = 1
<1>1. PICK s, N : s = MkCmdLine(words) /\ N = Len(words)
  OBVIOUS
<1>2. PICK places : AllLaid(s, words, places)
  BY <1>1, LineOfWords
<1>3. N \in Nat \ {0} /\ 1 \in 1 .. N
  BY <1>1
<1>4. s \in Seq(Char) /\ places[1] = 1 /\ Laid(s, 1, words[1], places[1 + 1] - 1) /\ IsWord(words[1])
  BY <1>1, <1>2, <1>3 DEF AllLaid
<1>5. CheckSyntax(cmds) /\ cmds = Parse1(s)[1]
  BY <1>1, ParseIsParse1
<1>6. 1 \in 1 .. Len(s) + 1
  BY <1>4
<1>7. cmds \in Seq(Found(s))
  BY <1>4, <1>5, <1>6, ParseFinds
<1>8. DOMAIN cmds = 1 .. Len(cmds) /\ Len(cmds) \in Nat
  BY <1>7
<1>9. ASSUME NEW k \in DOMAIN cmds
      PROVE  IsCmd(cmds[k]) /\ cmds[k].name \in Name /\ cmds[k].cmp \in DOMAIN Signs
  <2>1. PICK c : c = cmds[k] /\ c \in Found(s)
    BY <1>7
  <2>2. c.name # "ERR" /\ c.cmp # "ERR"
    BY <1>5, <2>1 DEF CheckSyntax
  <2>3. c # Error
    BY <2>2 DEF Error, Other
  <2>4. PICK p \in 1 .. Len(s) + 1 : c = GetCmd(s, p).cmd /\ c.name \notin {"END", "EXIT"}
    BY <2>1, <2>3 DEF Found
  <2>5. c.name \in Name /\ c.cmp \in DOMAIN Signs
    BY <1>4, <2>2, <2>4, GetCmdAdvances
  <2>6. IsCmd(c)
    BY <2>4, ReadIsCmd
  <2>7. QED
    BY <2>1, <2>5, <2>6
<1>10. 1 \in DOMAIN cmds /\ cmds[1].name = words[1].name
  <2>1. 1 \in DOMAIN cmds
    <3>1. Len(cmds) # 0
      BY <1>7
    <3>2. QED
      BY <1>8, <3>1
  <2>2. PICK g : g = GetCmd(s, 1)
    OBVIOUS
  <2>3. g.cmd.name \in {words[1].name, "ERR", "EXIT"}
    BY <1>4, <2>2, FirstRead
  <2>4. words[1].name \in Name /\ words[1].name \notin {"END", "EXIT"} /\ Error.name = "ERR"
    BY <1>4 DEF IsWord, Name, CmdQuals, Error, Other
  <2>5. cmds = Step(s, Parse1(s), 1)
    BY <1>4, <1>5, <1>6, ParseSteps
  <2>6. cmds[1].name # "ERR"
    BY <1>5, <2>1 DEF CheckSyntax
  <2>7. CASE g.cmd.name = "EXIT"
    <3>1. cmds = <<Error>>
      BY <2>2, <2>5, <2>7 DEF Step
    <3>2. cmds[1] = Error
      BY <3>1
    <3>3. QED
      BY <2>4, <2>6, <3>2
  <2>8. CASE g.cmd.name # "EXIT"
    <3>1. cmds[1] = g.cmd
      <4>1. CASE g.next = 0
        <5>1. cmds = <<g.cmd>>
          BY <2>2, <2>3, <2>4, <2>5, <2>8, <4>1 DEF Step
        <5>2. QED
          BY <5>1
      <4>2. CASE g.next # 0
        <5>1. PICK d : d = Parse1(s)[g.next]
          OBVIOUS
        <5>2. cmds = <<g.cmd>> \o d
          BY <2>2, <2>3, <2>4, <2>5, <2>8, <4>2, <5>1 DEF Step
        <5>3. g.next \in 1 .. Len(s) + 1
          <6>1. g.next \in 1 + 1 .. Len(s) + 1
            BY <1>4, <1>6, <2>2, <4>2, GetCmdAdvances
          <6>2. QED
            BY <1>4, <6>1
        <5>4. d \in Seq(Found(s))
          BY <1>4, <5>1, <5>3, ParseFinds
        <5>5. PICK u, Y : u = <<g.cmd>> /\ Y = Found(s) \cup {g.cmd}
          OBVIOUS
        <5>6. u \in Seq(Y) /\ d \in Seq(Y) /\ Len(u) = 1 /\ u[1] = g.cmd /\ 1 \in 1 .. Len(u)
          BY <5>4, <5>5
        <5>7. (u \o d)[1] = u[1]
          BY <5>6, Joined
        <5>8. QED
          BY <5>2, <5>5, <5>6, <5>7
      <4>3. QED
        BY <4>1, <4>2
    <3>2. QED
      BY <2>3, <2>6, <2>8, <3>1
  <2>9. QED
    BY <2>1, <2>7, <2>8
<1> DEFINE C == {k \in DOMAIN cmds : CmdQuals[cmds[k].name].command}
<1>11. Cardinality(C) <= 1
  BY <1>5 DEF CheckSyntax
<1>12. IsFiniteSet(C)
  <2>1. IsFiniteSet(1 .. Len(cmds))
    BY <1>8, FS_Interval
  <2>2. C \subseteq 1 .. Len(cmds)
    BY <1>8
  <2>3. QED
    BY <2>1, <2>2, FS_Subset
<1>13. 1 \in C
  BY <1>10
<1>14. ASSUME NEW k \in C
       PROVE  k = 1
  <2>1. {1, k} \subseteq C
    BY <1>13
  <2>2. Cardinality({1, k}) <= Cardinality(C)
    BY <1>12, <2>1, FS_Subset
  <2>3. ASSUME k # 1
        PROVE  FALSE
    <3>1. IsFiniteSet({1}) /\ Cardinality({1}) = 1
      BY FS_Singleton
    <3>0. k \notin {1} /\ 1 + 1 = 2
      BY <2>3
    <3>6. Cardinality({1} \cup {k}) = Cardinality({1}) + 1
      BY <3>0, <3>1, FS_AddElement
    <3>2. Cardinality({1} \cup {k}) = 2
      BY <3>0, <3>1, <3>6
    <3>3. {1} \cup {k} = {1, k}
      OBVIOUS
    <3>4. Cardinality(C) \in Nat
      BY <1>12, FS_CardinalityType
    <3>5. Cardinality({1, k}) = 2
      BY <3>2, <3>3
    <3>7. 2 <= Cardinality(C)
      BY <2>2, <3>5
    <3>8. QED
      BY <1>11, <3>4, <3>7
  <2>4. QED
    BY <2>3
<1>15. QED
  BY <1>8, <1>9, <1>13, <1>14

(* What parseslashcmd makes is a sequence.                                 *)
LEMMA ParsedIsSeq ==
    ASSUME NEW s \in Seq(Char), NEW cmds, cmds = ParseSlashCmd(s)
    PROVE  \E X : cmds \in Seq(X)
<1>1. 1 \in 1 .. Len(s) + 1
  OBVIOUS
<1>2. Parse1(s)[1] \in Seq(Found(s))
  BY <1>1, ParseFinds
<1>3. <<>> \in Seq(Found(s))
  OBVIOUS
<1>4. cmds \in Seq(Found(s))
  BY <1>2, <1>3, ParseIsParse1
<1>5. QED
  BY <1>4

(* ... and one for each word, if there is no quote in them.                *)
LEMMA ParsedApart ==
    ASSUME NEW X, NEW words \in Seq(X), Len(words) # 0,
           \A k \in 1 .. Len(words) : IsWord(words[k]) /\ ~Quoted(words[k]),
           NEW cmds, cmds = ParseSlashCmd(MkCmdLine(words)), cmds # <<>>
    PROVE  /\ Len(cmds) = Len(words)
           /\ \A k \in 1 .. Len(words) :
                 /\ cmds[k].name = words[k].name /\ cmds[k].cmp = GetCmp(words[k].signs)
                 /\ cmds[k].set => cmds[k].val = Meant(words[k].name, Trim(words[k].value))
                 /\ cmds[k].set = (cmds[k].cmp # "NONE")
<1>1. PICK s, N : s = MkCmdLine(words) /\ N = Len(words)
  OBVIOUS
<1>2. PICK places : AllLaid(s, words, places)
  BY <1>1, LineOfWords
<1>3. N \in Nat /\ s \in Seq(Char) /\ places[1] = 1
  BY <1>1, <1>2 DEF AllLaid
<1>4. CheckSyntax(cmds) /\ cmds = Parse1(s)[1]
  BY <1>1, ParseIsParse1
<1>5. cmds \in Seq(Found(s))
  <2>1. 1 \in 1 .. Len(s) + 1
    BY <1>3
  <2>2. QED
    BY <1>3, <1>4, <2>1, ParseFinds
<1>6. \A k \in 1 .. Len(cmds) : cmds[k].name # "ERR" /\ cmds[k].cmp # "ERR"
  <2>1. DOMAIN cmds = 1 .. Len(cmds)
    BY <1>5
  <2>2. QED
    BY <1>4, <2>1 DEF CheckSyntax
<1>7. ReadsFrom(s, words, places, 1)
  BY <1>1, <1>2, <1>3, AllRead
<1>8. Len(cmds) = N - 1 + 1 /\ \A i \in 1 .. N - 1 + 1 : Reads(words[1 + i - 1], cmds[i])
  BY <1>1, <1>3, <1>4, <1>6, <1>7 DEF ReadsFrom
<1>9. N - 1 + 1 = N /\ \A i \in 1 .. N : 1 + i - 1 = i
  BY <1>3
<1>10. Len(cmds) = N /\ \A i \in 1 .. N : Reads(words[i], cmds[i])
  BY <1>8, <1>9
<1>11. QED
  BY <1>1, <1>6, <1>10 DEF Reads

-----------------------------------------------------------------------------
(* The numbers                                                             *)

\* n[k] is what the first k characters of v are as a number, for k up to m.
IsNumber(v, m, n) == n = [k \in 0 .. m |-> IF k = 0 THEN 0 ELSE 10 * n[k - 1] + DigitValue[v[k]]]

(* There is such a function, and Number is its value at the last digit.    *)
LEMMA NumberExists ==
    ASSUME NEW X, NEW v \in Seq(X)
    PROVE  \E n : IsNumber(v, Len(v), n) /\ Number(v) = n[Skip(v, 1, Digit) - 1]
<1>1. PICK N : N = Len(v) /\ N \in Nat
  OBVIOUS
<1> DEFINE T == {m \in 0 .. N : \E n : IsNumber(v, m, n)}
<1>2. 0 \in T
  <2>1. PICK n : n = [k \in 0 .. 0 |-> 0]
    OBVIOUS
  <2>2. \A k \in 0 .. 0 : k = 0
    OBVIOUS
  <2>3. n = [k \in 0 .. 0 |-> IF k = 0 THEN 0 ELSE 10 * n[k - 1] + DigitValue[v[k]]]
    BY <2>1, <2>2
  <2>4. IsNumber(v, 0, n)
    BY <2>3 DEF IsNumber
  <2>5. QED
    BY <1>1, <2>4
<1>3. PICK m \in T : \A k \in T : k <= m
  <2>1. T \in SUBSET Nat /\ T # {} /\ \A k \in T : k <= N
    BY <1>1, <1>2
  <2>2. QED
    BY <1>1, <2>1, GreatestNumber
<1>4. PICK n : IsNumber(v, m, n)
  BY <1>3
<1>5. m = N
  <2> SUFFICES ASSUME m # N
               PROVE  FALSE
    OBVIOUS
  <2>1. m \in Nat /\ m + 1 \in 0 .. N
    BY <1>1, <1>3
  <2> DEFINE more == [k \in 0 .. m + 1 |-> IF k = m + 1 THEN 10 * n[m] + DigitValue[v[k]] ELSE n[k]]
  <2>2. \A k \in 0 .. m : n[k] = IF k = 0 THEN 0 ELSE 10 * n[k - 1] + DigitValue[v[k]]
    BY <1>4 DEF IsNumber
  <2>3. \A k \in 0 .. m + 1 : more[k] = IF k = 0 THEN 0 ELSE 10 * more[k - 1] + DigitValue[v[k]]
    BY <2>1, <2>2
  <2>4. more = [k \in 0 .. m + 1 |-> IF k = 0 THEN 0 ELSE 10 * more[k - 1] + DigitValue[v[k]]]
    BY <2>3
  <2> HIDE DEF more
  <2>5. IsNumber(v, m + 1, more)
    BY <2>4 DEF IsNumber
  <2>6. m + 1 \in T
    BY <2>1, <2>5
  <2> HIDE DEF T
  <2>7. QED
    BY <1>3, <2>1, <2>6
<1>6. PICK q : q = Skip(v, 1, Digit) - 1
  OBVIOUS
<1>7. Number(v) = (CHOOSE f : IsNumber(v, N, f))[q]
  BY <1>1, <1>6 DEF Number, IsNumber
<1>8. IsNumber(v, N, CHOOSE f : IsNumber(v, N, f))
  BY <1>4, <1>5
<1>9. QED
  BY <1>1, <1>6, <1>7, <1>8

(* What a digit counts.                                                    *)
LEMMA DigitsCount == \A d \in Digit : DigitValue[d] \in 0 .. 9
<1>1. \A d \in Digit : DigitValue[d] \in {0, 1, 2, 3, 4, 5, 6, 7, 8, 9}
  BY DEF Digit, DigitValue
<1>2. QED
  BY <1>1

(* A number has no sign.                                                   *)
LEMMA NumbersAreNatural ==
    ASSUME NEW X, NEW v \in Seq(X)
    PROVE  Number(v) \in Nat
<1>1. PICK q, N : q = Skip(v, 1, Digit) - 1 /\ N = Len(v)
  OBVIOUS
<1>2. N \in Nat /\ q \in 0 .. N /\ \A j \in 1 .. q : v[j] \in Digit
  <2>1. 1 \in Nat \ {0} /\ 1 <= Len(v) + 1 /\ N \in Nat
    BY <1>1
  <2>2. PICK r : r = Skip(v, 1, Digit)
    OBVIOUS
  <2>3. r \in 1 .. Len(v) + 1 /\ \A j \in 1 .. r - 1 : v[j] \in Digit
    BY <2>1, <2>2, SkipEnds
  <2>4. QED
    BY <1>1, <2>1, <2>2, <2>3
<1>3. PICK n : IsNumber(v, N, n) /\ Number(v) = n[q]
  BY <1>1, NumberExists
<1>4. \A k \in 0 .. N : n[k] = IF k = 0 THEN 0 ELSE 10 * n[k - 1] + DigitValue[v[k]]
  BY <1>3 DEF IsNumber
<1> DEFINE T == {k \in 0 .. q : n[k] \notin Nat}
<1>5. T = {}
  <2> SUFFICES ASSUME T # {}
               PROVE  FALSE
    OBVIOUS
  <2>1. PICK k \in T : \A j \in T : k <= j
    <3>1. T \in SUBSET Nat
      BY <1>2
    <3>2. QED
      BY <3>1, LeastNumber
  <2>2. k \in 0 .. N /\ k \in 0 .. q
    BY <1>2, <2>1
  <2>3. k # 0
    BY <1>4, <2>1, <2>2
  <2>4. k \in 1 .. q /\ k - 1 \in 0 .. q /\ ~(k <= k - 1)
    BY <1>2, <2>2, <2>3
  <2>5. n[k - 1] \in Nat
    BY <2>1, <2>4
  <2>6. DigitValue[v[k]] \in Nat
    BY <1>2, <2>4, DigitsCount
  <2>7. n[k] = 10 * n[k - 1] + DigitValue[v[k]]
    BY <1>4, <2>2, <2>3
  <2>8. n[k] \in Nat
    BY <2>5, <2>6, <2>7
  <2>9. QED
    BY <2>1, <2>8
<1>6. QED
  BY <1>2, <1>3, <1>5

(* Another digit behind the digits of a number.                            *)
LEMMA OneDigitMore ==
    ASSUME NEW u \in Seq(Digit), NEW d \in Digit
    PROVE  Number(u \o <<d>>) = 10 * Number(u) + DigitValue[d]
<1>1. PICK v, N : v = u \o <<d>> /\ N = Len(u)
  OBVIOUS
<1>2. N \in Nat /\ v \in Seq(Digit) /\ Len(v) = N + 1 /\ v[N + 1] = d /\ \A k \in 1 .. N : v[k] = u[k]
  BY <1>1
<1>3. ASSUME NEW t \in Seq(Digit)
      PROVE  Skip(t, 1, Digit) = Len(t) + 1
  <2>1. PICK q : q = Len(t) + 1
    OBVIOUS
  <2>2. 1 \in Nat \ {0} /\ q \in 1 .. Len(t) + 1 /\ ~(q <= Len(t)) /\ \A j \in 1 .. q - 1 : t[j] \in Digit
    BY <2>1
  <2>3. Skip(t, 1, Digit) = q
    BY <2>2, SkipIs
  <2>4. QED
    BY <2>1, <2>3
<1>4. PICK f : IsNumber(u, N, f) /\ Number(u) = f[N]
  <2>1. Skip(u, 1, Digit) - 1 = N
    BY <1>1, <1>2, <1>3
  <2>2. QED
    BY <1>1, <2>1, NumberExists
<1>5. PICK g : IsNumber(v, N + 1, g) /\ Number(v) = g[N + 1]
  <2>1. Skip(v, 1, Digit) - 1 = N + 1
    BY <1>2, <1>3
  <2>2. QED
    BY <1>2, <2>1, NumberExists
<1>6. \A k \in 0 .. N : f[k] = IF k = 0 THEN 0 ELSE 10 * f[k - 1] + DigitValue[u[k]]
  BY <1>4 DEF IsNumber
<1>7. \A k \in 0 .. N + 1 : g[k] = IF k = 0 THEN 0 ELSE 10 * g[k - 1] + DigitValue[v[k]]
  BY <1>5 DEF IsNumber
<1> DEFINE T == {k \in 0 .. N : f[k] # g[k]}
<1>8. T = {}
  <2> SUFFICES ASSUME T # {}
               PROVE  FALSE
    OBVIOUS
  <2>1. PICK k \in T : \A j \in T : k <= j
    <3>1. T \in SUBSET Nat
      BY <1>2
    <3> HIDE DEF T
    <3>2. QED
      BY <3>1, LeastNumber
  <2>2. k \in 0 .. N /\ k \in 0 .. N + 1
    BY <1>2, <2>1
  <2>3. k # 0
    BY <1>6, <1>7, <2>1, <2>2
  <2>4. k \in 1 .. N /\ k - 1 \in 0 .. N /\ ~(k <= k - 1)
    BY <1>2, <2>2, <2>3
  <2>5. f[k - 1] = g[k - 1]
    BY <2>1, <2>4
  <2>6. f[k] = 10 * f[k - 1] + DigitValue[u[k]] /\ g[k] = 10 * g[k - 1] + DigitValue[v[k]] /\ v[k] = u[k]
    BY <1>2, <1>6, <1>7, <2>2, <2>3, <2>4
  <2>7. f[k] = g[k]
    BY <2>5, <2>6
  <2>8. QED
    BY <2>1, <2>7
<1>9. f[N] = g[N]
  <2>1. N \in 0 .. N
    BY <1>2
  <2>2. QED
    BY <1>8, <2>1
<1>10. g[N + 1] = 10 * g[N] + DigitValue[d]
  <2>1. PICK k : k = N + 1
    OBVIOUS
  <2>2. k \in 0 .. N + 1 /\ k # 0 /\ k - 1 = N
    BY <1>2, <2>1
  <2>3. g[k] = 10 * g[k - 1] + DigitValue[v[k]]
    BY <1>7, <2>2
  <2>4. QED
    BY <1>2, <2>1, <2>2, <2>3
<1>11. QED
  BY <1>1, <1>4, <1>5, <1>9, <1>10

(* There is nothing to count in an empty text.                             *)
LEMMA NothingCounted == Number(<<>>) = 0
<1>1. PICK v : v = <<>>
  OBVIOUS
<1>2. v \in Seq(Digit) /\ Len(v) = 0
  BY <1>1
<1>3. Skip(v, 1, Digit) = 1
  <2>1. 1 \in Nat \ {0} /\ 1 <= Len(v) + 1
    BY <1>2
  <2>2. Skip(v, 1, Digit) \in 1 .. Len(v) + 1
    BY <1>2, <2>1, SkipEnds
  <2>3. QED
    BY <1>2, <2>2
<1>4. PICK n : IsNumber(v, 0, n) /\ Number(v) = n[0]
  <2>1. Skip(v, 1, Digit) - 1 = 0
    BY <1>3
  <2>2. QED
    BY <1>2, <2>1, NumberExists
<1>5. n[0] = 0
  <2>1. 0 \in 0 .. 0
    OBVIOUS
  <2>2. QED
    BY <1>4, <2>1 DEF IsNumber
<1>6. QED
  BY <1>1, <1>4, <1>5

\* The digit that counts i.
DigitOf(i) == CHOOSE d \in Digit : DigitValue[d] = i

(* There is a digit for every number below ten.                            *)
LEMMA DigitsOf == \A i \in 0 .. 9 : DigitOf(i) \in Digit /\ DigitValue[DigitOf(i)] = i
<1> SUFFICES ASSUME NEW i \in 0 .. 9
             PROVE  \E d \in Digit : DigitValue[d] = i
  BY DEF DigitOf
<1>1. i \in {0, 1, 2, 3, 4, 5, 6, 7, 8, 9}
  OBVIOUS
<1>2. /\ {"0", "1", "2", "3", "4", "5", "6", "7", "8", "9"} \subseteq Digit
      /\ DigitValue["0"] = 0 /\ DigitValue["1"] = 1 /\ DigitValue["2"] = 2 /\ DigitValue["3"] = 3
      /\ DigitValue["4"] = 4 /\ DigitValue["5"] = 5 /\ DigitValue["6"] = 6 /\ DigitValue["7"] = 7
      /\ DigitValue["8"] = 8 /\ DigitValue["9"] = 9
  BY DEF Digit, DigitValue
<1>3. QED
  BY <1>1, <1>2

\* t[m] are the digits of m, for m up to n.
IsDecimal(n, t) == t = [m \in 0 .. n |-> (IF m < 10 THEN <<>> ELSE t[m \div 10]) \o <<DigitOf(m % 10)>>]

(* There is such a function, and Decimal is its last value.                *)
LEMMA DecimalExists ==
    ASSUME NEW n \in Nat
    PROVE  \E t : IsDecimal(n, t) /\ Decimal(n) = t[n]
<1> DEFINE T == {m \in 0 .. n : \E t : IsDecimal(m, t)}
<1>1. 0 \in T
  <2>1. PICK t : t = [m \in 0 .. 0 |-> <<>> \o <<DigitOf(m % 10)>>]
    OBVIOUS
  <2>2. \A m \in 0 .. 0 : m < 10
    OBVIOUS
  <2>3. t = [m \in 0 .. 0 |-> (IF m < 10 THEN <<>> ELSE t[m \div 10]) \o <<DigitOf(m % 10)>>]
    BY <2>1, <2>2
  <2>4. IsDecimal(0, t)
    BY <2>3 DEF IsDecimal
  <2>5. QED
    BY <2>4
<1>2. PICK m \in T : \A k \in T : k <= m
  <2>1. T \in SUBSET Nat /\ T # {} /\ \A k \in T : k <= n
    BY <1>1
  <2> HIDE DEF T
  <2>2. QED
    BY <2>1, GreatestNumber
<1>3. PICK t : IsDecimal(m, t)
  BY <1>2
<1>4. m = n
  <2> SUFFICES ASSUME m # n
               PROVE  FALSE
    OBVIOUS
  <2>1. m \in Nat /\ m + 1 \in 0 .. n
    BY <1>2
  <2> DEFINE next == (IF m + 1 < 10 THEN <<>> ELSE t[(m + 1) \div 10]) \o <<DigitOf((m + 1) % 10)>>
             more == [k \in 0 .. m + 1 |-> IF k = m + 1 THEN next ELSE t[k]]
  <2>2. \A k \in 0 .. m : t[k] = (IF k < 10 THEN <<>> ELSE t[k \div 10]) \o <<DigitOf(k % 10)>>
    BY <1>3 DEF IsDecimal
  <2>3. \A k \in Nat : ~(k < 10) => k \div 10 \in 0 .. k - 1
    OBVIOUS
  <2>4. \A k \in 0 .. m + 1 : ~(k < 10) => more[k \div 10] = t[k \div 10]
    <3> TAKE k \in 0 .. m + 1
    <3> HAVE ~(k < 10)
    <3>1. k \in Nat /\ k \div 10 \in 0 .. k - 1
      BY <2>1, <2>3
    <3>2. PICK j : j = k \div 10
      OBVIOUS
    <3>3. j \in 0 .. m + 1 /\ j # m + 1
      BY <2>1, <3>1, <3>2
    <3>4. more[j] = t[j]
      BY <3>3
    <3>5. QED
      BY <3>2, <3>4
  <2>5. \A k \in 0 .. m + 1 : more[k] = (IF k < 10 THEN <<>> ELSE t[k \div 10]) \o <<DigitOf(k % 10)>>
    <3> TAKE k \in 0 .. m + 1
    <3>1. CASE k = m + 1
      BY <3>1
    <3>2. CASE k # m + 1
      <4>1. k \in 0 .. m
        BY <2>1, <3>2
      <4>2. more[k] = t[k]
        BY <3>2
      <4>3. QED
        BY <2>2, <4>1, <4>2
    <3>3. QED
      BY <3>1, <3>2
  <2>6. DOMAIN more = 0 .. m + 1 /\ more = [k \in DOMAIN more |-> more[k]]
    OBVIOUS
  <2> HIDE DEF more, next
  <2>7. \A k \in 0 .. m + 1 : more[k] = (IF k < 10 THEN <<>> ELSE more[k \div 10]) \o <<DigitOf(k % 10)>>
    BY <2>4, <2>5
  <2>8. IsDecimal(m + 1, more)
    BY <2>6, <2>7 DEF IsDecimal
  <2>9. m + 1 \in T
    BY <2>1, <2>8
  <2> HIDE DEF T
  <2>10. QED
    BY <1>2, <2>1, <2>9
<1>5. IsDecimal(n, CHOOSE f : IsDecimal(n, f))
  BY <1>3, <1>4
<1>6. Decimal(n) = (CHOOSE f : IsDecimal(n, f))[n]
  BY DEF Decimal, IsDecimal, DigitOf
<1>7. QED
  BY <1>5, <1>6

(* What display_cmd writes of a number are digits, and atoi reads the      *)
(* number from them.                                                       *)
LEMMA DecimalReadsBack ==
    ASSUME NEW n \in Nat
    PROVE  Decimal(n) \in Seq(Digit) /\ Decimal(n) # <<>> /\ Number(Decimal(n)) = n
<1>1. PICK t : IsDecimal(n, t) /\ Decimal(n) = t[n]
  BY DecimalExists
<1>2. \A m \in 0 .. n : t[m] = (IF m < 10 THEN <<>> ELSE t[m \div 10]) \o <<DigitOf(m % 10)>>
  BY <1>1 DEF IsDecimal
<1> DEFINE Good(m) == t[m] \in Seq(Digit) /\ t[m] # <<>> /\ Number(t[m]) = m
           T == {m \in 0 .. n : ~Good(m)}
<1>3. T = {}
  <2> SUFFICES ASSUME T # {}
               PROVE  FALSE
    OBVIOUS
  <2>1. PICK m \in T : \A j \in T : m <= j
    <3>1. T \in SUBSET Nat
      OBVIOUS
    <3> HIDE DEF T
    <3>2. QED
      BY <3>1, LeastNumber
  <2>2. m \in Nat /\ m \in 0 .. n
    BY <2>1
  <2>3. PICK q, i : q = m \div 10 /\ i = m % 10
    OBVIOUS
  <2>4. q \in Nat /\ i \in 0 .. 9 /\ m = 10 * q + i /\ (m < 10 => q = 0) /\ (~(m < 10) => q < m)
    BY <2>2, <2>3
  <2>5. PICK u : u = IF m < 10 THEN <<>> ELSE t[q]
    OBVIOUS
  <2>6. u \in Seq(Digit) /\ Number(u) = q
    <3>1. CASE m < 10
      <4>1. u = <<>> /\ q = 0
        BY <2>4, <2>5, <3>1
      <4>2. u \in Seq(Digit)
        BY <4>1
      <4>3. QED
        BY <4>1, <4>2, NothingCounted
    <3>2. CASE ~(m < 10)
      <4>1. q \in 0 .. n /\ ~(m <= q)
        BY <2>2, <2>4, <3>2
      <4>2. Good(q)
        BY <2>1, <4>1
      <4>3. QED
        BY <2>5, <3>2, <4>2
    <3>3. QED
      BY <3>1, <3>2
  <2>7. t[m] = u \o <<DigitOf(i)>>
    BY <1>2, <2>2, <2>3, <2>5
  <2>8. DigitOf(i) \in Digit /\ DigitValue[DigitOf(i)] = i
    BY <2>4, DigitsOf
  <2>9. Number(t[m]) = 10 * q + i
    BY <2>6, <2>7, <2>8, OneDigitMore
  <2>10. t[m] \in Seq(Digit) /\ t[m] # <<>>
    BY <2>6, <2>7, <2>8
  <2>11. Good(m)
    BY <2>4, <2>9, <2>10
  <2>12. QED
    BY <2>1, <2>11
<1>4. n \in 0 .. n
  OBVIOUS
<1>5. QED
  BY <1>1, <1>3, <1>4

-----------------------------------------------------------------------------
(* The comparisons                                                         *)

\* The sides that a comparison keeps.
Sides ==
    [LT |-> {"less"}, LE |-> {"less", "equal"}, EQ |-> {"equal"}, GE |-> {"equal", "greater"},
     GT |-> {"greater"}, NE |-> {"less", "greater"}]

Side(d) == IF d < 0 THEN "less" ELSE IF d = 0 THEN "equal" ELSE "greater"

(* filtcmp keeps what is on these sides.                                   *)
LEMMA KeepsSides ==
    ASSUME NEW cmp \in DOMAIN Sides, NEW d \in Int
    PROVE  Keeps(cmp, d) <=> Side(d) \in Sides[cmp]
<1>1. cmp \in {"LT", "LE", "EQ", "GE", "GT", "NE"}
  BY DEF Sides
<1>2. CASE cmp = "LT"
  BY <1>2 DEF Keeps, Side, Sides
<1>3. CASE cmp = "LE"
  BY <1>3 DEF Keeps, Side, Sides
<1>4. CASE cmp = "EQ"
  BY <1>4 DEF Keeps, Side, Sides
<1>5. CASE cmp = "GE"
  BY <1>5 DEF Keeps, Side, Sides
<1>6. CASE cmp = "GT"
  BY <1>6 DEF Keeps, Side, Sides
<1>7. CASE cmp = "NE"
  BY <1>7 DEF Keeps, Side, Sides
<1>8. QED
  BY <1>1, <1>2, <1>3, <1>4, <1>5, <1>6, <1>7

(* A single sign keeps what it means.                                      *)
LEMMA OneSignMeans ==
    ASSUME NEW a \in Sign \ {"?"}
    PROVE  FirstSign[a] \in DOMAIN Sides /\ Means(<<a>>) = Sides[FirstSign[a]]
<1>1. CASE a = "="
  BY <1>1 DEF FirstSign, Sign, Sides, Means, SignMeans
<1>2. CASE a \in {">", "."}
  BY <1>2 DEF FirstSign, Sign, Sides, Means, SignMeans
<1>3. CASE a \in {"<", ","}
  BY <1>3 DEF FirstSign, Sign, Sides, Means, SignMeans
<1>4. CASE a = "!"
  BY <1>4 DEF FirstSign, Sign, Sides, Means, SignMeans
<1>5. QED
  BY <1>1, <1>2, <1>3, <1>4 DEF Sign

(* Nor do two signs keep anything but what they mean.                      *)
LEMMA TwoSignsMean ==
    ASSUME NEW a \in Sign \ {"?"}, NEW b \in Sign \ {"?"}, FirstSign[a] \in DOMAIN SecondSign[b]
    PROVE  LET cmp == SecondSign[b][FirstSign[a]]
           IN  cmp \in DOMAIN Sides /\ Means(<<a, b>>) = Sides[cmp]
<1>1. PICK first : first = FirstSign[a]
  OBVIOUS
<1>2. a = "=" => first = "EQ" /\ SignMeans(a) = {"equal"}
  BY <1>1 DEF FirstSign, Sign, SignMeans
<1>3. a \in {">", "."} => first = "GT" /\ SignMeans(a) = {"greater"}
  BY <1>1 DEF FirstSign, Sign, SignMeans
<1>4. a \in {"<", ","} => first = "LT" /\ SignMeans(a) = {"less"}
  BY <1>1 DEF FirstSign, Sign, SignMeans
<1>5. a = "!" => first = "NE" /\ SignMeans(a) = {"less", "greater"}
  BY <1>1 DEF FirstSign, Sign, SignMeans
<1>6. a = "=" \/ a \in {">", "."} \/ a \in {"<", ","} \/ a = "!"
  BY DEF Sign
<1>7. Means(<<a, b>>) = IF a = "!" THEN {"less", "equal", "greater"} \ SignMeans(b)
                        ELSE IF b = "!" THEN {"less", "equal", "greater"} \ SignMeans(a)
                        ELSE SignMeans(a) \cup SignMeans(b)
  BY DEF Means
<1>8. /\ {"LE", "EQ", "GE", "NE"} \subseteq DOMAIN Sides
      /\ Sides["LE"] = {"less", "equal"} /\ Sides["EQ"] = {"equal"}
      /\ Sides["GE"] = {"equal", "greater"} /\ Sides["NE"] = {"less", "greater"}
  BY DEF Sides
<1>9. CASE b = "="
  <2>0. SignMeans(b) = {"equal"}
    BY <1>9 DEF SignMeans
  <2>1. SecondSign[b] = [EQ |-> "EQ", GT |-> "GE", LT |-> "LE", NE |-> "NE", OPT |-> "OPT"]
    BY <1>9 DEF SecondSign, Sign
  <2>2. CASE a = "="
    <3>1. first = "EQ" /\ SignMeans(a) = {"equal"}
      BY <1>2, <2>2
    <3>2. SecondSign[b][first] = "EQ"
      BY <2>1, <3>1
    <3>3. Means(<<a, b>>) = {"equal"}
      BY <1>7, <1>9, <2>2, <2>0, <3>1
    <3>4. QED
      BY <1>1, <1>8, <3>2, <3>3
  <2>3. CASE a \in {">", "."}
    <3>1. first = "GT" /\ SignMeans(a) = {"greater"}
      BY <1>3, <2>3
    <3>2. SecondSign[b][first] = "GE"
      BY <2>1, <3>1
    <3>3. Means(<<a, b>>) = {"equal", "greater"}
      BY <1>7, <1>9, <2>3, <2>0, <3>1
    <3>4. QED
      BY <1>1, <1>8, <3>2, <3>3
  <2>4. CASE a \in {"<", ","}
    <3>1. first = "LT" /\ SignMeans(a) = {"less"}
      BY <1>4, <2>4
    <3>2. SecondSign[b][first] = "LE"
      BY <2>1, <3>1
    <3>3. Means(<<a, b>>) = {"less", "equal"}
      BY <1>7, <1>9, <2>4, <2>0, <3>1
    <3>4. QED
      BY <1>1, <1>8, <3>2, <3>3
  <2>5. CASE a = "!"
    <3>1. first = "NE" /\ SignMeans(a) = {"less", "greater"}
      BY <1>5, <2>5
    <3>2. SecondSign[b][first] = "NE"
      BY <2>1, <3>1
    <3>3. Means(<<a, b>>) = {"less", "greater"}
      BY <1>7, <1>9, <2>5, <2>0, <3>1
    <3>4. QED
      BY <1>1, <1>8, <3>2, <3>3
  <2>6. QED
    BY <1>6, <2>2, <2>3, <2>4, <2>5
<1>10. CASE b \in {">", "."}
  <2>0. SignMeans(b) = {"greater"}
    BY <1>10 DEF SignMeans
  <2>1. SecondSign[b] = [EQ |-> "GE", NE |-> "LE"]
    BY <1>10 DEF SecondSign, Sign
  <2>2. CASE a = "="
    <3>1. first = "EQ" /\ SignMeans(a) = {"equal"}
      BY <1>2, <2>2
    <3>2. SecondSign[b][first] = "GE"
      BY <2>1, <3>1
    <3>3. Means(<<a, b>>) = {"equal", "greater"}
      BY <1>7, <1>10, <2>2, <2>0, <3>1
    <3>4. QED
      BY <1>1, <1>8, <3>2, <3>3
  <2>3. ~(a \in {">", "."})
    BY <1>1, <1>3, <2>1
  <2>4. ~(a \in {"<", ","})
    BY <1>1, <1>4, <2>1
  <2>5. CASE a = "!"
    <3>1. first = "NE" /\ SignMeans(a) = {"less", "greater"}
      BY <1>5, <2>5
    <3>2. SecondSign[b][first] = "LE"
      BY <2>1, <3>1
    <3>3. Means(<<a, b>>) = {"less", "equal"}
      BY <1>7, <1>10, <2>5, <2>0, <3>1
    <3>4. QED
      BY <1>1, <1>8, <3>2, <3>3
  <2>6. QED
    BY <1>6, <2>2, <2>3, <2>4, <2>5
<1>11. CASE b \in {"<", ","}
  <2>0. SignMeans(b) = {"less"}
    BY <1>11 DEF SignMeans
  <2>1. SecondSign[b] = [EQ |-> "LE", NE |-> "GE"]
    BY <1>11 DEF SecondSign, Sign
  <2>2. CASE a = "="
    <3>1. first = "EQ" /\ SignMeans(a) = {"equal"}
      BY <1>2, <2>2
    <3>2. SecondSign[b][first] = "LE"
      BY <2>1, <3>1
    <3>3. Means(<<a, b>>) = {"less", "equal"}
      BY <1>7, <1>11, <2>2, <2>0, <3>1
    <3>4. QED
      BY <1>1, <1>8, <3>2, <3>3
  <2>3. ~(a \in {">", "."})
    BY <1>1, <1>3, <2>1
  <2>4. ~(a \in {"<", ","})
    BY <1>1, <1>4, <2>1
  <2>5. CASE a = "!"
    <3>1. first = "NE" /\ SignMeans(a) = {"less", "greater"}
      BY <1>5, <2>5
    <3>2. SecondSign[b][first] = "GE"
      BY <2>1, <3>1
    <3>3. Means(<<a, b>>) = {"equal", "greater"}
      BY <1>7, <1>11, <2>5, <2>0, <3>1
    <3>4. QED
      BY <1>1, <1>8, <3>2, <3>3
  <2>6. QED
    BY <1>6, <2>2, <2>3, <2>4, <2>5
<1>12. CASE b = "!"
  <2>0. SignMeans(b) = {"less", "greater"}
    BY <1>12 DEF SignMeans
  <2>1. SecondSign[b] = [EQ |-> "NE", NE |-> "EQ", LT |-> "GE", GT |-> "LE"]
    BY <1>12 DEF SecondSign, Sign
  <2>2. CASE a = "="
    <3>1. first = "EQ" /\ SignMeans(a) = {"equal"}
      BY <1>2, <2>2
    <3>2. SecondSign[b][first] = "NE"
      BY <2>1, <3>1
    <3>3. Means(<<a, b>>) = {"less", "greater"}
      BY <1>7, <1>12, <2>2, <2>0, <3>1
    <3>4. QED
      BY <1>1, <1>8, <3>2, <3>3
  <2>3. CASE a \in {">", "."}
    <3>1. first = "GT" /\ SignMeans(a) = {"greater"}
      BY <1>3, <2>3
    <3>2. SecondSign[b][first] = "LE"
      BY <2>1, <3>1
    <3>3. Means(<<a, b>>) = {"less", "equal"}
      BY <1>7, <1>12, <2>3, <2>0, <3>1
    <3>4. QED
      BY <1>1, <1>8, <3>2, <3>3
  <2>4. CASE a \in {"<", ","}
    <3>1. first = "LT" /\ SignMeans(a) = {"less"}
      BY <1>4, <2>4
    <3>2. SecondSign[b][first] = "GE"
      BY <2>1, <3>1
    <3>3. Means(<<a, b>>) = {"equal", "greater"}
      BY <1>7, <1>12, <2>4, <2>0, <3>1
    <3>4. QED
      BY <1>1, <1>8, <3>2, <3>3
  <2>5. CASE a = "!"
    <3>1. first = "NE" /\ SignMeans(a) = {"less", "greater"}
      BY <1>5, <2>5
    <3>2. SecondSign[b][first] = "EQ"
      BY <2>1, <3>1
    <3>3. Means(<<a, b>>) = {"equal"}
      BY <1>7, <1>12, <2>5, <2>0, <3>1
    <3>4. QED
      BY <1>1, <1>8, <3>2, <3>3
  <2>6. QED
    BY <1>6, <2>2, <2>3, <2>4, <2>5
<1>13. QED
  BY <1>9, <1>10, <1>11, <1>12 DEF Sign

(* The comparison of a word keeps what its signs mean, or there is none to *)
(* keep anything: without a sign, and with a question mark.                *)
LEMMA ComparisonMeans ==
    ASSUME NEW signs \in Seq(Sign), Len(signs) <= 2, GetCmp(signs) # "ERR"
    PROVE  \/ signs = <<>> /\ GetCmp(signs) = "NONE"
           \/ "?" \in ToSet(signs) /\ GetCmp(signs) = "OPT"
           \/ /\ signs # <<>> /\ "?" \notin ToSet(signs)
              /\ GetCmp(signs) \in DOMAIN Sides /\ Means(signs) = Sides[GetCmp(signs)]
<1>1. signs = <<>> \/ Len(signs) = 1 \/ Len(signs) = 2
  <2>1. PICK n : n = Len(signs) /\ n \in Nat
    OBVIOUS
  <2>2. n \in {0, 1, 2}
    BY <2>1
  <2>3. Len(signs) = 0 => signs = <<>>
    OBVIOUS
  <2>4. QED
    BY <2>1, <2>2, <2>3
<1>2. CASE signs = <<>>
  BY <1>2 DEF GetCmp
<1>3. CASE Len(signs) = 1
  <2>1. PICK a \in Sign : signs = <<a>> /\ ToSet(signs) = {a}
    <3>1. signs = <<signs[1]>> /\ signs[1] \in Sign /\ DOMAIN signs = 1 .. 1
      BY <1>3
    <3>2. ToSet(signs) = {signs[1]}
      BY <3>1 DEF ToSet
    <3>3. QED
      BY <3>1, <3>2
  <2>2. signs # <<>> /\ GetCmp(signs) = FirstSign[a]
    BY <1>3, <2>1 DEF GetCmp
  <2>3. a = "?" => FirstSign[a] = "OPT"
    BY DEF FirstSign, Sign
  <2>4. QED
    BY <2>1, <2>2, <2>3, OneSignMeans
<1>4. CASE Len(signs) = 2
  <2>1. PICK a \in Sign, b \in Sign : signs = <<a, b>> /\ ToSet(signs) = {a, b}
    <3>1. /\ signs = <<signs[1], signs[2]>> /\ signs[1] \in Sign /\ signs[2] \in Sign
          /\ DOMAIN signs = 1 .. 2
      BY <1>4
    <3>2. 1 .. 2 = {1, 2}
      OBVIOUS
    <3>3. ToSet(signs) = {signs[1], signs[2]}
      BY <3>1, <3>2 DEF ToSet
    <3>4. QED
      BY <3>1, <3>3
  <2>2. PICK first : first = FirstSign[a]
    OBVIOUS
  <2>3. /\ signs # <<>> /\ first \in DOMAIN SecondSign[b]
        /\ GetCmp(signs) = SecondSign[b][first]
    BY <1>4, <2>1, <2>2 DEF GetCmp
  <2>4. CASE a = "?"
    <3>1. first = "OPT"
      BY <2>2, <2>4 DEF FirstSign, Sign
    <3>2. CASE b = "="
      <4>1. SecondSign[b] = [EQ |-> "EQ", GT |-> "GE", LT |-> "LE", NE |-> "NE", OPT |-> "OPT"]
        BY <3>2 DEF SecondSign, Sign
      <4>2. QED
        BY <2>1, <2>3, <2>4, <3>1, <4>1
    <3>3. CASE b # "="
      <4>1. "OPT" \notin DOMAIN SecondSign[b]
        <5>1. CASE b = "?"
          <6>1. SecondSign[b] = [EQ |-> "OPT"]
            BY <5>1 DEF SecondSign, Sign
          <6>2. QED
            BY <6>1
        <5>2. CASE b \in {">", "."}
          <6>1. SecondSign[b] = [EQ |-> "GE", NE |-> "LE"]
            BY <5>2 DEF SecondSign, Sign
          <6>2. QED
            BY <6>1
        <5>3. CASE b \in {"<", ","}
          <6>1. SecondSign[b] = [EQ |-> "LE", NE |-> "GE"]
            BY <5>3 DEF SecondSign, Sign
          <6>2. QED
            BY <6>1
        <5>4. CASE b = "!"
          <6>1. SecondSign[b] = [EQ |-> "NE", NE |-> "EQ", LT |-> "GE", GT |-> "LE"]
            BY <5>4 DEF SecondSign, Sign
          <6>2. QED
            BY <6>1
        <5>5. QED
          BY <3>3, <5>1, <5>2, <5>3, <5>4 DEF Sign
      <4>2. QED
        BY <2>3, <3>1, <4>1
    <3>4. QED
      BY <3>2, <3>3
  <2>5. CASE b = "?"
    <3>1. SecondSign[b] = [EQ |-> "OPT"]
      BY <2>5 DEF SecondSign, Sign
    <3>2. first = "EQ"
      BY <2>3, <3>1
    <3>3. QED
      BY <2>1, <2>3, <2>5, <3>1, <3>2
  <2>6. CASE a # "?" /\ b # "?"
    <3>1. a \in Sign \ {"?"} /\ b \in Sign \ {"?"} /\ FirstSign[a] \in DOMAIN SecondSign[b]
      BY <2>2, <2>3, <2>6
    <3>2. /\ SecondSign[b][FirstSign[a]] \in DOMAIN Sides
          /\ Means(<<a, b>>) = Sides[SecondSign[b][FirstSign[a]]]
      BY <3>1, TwoSignsMean
    <3>3. QED
      BY <2>1, <2>2, <2>3, <2>6, <3>2
  <2>7. QED
    BY <2>4, <2>5, <2>6
<1>5. QED
  BY <1>1, <1>2, <1>3, <1>4

-----------------------------------------------------------------------------
(* The comparison of texts                                                 *)

(* Every character has a code.                                             *)
LEMMA CodesAreNumbers == \A c \in Character \cup {"nul"} : Code(c) \in Int
<1> TAKE c \in Character \cup {"nul"}
<1>1. CASE c \in Digit
  <2>1. Code(c) = 48 + DigitValue[c]
    BY <1>1 DEF Code, Name, CmdQuals, Digit, DigitValue
  <2>2. QED
    BY <1>1, <2>1, DigitsCount
<1>2. CASE c \in Name
  <2>1. c \notin {"blank", "\"", "'"}
    BY <1>2 DEF Name, CmdQuals
  <2>2. c \notin Digit \cup {"x", "soh", "nul", "!", ",", ".", "<", "=", ">", "?"}
    BY <1>2 DEF Name, CmdQuals, Digit, DigitValue
  <2>3. Code(c) = 47
    BY <1>2, <2>1, <2>2 DEF Code
  <2>4. QED
    BY <2>3
<1>3. CASE c \in {"blank", "\"", "'", "x", "nul"}
  <2>1. c \notin Name \cup Digit
    BY <1>3 DEF Name, CmdQuals, Digit, DigitValue
  <2>2. CASE c = "blank"
    BY <2>1, <2>2 DEF Code
  <2>3. CASE c = "\""
    <3>1. c # "blank"
      BY <2>3
    <3>2. Code(c) = 34
      BY <2>1, <2>3, <3>1 DEF Code
    <3>3. QED
      BY <3>2
  <2>4. CASE c = "'"
    BY <2>1, <2>4 DEF Code
  <2>5. CASE c = "x"
    BY <2>1, <2>5 DEF Code
  <2>6. CASE c = "nul"
    BY <2>1, <2>6 DEF Code
  <2>7. QED
    BY <1>3, <2>2, <2>3, <2>4, <2>5, <2>6
<1>4. QED
  BY <1>1, <1>2, <1>3 DEF Character, Quote

(* Two texts are equal if the other two are.                               *)
LEMMA EqualBothWays ==
    ASSUME NEW u \in Seq(Character), NEW v \in Seq(Character)
    PROVE  (TextCmp(u, v) = 0) <=> (TextCmp(v, u) = 0)
<1>0. ASSUME NEW a \in Seq(Character), NEW k
      PROVE  Code(At(a, k)) \in Int
  <2>1. At(a, k) \in Character \cup {"nul"}
    BY DEF At
  <2>2. QED
    BY <2>1, CodesAreNumbers
<1>1. ASSUME NEW a \in Seq(Character), NEW b \in Seq(Character)
      PROVE  (TextCmp(a, b) = 0) <=>
             \A k \in 1 .. Max({Len(a), Len(b)}) : Code(At(a, k)) = Code(At(b, k))
  <2>1. PICK differ : differ = {k \in 1 .. Max({Len(a), Len(b)}) : Code(At(a, k)) # Code(At(b, k))}
    OBVIOUS
  <2>2. TextCmp(a, b) = IF differ = {} THEN 0
                        ELSE Code(At(a, Min(differ))) - Code(At(b, Min(differ)))
    BY <2>1 DEF TextCmp
  <2>3. CASE differ = {}
    BY <2>1, <2>2, <2>3
  <2>4. CASE differ # {}
    <3>1. differ \in SUBSET Nat
      BY <2>1
    <3>2. Min(differ) \in differ
      BY <2>4, <3>1, LeastNumber
    <3>3. PICK m : m = Min(differ)
      OBVIOUS
    <3>4. Code(At(a, m)) # Code(At(b, m)) /\ Code(At(a, m)) \in Int /\ Code(At(b, m)) \in Int
      BY <1>0, <2>1, <3>2, <3>3
    <3>5. Code(At(a, m)) - Code(At(b, m)) # 0
      BY <3>4
    <3>6. QED
      BY <2>1, <2>2, <2>4, <3>2, <3>3, <3>5
  <2>5. QED
    BY <2>3, <2>4
<1>2. {Len(u), Len(v)} = {Len(v), Len(u)}
  OBVIOUS
<1>3. QED
  BY <1>1, <1>2

(* What is left of a text without its blanks is a text.                    *)
LEMMA TrimIsText ==
    ASSUME NEW X, NEW v \in Seq(X)
    PROVE  Trim(v) \in Seq(X)
<1>1. PICK k \in 0 .. Len(v) : RTrim(v) = SubSeq(v, 1, k)
  BY RTrimEnds
<1>2. PICK r : r = SubSeq(v, 1, k)
  OBVIOUS
<1>3. r \in Seq(X) /\ Len(r) \in Nat
  BY <1>2
<1>4. PICK q : q = Skip(r, 1, {"blank"})
  OBVIOUS
<1>5. q \in Nat \ {0} /\ q <= Len(r) + 1
  <2>1. 1 \in Nat \ {0} /\ 1 <= Len(r) + 1
    BY <1>3
  <2>2. q \in 1 .. Len(r) + 1
    BY <1>3, <1>4, <2>1, SkipEnds
  <2>3. QED
    BY <1>3, <2>2
<1>6. Trim(v) = SubSeq(r, q, Len(r))
  BY <1>1, <1>2, <1>4 DEF Trim, SkipWSpace
<1>7. Len(r) <= Len(r)
  BY <1>3
<1>8. QED
  BY <1>3, <1>5, <1>6, <1>7, PartOf

-----------------------------------------------------------------------------
(* The filters of /report                                                  *)

(* A comparison with nothing or an optional one keeps every row, ...       *)
LEMMA KeepsAll == \A d : Keeps("NONE", d) /\ Keeps("OPT", d)
  BY DEF Keeps

(* ... and asks for every one.                                             *)
LEMMA AsksAll ==
    ASSUME NEW w, NEW r, w.signs = <<>> \/ "?" \in ToSet(w.signs)
    PROVE  Asks(w, r)
  BY DEF Asks

(* The filter on the usage count keeps the volumes that are asked for.     *)
LEMMA UsageAsks ==
    ASSUME NEW w, IsWord(w), w.name = "/usage", NEW q, q.name = "/usage",
           q.cmp = GetCmp(w.signs), q.cmp # "ERR",
           q.cmp # "NONE" => q.val = Number(Trim(w.value)),
           NEW r \in Volumes
    PROVE  FiltcmpUsage(q, r.usage) <=> Asks(w, r)
<1>1. PICK signs : signs = w.signs
  OBVIOUS
<1>2. signs \in Seq(Sign) /\ Len(signs) <= 2 /\ w.value \in Seq(Character)
  BY <1>1 DEF IsWord
<1>3. PICK d : d = r.usage - Number(Trim(w.value))
  OBVIOUS
<1>4. d \in Int
  <2>1. PICK n : n = Number(Trim(w.value))
    OBVIOUS
  <2>2. n \in Nat
    BY <1>2, <2>1, TrimIsText, NumbersAreNatural
  <2>3. r.usage \in Nat
    BY CommandLineAssumption
  <2>4. PICK u : u = r.usage
    OBVIOUS
  <2>5. u - n \in Int
    BY <2>2, <2>3, <2>4
  <2>6. QED
    BY <1>3, <2>1, <2>4, <2>5
<1>5. \/ signs = <<>> /\ q.cmp = "NONE"
      \/ "?" \in ToSet(signs) /\ q.cmp = "OPT"
      \/ /\ signs # <<>> /\ "?" \notin ToSet(signs)
         /\ q.cmp \in DOMAIN Sides /\ Means(signs) = Sides[q.cmp]
  BY <1>1, <1>2, ComparisonMeans
<1>6. CASE q.cmp \in {"NONE", "OPT"}
  <2>1. FiltcmpUsage(q, r.usage)
    BY <1>6, KeepsAll DEF FiltcmpUsage
  <2>2. w.signs = <<>> \/ "?" \in ToSet(w.signs)
    <3>1. "NONE" \notin DOMAIN Sides /\ "OPT" \notin DOMAIN Sides
      BY DEF Sides
    <3>2. QED
      BY <1>1, <1>5, <1>6, <3>1
  <2>3. QED
    BY <2>1, <2>2, AsksAll
<1>7. CASE q.cmp \notin {"NONE", "OPT"}
  <2>1. /\ signs # <<>> /\ "?" \notin ToSet(signs)
        /\ q.cmp \in DOMAIN Sides /\ Means(signs) = Sides[q.cmp]
    BY <1>5, <1>7
  <2>2. FiltcmpUsage(q, r.usage) <=> Keeps(q.cmp, d)
    BY <1>3, <1>7 DEF FiltcmpUsage
  <2>3. Asks(w, r) <=> Side(d) \in Means(signs)
    BY <1>1, <1>3, <2>1 DEF Asks, Side
  <2>4. Keeps(q.cmp, d) <=> Side(d) \in Sides[q.cmp]
    BY <1>4, <2>1, KeepsSides
  <2>5. QED
    BY <2>1, <2>2, <2>3, <2>4
<1>8. QED
  BY <1>6, <1>7

(* So does a filter on the group that asks for equal or for other ones.    *)
LEMMA GroupAsks ==
    ASSUME NEW w, IsWord(w), w.name = "/group", NEW q,
           q.cmp = GetCmp(w.signs), q.cmp \in {"EQ", "NE", "OPT"}, q.val = Trim(w.value),
           NEW r \in Volumes
    PROVE  FiltcmpGroup(q, r.group) <=> Asks(w, r)
<1>1. PICK signs : signs = w.signs
  OBVIOUS
<1>2. signs \in Seq(Sign) /\ Len(signs) <= 2 /\ w.value \in Seq(Character)
  BY <1>1 DEF IsWord
<1>3. PICK t, g : t = Trim(w.value) /\ g = r.group
  OBVIOUS
<1>4. t \in Seq(Character) /\ g \in Seq(Character)
  <2>1. t \in Seq(Character)
    BY <1>2, <1>3, TrimIsText
  <2>2. g \in Seq(Digit \cup {"x"})
    BY <1>3, CommandLineAssumption
  <2>3. Digit \cup {"x"} \subseteq Character
    BY DEF Character
  <2>4. QED
    BY <2>1, <2>2, <2>3
<1>5. \/ signs = <<>> /\ q.cmp = "NONE"
      \/ "?" \in ToSet(signs) /\ q.cmp = "OPT"
      \/ /\ signs # <<>> /\ "?" \notin ToSet(signs)
         /\ q.cmp \in DOMAIN Sides /\ Means(signs) = Sides[q.cmp]
  BY <1>1, <1>2, ComparisonMeans
<1>6. CASE q.cmp = "OPT"
  <2>1. FiltcmpGroup(q, r.group)
    BY <1>6, KeepsAll DEF FiltcmpGroup
  <2>2. "OPT" \notin DOMAIN Sides
    BY DEF Sides
  <2>3. "?" \in ToSet(w.signs)
    BY <1>1, <1>5, <1>6, <2>2
  <2>4. QED
    BY <2>1, <2>3, AsksAll
<1>7. CASE q.cmp \in {"EQ", "NE"}
  <2>1. signs # <<>> /\ "?" \notin ToSet(signs) /\ Means(signs) = Sides[q.cmp]
    BY <1>5, <1>7
  <2>2. PICK d : d = TextCmp(g, t)
    OBVIOUS
  <2>3. FiltcmpGroup(q, r.group) <=> Keeps(q.cmp, TextCmp(t, g))
    BY <1>3 DEF FiltcmpGroup
  <2>4. Asks(w, r) <=> Side(d) \in Sides[q.cmp]
    <3>1. w.name # "/usage"
      OBVIOUS
    <3>2. Asks(w, r) <=> Side(d) \in Means(signs)
      BY <1>1, <1>3, <2>1, <2>2, <3>1 DEF Asks, Side
    <3>3. QED
      BY <2>1, <3>2
  <2>5. (TextCmp(t, g) = 0) <=> (d = 0)
    BY <1>4, <2>2, EqualBothWays
  <2>6. ~(0 < 0)
    OBVIOUS
  <2>7. CASE q.cmp = "EQ"
    <3>1. Keeps(q.cmp, TextCmp(t, g)) <=> TextCmp(t, g) = 0
      BY <2>7 DEF Keeps
    <3>2. Side(d) \in Sides[q.cmp] <=> d = 0
      BY <2>6, <2>7 DEF Side, Sides
    <3>3. QED
      BY <2>3, <2>4, <2>5, <3>1, <3>2
  <2>8. CASE q.cmp = "NE"
    <3>1. Keeps(q.cmp, TextCmp(t, g)) <=> TextCmp(t, g) # 0
      BY <2>8 DEF Keeps
    <3>2. Side(d) \in Sides[q.cmp] <=> d # 0
      BY <2>6, <2>8 DEF Side, Sides
    <3>3. QED
      BY <2>3, <2>4, <2>5, <3>1, <3>2
  <2>9. QED
    BY <1>7, <2>7, <2>8
<1>8. QED
  BY <1>6, <1>7

(* The one qualifier of a name is the last, ...                            *)
LEMMA LastOne ==
    ASSUME NEW cmds, Len(cmds) \in Nat, NEW name, NEW k \in 2 .. Len(cmds), cmds[k].name = name,
           \A j \in 2 .. Len(cmds) : cmds[j].name = name => j = k
    PROVE  LastOf(cmds, name) = k
<1>1. {0} \cup {j \in 2 .. Len(cmds) : cmds[j].name = name} = {0, k}
  OBVIOUS
<1>2. 0 \in Nat /\ k \in Nat /\ ~(0 >= k)
  OBVIOUS
<1>3. Max({0, k}) = k
  BY <1>2, OfTwo
<1>4. QED
  BY <1>1, <1>3 DEF LastOf

(* ... and without one there is no last.                                   *)
LEMMA NoneLast ==
    ASSUME NEW cmds, NEW name, \A j \in 2 .. Len(cmds) : cmds[j].name # name
    PROVE  LastOf(cmds, name) = 0
<1>1. {0} \cup {j \in 2 .. Len(cmds) : cmds[j].name = name} = {0, 0}
  OBVIOUS
<1>2. Max({0, 0}) = 0
  BY OfTwo
<1>3. QED
  BY <1>1, <1>2 DEF LastOf

-----------------------------------------------------------------------------
(* The specification                                                       *)

\* What /report has shown: the volumes its filters keep, after modify_vol has had
\* what was parsed.
Showing ==
    phase = "run" /\ chain[1].name = "/report" =>
        \E cmds : /\ cmds = ParseSlashCmd(MkCmdLine(typed)) /\ cmds # <<>>
                  /\ chain = FillUsage(cmds, 0)
                  /\ shown = {r \in Volumes : FilterRec(chain, r)}

\* What is typed is a command and words behind it, what has been parsed is what
\* parseslashcmd makes of it, and modify_vol changes no more than set and val.
Chained ==
    /\ typed \in Seq(Commands \cup Qualifiers) /\ Len(typed) # 0 /\ typed[1] \in Commands
    /\ \A k \in DOMAIN chain : IsCmd(chain[k])
    /\ phase = "parsed" => chain = ParseSlashCmd(MkCmdLine(typed)) /\ chain # <<>>
    /\ Showing
    /\ CommandTypeOK

(* What is typed are words, of which the first is a command.               *)
LEMMA TypedWords ==
    ASSUME Chained
    PROVE  /\ \A k \in 1 .. Len(typed) : IsWord(typed[k])
           /\ CmdQuals[typed[1].name].command
<1>1. typed \in Seq(Commands \cup Qualifiers) /\ typed[1] \in Commands
  BY DEF Chained
<1>2. ASSUME NEW w \in Commands \cup Qualifiers
      PROVE  IsWord(w)
  BY <1>2, CommandLineAssumption DEF IsWord
<1>3. \A k \in 1 .. Len(typed) : typed[k] \in Commands \cup Qualifiers
  BY <1>1
<1>4. CmdQuals[typed[1].name].command
  BY <1>1, CommandLineAssumption
<1>5. QED
  BY <1>2, <1>3, <1>4

(* modify_vol leaves the names and the comparisons alone.                  *)
LEMMA FillKeeps ==
    ASSUME NEW cmds, NEW usage, \A k \in DOMAIN cmds : IsCmd(cmds[k])
    PROVE  LET d == FillUsage(cmds, usage)
           IN  /\ DOMAIN d = DOMAIN cmds
               /\ \A k \in DOMAIN cmds :
                     IsCmd(d[k]) /\ d[k].name = cmds[k].name /\ d[k].cmp = cmds[k].cmp
<1>1. PICK d : d = FillUsage(cmds, usage)
  OBVIOUS
<1>2. CASE d = cmds
  BY <1>1, <1>2
<1>3. CASE d = [cmds EXCEPT ![2].set = TRUE, ![2].val = usage + 1]
  <2>1. DOMAIN d = DOMAIN cmds
    BY <1>3
  <2>2. ASSUME NEW k \in DOMAIN cmds
        PROVE  IsCmd(d[k]) /\ d[k].name = cmds[k].name /\ d[k].cmp = cmds[k].cmp
    <3>1. PICK c : c = cmds[k]
      OBVIOUS
    <3>2. CASE k # 2
      <4>1. d[k] = c
        BY <1>3, <3>1, <3>2
      <4>2. QED
        BY <3>1, <4>1
    <3>3. CASE k = 2
      <4>1. d[k] = [c EXCEPT !.set = TRUE, !.val = usage + 1]
        BY <1>3, <3>1, <3>3
      <4>2. c = [name |-> c.name, cmp |-> c.cmp, set |-> c.set, val |-> c.val]
        BY <3>1 DEF IsCmd
      <4>3. d[k] = [name |-> c.name, cmp |-> c.cmp, set |-> TRUE, val |-> usage + 1]
        BY <4>1, <4>2
      <4>4. d[k].name = c.name /\ d[k].cmp = c.cmp /\ d[k].set = TRUE /\ d[k].val = usage + 1
        BY <4>3
      <4>5. IsCmd(d[k])
        BY <4>3, <4>4 DEF IsCmd
      <4>6. QED
        BY <3>1, <4>4, <4>5
    <3>4. QED
      BY <3>2, <3>3
  <2>3. QED
    BY <1>1, <2>1, <2>2
<1>4. QED
  BY <1>1, <1>2, <1>3 DEF FillUsage

(* It holds at first ...                                                   *)
LEMMA ChainedInit == Init => Chained
<1> SUFFICES ASSUME Init
             PROVE  Chained
  OBVIOUS
<1>1. PICK w \in Commands : typed = <<w>>
  BY DEF Init
<1>2. typed \in Seq(Commands \cup Qualifiers) /\ Len(typed) # 0 /\ typed[1] \in Commands
  BY <1>1
<1>3. phase = "type" /\ chain = <<>> /\ shown = {} /\ DOMAIN chain = {}
  BY DEF Init
<1>4. QED
  BY <1>2, <1>3 DEF Chained, CommandTypeOK, Showing

(* ... and no action breaks it: Parse makes the chain, modify_vol fills it.*)
LEMMA ChainedStep == Chained /\ [Next]_vars => Chained'
<1> SUFFICES ASSUME Chained, [Next]_vars
             PROVE  Chained'
  OBVIOUS
<1>0. /\ typed \in Seq(Commands \cup Qualifiers) /\ Len(typed) # 0 /\ typed[1] \in Commands
      /\ \A k \in DOMAIN chain : IsCmd(chain[k])
      /\ phase = "parsed" => chain = ParseSlashCmd(MkCmdLine(typed)) /\ chain # <<>>
      /\ phase \in {"type", "parsed", "run", "logged", "exited"}
      /\ \A k \in DOMAIN chain :
            /\ chain[k].name \in Name /\ chain[k].cmp \in DOMAIN Signs
            /\ CmdQuals[chain[k].name].command <=> k = 1
      /\ shown \subseteq Volumes
  BY DEF Chained, CommandTypeOK, Showing
<1>1. CASE Type
  <2>1. PICK w \in Qualifiers : typed' = Append(typed, w)
    BY <1>1 DEF Type
  <2>2. typed' \in Seq(Commands \cup Qualifiers) /\ Len(typed') # 0 /\ typed'[1] \in Commands
    BY <1>0, <2>1
  <2>3. phase = "type" /\ UNCHANGED <<phase, chain, shown>>
    BY <1>1 DEF Type
  <2>4. QED
    BY <1>0, <2>2, <2>3 DEF Chained, CommandTypeOK, Showing
<1>2. CASE Parse
  <2>1. /\ chain' = ParseSlashCmd(MkCmdLine(typed)) /\ UNCHANGED <<typed, shown>>
        /\ phase' = IF chain' = <<>> THEN "exited" ELSE "parsed"
    BY <1>2 DEF Parse
  <2>2. CASE chain' = <<>>
    <3>1. phase' = "exited" /\ DOMAIN chain' = {}
      BY <2>1, <2>2
    <3>2. QED
      BY <1>0, <2>1, <3>1 DEF Chained, CommandTypeOK, Showing
  <2>3. CASE chain' # <<>>
    <3>1. (\A k \in 1 .. Len(typed) : IsWord(typed[k])) /\ CmdQuals[typed[1].name].command
      BY TypedWords
    <3>2. \A k \in DOMAIN chain' :
             /\ IsCmd(chain'[k]) /\ chain'[k].name \in Name /\ chain'[k].cmp \in DOMAIN Signs
             /\ CmdQuals[chain'[k].name].command <=> k = 1
      BY <1>0, <2>1, <2>3, <3>1, ParsedLine
    <3>3. phase' = "parsed"
      BY <2>1, <2>3
    <3>4. QED
      BY <1>0, <2>1, <2>3, <3>2, <3>3 DEF Chained, CommandTypeOK, Showing
  <2>4. QED
    BY <2>2, <2>3
<1> DEFINE Fills == /\ phase' \in {"run", "logged", "exited"} /\ UNCHANGED typed
                    /\ chain' = chain \/ \E u : chain' = FillUsage(chain, u)
                    /\ shown' \subseteq Volumes
<1>3. ASSUME Fills, Showing'
      PROVE  Chained'
  <2>1. /\ DOMAIN chain' = DOMAIN chain
        /\ \A k \in DOMAIN chain :
              IsCmd(chain'[k]) /\ chain'[k].name = chain[k].name /\ chain'[k].cmp = chain[k].cmp
    BY <1>0, <1>3, FillKeeps
  <2>2. QED
    BY <1>0, <1>3, <2>1 DEF Chained, CommandTypeOK
<1>4. CASE Report
  <2>1. Fills
    BY <1>0, <1>4 DEF Report
  <2>2. Showing'
    <3>1. CASE phase' = "exited"
      BY <3>1 DEF Showing
    <3>2. CASE phase' # "exited"
      <4>1. /\ phase = "parsed" /\ chain' = FillUsage(chain, 0) /\ typed' = typed
            /\ shown' = {r \in Volumes : FilterRec(chain', r)}
        BY <1>4, <3>2 DEF Report
      <4>2. PICK cmds : cmds = chain
        OBVIOUS
      <4>3. /\ cmds = ParseSlashCmd(MkCmdLine(typed')) /\ cmds # <<>>
            /\ chain' = FillUsage(cmds, 0)
        BY <1>0, <4>1, <4>2
      <4>4. QED
        BY <4>1, <4>3 DEF Showing
    <3>3. QED
      BY <3>1, <3>2
  <2>3. QED
    BY <1>3, <2>1, <2>2
<1>5. CASE Modify \/ NotFound
  <2>1. Fills /\ phase = "parsed" /\ chain[1].name = "/modify"
    BY <1>0, <1>5 DEF Modify, NotFound
  <2>2. 1 \in DOMAIN chain
    <3>1. (\A k \in 1 .. Len(typed) : IsWord(typed[k])) /\ CmdQuals[typed[1].name].command
      BY TypedWords
    <3>2. DOMAIN chain = 1 .. Len(chain) /\ Len(chain) \in Nat /\ \E k \in DOMAIN chain : k = 1
      BY <1>0, <2>1, <3>1, ParsedLine
    <3>3. QED
      BY <3>2
  <2>3. chain'[1].name = "/modify"
    BY <1>0, <2>1, <2>2, FillKeeps
  <2>4. Showing'
    BY <2>3 DEF Showing
  <2>5. QED
    BY <1>3, <2>1, <2>4
<1>7. CASE LogCmd
  <2>1. phase' = "logged" /\ Fills
    BY <1>0, <1>7 DEF LogCmd
  <2>2. Showing'
    BY <2>1 DEF Showing
  <2>3. QED
    BY <1>3, <2>1, <2>2
<1>8. CASE UNCHANGED vars
  <2>1. UNCHANGED <<typed, phase, chain, shown>>
    BY <1>8 DEF vars
  <2>2. Showing'
    <3>1. Showing
      BY DEF Chained
    <3>2. QED
      BY <2>1, <3>1 DEF Showing
  <2>3. QED
    BY <1>0, <2>1, <2>2 DEF Chained, CommandTypeOK
<1>9. QED
  BY <1>1, <1>2, <1>4, <1>5, <1>7, <1>8 DEF Next

(* So it holds always.                                                     *)
LEMMA AlwaysChained == Spec => []Chained
<1>1. QED
  BY ChainedInit, ChainedStep, PTL DEF Spec

(* What is carried out is one command and the qualifiers behind it, each   *)
(* with a comparison there is: no error is in the chain, and no second     *)
(* command.                                                                *)
THEOREM ChainIsOneCommand == Spec => []CommandTypeOK
<1>1. Chained => CommandTypeOK
  BY DEF Chained
<1>2. QED
  BY <1>1, AlwaysChained, PTL

(* What a shell passes as one word without a quote in it is one command or *)
(* qualifier for blib, with its name and all of its value: blanks, slashes *)
(* and names of other qualifiers in a value never make two of one or one   *)
(* of two, whatever the words and however many.                            *)
THEOREM WordsAreKeptApart == Spec => []WordsStayApart
<1>1. ASSUME Chained
      PROVE  WordsStayApart
  <2>1. SUFFICES ASSUME phase = "parsed", \A k \in DOMAIN typed : ~Quoted(typed[k])
                 PROVE  /\ Len(chain) = Len(typed)
                        /\ \A k \in DOMAIN typed :
                              /\ chain[k].name = typed[k].name
                              /\ chain[k].set =>
                                    chain[k].val = Meant(typed[k].name, Trim(typed[k].value))
    BY DEF WordsStayApart, Meant
  <2>2. /\ typed \in Seq(Commands \cup Qualifiers) /\ Len(typed) # 0
        /\ chain = ParseSlashCmd(MkCmdLine(typed)) /\ chain # <<>>
    BY <1>1, <2>1 DEF Chained
  <2>3. DOMAIN typed = 1 .. Len(typed)
    BY <2>2
  <2>4. \A k \in 1 .. Len(typed) : IsWord(typed[k]) /\ ~Quoted(typed[k])
    BY <1>1, <2>1, <2>3, TypedWords
  <2>5. QED
    BY <2>2, <2>3, <2>4, ParsedApart
<1>2. QED
  BY <1>1, AlwaysChained, PTL

(* modify_vol fills /usage, if it is the first qualifier, and nothing else.*)
LEMMA FillsUsage ==
    ASSUME NEW cmds, Len(cmds) \in Nat, DOMAIN cmds = 1 .. Len(cmds), cmds = [k \in DOMAIN cmds |-> cmds[k]],
           \A k \in DOMAIN cmds : IsCmd(cmds[k]),
           \A k \in 2 .. Len(cmds) : cmds[k].name = "/usage" => k = 2,
           NEW d, d = FillUsage(cmds, 0)
    PROVE  /\ Len(d) = Len(cmds)
           /\ \A k \in 2 .. Len(cmds) : /\ d[k].name = cmds[k].name /\ d[k].cmp = cmds[k].cmp
                                        /\ d[k] = cmds[k] \/ (d[k].name = "/usage" /\ ~cmds[k].set)
<1>1. CASE LastOf(cmds, "/usage") # 0 /\ ~cmds[2].set
  <2>1. PICK j \in 2 .. Len(cmds) : cmds[j].name = "/usage"
    BY <1>1, NoneLast
  <2>2. 2 \in DOMAIN cmds /\ cmds[2].name = "/usage"
    BY <2>1
  <2>3. d = [cmds EXCEPT ![2].set = TRUE, ![2].val = 0 + 1]
    BY <1>1 DEF FillUsage
  <2>4. /\ DOMAIN d = 1 .. Len(cmds)
        /\ \A k \in DOMAIN cmds : k # 2 => d[k] = cmds[k]
    BY <2>3
  <2>5. Len(d) = Len(cmds)
    BY <2>4
  <2>6. \A k \in 2 .. Len(cmds) : d[k].name = cmds[k].name /\ d[k].cmp = cmds[k].cmp
    BY FillKeeps
  <2>7. QED
    BY <1>1, <2>2, <2>4, <2>5, <2>6
<1>2. CASE ~(LastOf(cmds, "/usage") # 0 /\ ~cmds[2].set)
  <2>1. d = cmds
    BY <1>2 DEF FillUsage
  <2>2. QED
    BY <2>1
<1>3. QED
  BY <1>1, <1>2

(* /report shows the volumes that every filter asks for, if there is one   *)
(* filter of a kind, /usage is the first and a text is only compared for   *)
(* being equal or not: whatever the words, the volumes and the comparison  *)
(* of the usage count.                                                     *)
THEOREM ReportsAreRightInOrder == Spec => []ReportIsRightInOrder
<1>1. ASSUME Chained
      PROVE  ReportIsRightInOrder
  <2> SUFFICES ASSUME Reporting,
                      \A j, k \in 2 .. Len(typed) : typed[j].name = typed[k].name => j = k,
                      \A k \in 2 .. Len(typed) :
                         IF typed[k].name = "/usage" THEN k = 2 ELSE chain[k].cmp \in {"EQ", "NE", "OPT"}
               PROVE  ShowsWhatIsAsked
    BY DEF ReportIsRightInOrder
  <2>1. PICK cmds : /\ cmds = ParseSlashCmd(MkCmdLine(typed)) /\ cmds # <<>>
                    /\ chain = FillUsage(cmds, 0)
                    /\ shown = {r \in Volumes : FilterRec(chain, r)}
    BY <1>1 DEF Reporting, Chained, Showing
  <2>2. PICK X, N : X = Commands \cup Qualifiers /\ N = Len(typed)
    OBVIOUS
  <2>3. typed \in Seq(X) /\ N \in Nat \ {0} /\ DOMAIN typed = 1 .. N
    BY <1>1, <2>2 DEF Chained
  <2>4. /\ \A k \in 1 .. N : IsWord(typed[k]) /\ ~Quoted(typed[k])
        /\ CmdQuals[typed[1].name].command
    BY <1>1, <2>2, <2>3, TypedWords DEF Reporting
  <2>5. /\ Len(cmds) = N
        /\ \A k \in 1 .. N :
              /\ cmds[k].name = typed[k].name /\ cmds[k].cmp = GetCmp(typed[k].signs)
              /\ cmds[k].set => cmds[k].val = Meant(typed[k].name, Trim(typed[k].value))
              /\ cmds[k].set = (cmds[k].cmp # "NONE")
    BY <2>1, <2>2, <2>3, <2>4, ParsedApart
  <2>6. /\ DOMAIN cmds = 1 .. N
        /\ \A k \in DOMAIN cmds :
              /\ IsCmd(cmds[k]) /\ cmds[k].name \in Name /\ cmds[k].cmp \in DOMAIN Signs
              /\ CmdQuals[cmds[k].name].command <=> k = 1
    BY <2>1, <2>2, <2>3, <2>4, <2>5, ParsedLine
  <2>7. cmds = [k \in DOMAIN cmds |-> cmds[k]]
    <3>1. PICK s : s = MkCmdLine(typed)
      OBVIOUS
    <3>2. s \in Seq(Char)
      BY <2>2, <2>3, <2>4, <3>1, LineOfWords DEF AllLaid
    <3>3. PICK Y : cmds \in Seq(Y)
      BY <2>1, <3>1, <3>2, ParsedIsSeq
    <3>4. QED
      BY <3>3
  <2>8. \A k \in 2 .. N : cmds[k].name \in {"/group", "/usage"} /\ cmds[k].cmp # "ERR"
    <3> TAKE k \in 2 .. N
    <3>1. k \in DOMAIN cmds /\ k # 1 /\ k \in 1 .. N
      BY <2>6
    <3>2. cmds[k].name \in Name /\ ~CmdQuals[cmds[k].name].command /\ cmds[k].cmp \in DOMAIN Signs
      BY <2>6, <3>1
    <3>3. QED
      BY <3>2 DEF Name, CmdQuals, Signs
  <2>9. /\ Len(chain) = N
        /\ \A k \in 2 .. N : /\ chain[k].name = cmds[k].name /\ chain[k].cmp = cmds[k].cmp
                             /\ chain[k] = cmds[k] \/ (chain[k].name = "/usage" /\ ~cmds[k].set)
    <3>1. \A k \in 2 .. N : cmds[k].name = "/usage" => k = 2
      BY <2>2, <2>3, <2>5
    <3>2. Len(cmds) \in Nat /\ DOMAIN cmds = 1 .. Len(cmds) /\ \A k \in DOMAIN cmds : IsCmd(cmds[k])
      BY <2>3, <2>5, <2>6
    <3>3. QED
      BY <2>1, <2>5, <2>7, <3>1, <3>2, FillsUsage
  <2>10. ASSUME NEW r \in Volumes, NEW k \in 2 .. N
         PROVE  IF chain[k].name = "/usage" THEN k = 2 /\ (FiltcmpUsage(chain[k], r.usage) <=> Asks(typed[k], r))
                ELSE FiltcmpGroup(chain[k], r.group) <=> Asks(typed[k], r)
    <3>1. PICK w, q, c : w = typed[k] /\ q = chain[k] /\ c = cmds[k]
      OBVIOUS
    <3>2. k \in 1 .. N
      OBVIOUS
    <3>3. /\ IsWord(w) /\ c.name = w.name /\ c.cmp = GetCmp(w.signs)
          /\ c.set => c.val = Meant(w.name, Trim(w.value))
          /\ c.set = (c.cmp # "NONE")
          /\ q.name = w.name /\ q.name \in {"/group", "/usage"} /\ q.cmp = c.cmp /\ q.cmp # "ERR"
          /\ q = c \/ (q.name = "/usage" /\ ~c.set)
      BY <2>4, <2>5, <2>8, <2>9, <3>1, <3>2
    <3>4. CASE q.name = "/usage"
      <4>1. q.cmp # "NONE" => q.val = Number(Trim(w.value))
        BY <3>3, <3>4 DEF Meant
      <4>2. FiltcmpUsage(q, r.usage) <=> Asks(w, r)
        BY <3>3, <3>4, <4>1, UsageAsks
      <4>3. k = 2
        BY <2>2, <3>1, <3>3, <3>4
      <4>4. QED
        BY <3>1, <3>4, <4>2, <4>3
    <3>5. CASE q.name = "/group"
      <4>1. q = c /\ w.name = "/group"
        BY <3>3, <3>5
      <4>2. q.cmp \in {"EQ", "NE", "OPT"}
        BY <2>2, <3>1, <4>1
      <4>3. q.val = Trim(w.value)
        BY <3>3, <4>1, <4>2 DEF Meant
      <4>4. FiltcmpGroup(q, r.group) <=> Asks(w, r)
        BY <3>3, <4>1, <4>2, <4>3, GroupAsks
      <4>5. QED
        BY <3>1, <3>5, <4>4
    <3>6. QED
      BY <3>3, <3>4, <3>5
  <2>11. ASSUME NEW name \in {"/group", "/usage"}
         PROVE  \/ LastOf(chain, name) = 0 /\ \A k \in 2 .. N : chain[k].name # name
                \/ \E k \in 2 .. N : LastOf(chain, name) = k /\ chain[k].name = name
    <3>1. CASE \A k \in 2 .. N : chain[k].name # name
      BY <2>9, <3>1, NoneLast
    <3>2. CASE \E k \in 2 .. N : chain[k].name = name
      <4>1. PICK k \in 2 .. N : chain[k].name = name
        BY <3>2
      <4>2. ASSUME NEW j \in 2 .. N, chain[j].name = name
            PROVE  j = k
        <5>1. j \in 1 .. N /\ k \in 1 .. N
          OBVIOUS
        <5>2. typed[j].name = name /\ typed[k].name = name
          BY <2>5, <2>9, <4>1, <4>2, <5>1
        <5>3. QED
          BY <2>2, <5>2
      <4>3. Len(chain) \in Nat /\ k \in 2 .. Len(chain)
        BY <2>3, <2>9
      <4>4. LastOf(chain, name) = k
        BY <2>9, <4>1, <4>2, <4>3, LastOne
      <4>5. QED
        BY <4>1, <4>4
    <3>3. QED
      BY <3>1, <3>2
  <2>12. ASSUME NEW r \in Volumes
         PROVE  FilterRec(chain, r) <=> \A k \in 2 .. N : Asks(typed[k], r)
    <3>1. ASSUME FilterRec(chain, r), NEW k \in 2 .. N
          PROVE  Asks(typed[k], r)
      <4>1. CASE chain[k].name = "/usage"
        <5>1. LastOf(chain, "/usage") # 0
          BY <2>11, <4>1
        <5>2. FiltcmpUsage(chain[2], r.usage)
          BY <3>1, <5>1 DEF FilterRec
        <5>3. QED
          BY <2>10, <4>1, <5>2
      <4>2. CASE chain[k].name = "/group"
        <5>1. PICK j \in 2 .. N : LastOf(chain, "/group") = j /\ chain[j].name = "/group"
          BY <2>11, <4>2
        <5>2. j = k
          <6>1. j \in 1 .. N /\ k \in 1 .. N
            OBVIOUS
          <6>2. typed[j].name = typed[k].name
            BY <2>5, <2>9, <4>2, <5>1, <6>1
          <6>3. QED
            BY <2>2, <6>2
        <5>3. FiltcmpGroup(chain[k], r.group)
          BY <3>1, <5>1, <5>2 DEF FilterRec
        <5>4. QED
          BY <2>10, <4>2, <5>3
      <4>3. QED
        BY <2>8, <2>9, <4>1, <4>2
    <3>2. ASSUME \A k \in 2 .. N : Asks(typed[k], r)
          PROVE  FilterRec(chain, r)
      <4>1. ASSUME LastOf(chain, "/group") # 0
            PROVE  FiltcmpGroup(chain[LastOf(chain, "/group")], r.group)
        <5>1. PICK j \in 2 .. N : LastOf(chain, "/group") = j /\ chain[j].name = "/group"
          BY <2>11, <4>1
        <5>2. FiltcmpGroup(chain[j], r.group)
          BY <2>10, <3>2, <5>1
        <5>3. QED
          BY <5>1, <5>2
      <4>2. ASSUME LastOf(chain, "/usage") # 0
            PROVE  FiltcmpUsage(chain[2], r.usage)
        <5>1. PICK j \in 2 .. N : LastOf(chain, "/usage") = j /\ chain[j].name = "/usage"
          BY <2>11, <4>2
        <5>2. j = 2 /\ FiltcmpUsage(chain[j], r.usage)
          BY <2>10, <3>2, <5>1
        <5>3. QED
          BY <5>2
      <4>3. QED
        BY <4>1, <4>2 DEF FilterRec
    <3>3. QED
      BY <3>1, <3>2
  <2>13. QED
    BY <2>1, <2>2, <2>12 DEF ShowsWhatIsAsked
<1>2. QED
  BY <1>1, AlwaysChained, PTL

-----------------------------------------------------------------------------
(* What display_cmd writes, read again                                     *)

(* The signs display_cmd writes for a comparison are read as it.           *)
LEMMA SignsRead ==
    ASSUME NEW cmp \in DOMAIN Signs \ {"NONE", "OPT"}
    PROVE  /\ Signs[cmp] \in Seq(Sign) /\ Len(Signs[cmp]) \in {1, 2}
           /\ Signs[cmp][1] \in Sign \ {"?"} /\ GetCmp(Signs[cmp]) = cmp
<1>1. \A a, b \in Sign : /\ <<a>> \in Seq(Sign) /\ Len(<<a>>) = 1 /\ <<a>> # <<>> /\ <<a>>[1] = a
                         /\ <<a, b>> \in Seq(Sign) /\ Len(<<a, b>>) = 2 /\ <<a, b>> # <<>>
                         /\ <<a, b>>[1] = a /\ <<a, b>>[2] = b
  OBVIOUS
<1>2. {"=", ",", ".", "!"} \subseteq Sign \ {"?"}
  BY DEF Sign
<1>3. ASSUME NEW a \in {"=", ",", ".", "!"}
      PROVE  GetCmp(<<a>>) = FirstSign[a]
  <2>1. PICK sg : sg = <<a>>
    OBVIOUS
  <2>2. Len(sg) = 1 /\ sg # <<>> /\ sg[1] = a
    BY <1>1, <1>2, <2>1
  <2>3. QED
    BY <2>1, <2>2 DEF GetCmp
<1>4. ASSUME NEW a \in {",", ".", "!"}
      PROVE  FirstSign[a] \in DOMAIN SecondSign["="] => GetCmp(<<a, "=">>) = SecondSign["="][FirstSign[a]]
  <2>1. PICK sg : sg = <<a, "=">>
    OBVIOUS
  <2>2. Len(sg) = 2 /\ sg # <<>> /\ sg[1] = a /\ sg[2] = "="
    BY <1>1, <1>2, <2>1
  <2>3. QED
    BY <2>1, <2>2 DEF GetCmp
<1>5. FirstSign["="] = "EQ" /\ FirstSign[","] = "LT" /\ FirstSign["."] = "GT" /\ FirstSign["!"] = "NE"
  BY <1>2 DEF FirstSign
<1>6. SecondSign["="] = [EQ |-> "EQ", GT |-> "GE", LT |-> "LE", NE |-> "NE", OPT |-> "OPT"]
  BY <1>2 DEF SecondSign
<1>7. /\ "LT" \in DOMAIN SecondSign["="] /\ SecondSign["="]["LT"] = "LE"
      /\ "GT" \in DOMAIN SecondSign["="] /\ SecondSign["="]["GT"] = "GE"
      /\ "NE" \in DOMAIN SecondSign["="] /\ SecondSign["="]["NE"] = "NE"
  BY <1>6
<1>8. /\ GetCmp(<<"=">>) = "EQ" /\ GetCmp(<<",">>) = "LT" /\ GetCmp(<<".">>) = "GT"
      /\ GetCmp(<<",", "=">>) = "LE" /\ GetCmp(<<".", "=">>) = "GE" /\ GetCmp(<<"!", "=">>) = "NE"
  BY <1>3, <1>4, <1>5, <1>7
<1>9. PICK sg : sg = Signs[cmp]
  OBVIOUS
<1>0. cmp \in {"EQ", "LT", "GT", "LE", "GE", "NE"}
  BY DEF Signs
<1>10. \/ cmp = "EQ" /\ sg = <<"=">>
       \/ cmp = "LT" /\ sg = <<",">>
       \/ cmp = "GT" /\ sg = <<".">>
       \/ cmp = "LE" /\ sg = <<",", "=">>
       \/ cmp = "GE" /\ sg = <<".", "=">>
       \/ cmp = "NE" /\ sg = <<"!", "=">>
  <2>1. /\ Signs["EQ"] = <<"=">> /\ Signs["LT"] = <<",">> /\ Signs["GT"] = <<".">>
        /\ Signs["LE"] = <<",", "=">> /\ Signs["GE"] = <<".", "=">> /\ Signs["NE"] = <<"!", "=">>
    BY DEF Signs
  <2>2. QED
    BY <1>0, <1>9, <2>1
<1>11. GetCmp(sg) = cmp
  BY <1>8, <1>10
<1>12. sg \in Seq(Sign) /\ Len(sg) \in {1, 2} /\ sg[1] \in Sign \ {"?"}
  <2>1. PICK a \in {"=", ",", ".", "!"}, b \in {"=", ",", ".", "!"} : sg = <<a>> \/ sg = <<a, b>>
    BY <1>10
  <2>2. a \in Sign /\ b \in Sign /\ a \in Sign \ {"?"}
    BY <1>2
  <2>3. CASE sg = <<a>>
    <3>1. sg \in Seq(Sign) /\ Len(sg) = 1 /\ sg[1] = a
      BY <1>1, <2>2, <2>3
    <3>2. Len(sg) \in {1, 2} /\ sg[1] \in Sign \ {"?"}
      BY <2>2, <3>1
    <3>3. QED
      BY <3>1, <3>2
  <2>4. CASE sg = <<a, b>>
    <3>1. sg \in Seq(Sign) /\ Len(sg) = 2 /\ sg[1] = a
      BY <1>1, <2>2, <2>4
    <3>2. Len(sg) \in {1, 2} /\ sg[1] \in Sign \ {"?"}
      BY <2>2, <3>1
    <3>3. QED
      BY <3>1, <3>2
  <2>5. QED
    BY <2>1, <2>3, <2>4
<1>13. QED
  BY <1>9, <1>11, <1>12

\* At p there is a blank, a name, signs and the text of a value, which ends at e.
Printed(s, p, name, sg, body, e) ==
    /\ p \in Nat \ {0} /\ e \in Nat /\ e <= Len(s)
    /\ Len(sg) \in Nat /\ Len(body) \in Nat
    /\ e = p + 1 + Len(sg) + Len(body)
    /\ s[p] = "blank" /\ s[p + 1] = name
    /\ \A j \in 1 .. Len(sg) : s[p + 1 + j] = sg[j]
    /\ \A j \in 1 .. Len(body) : s[p + 1 + Len(sg) + j] = body[j]

\* Behind e there is a blank and a name, or nothing.
NameOrEnd(s, e) == e + 1 <= Len(s) => s[e + 1] = "blank" /\ e + 2 <= Len(s) /\ s[e + 2] \in Name

(* A name is found from the blank before it, or at once.                   *)
LEMMA PrintedName ==
    ASSUME NEW s \in Seq(Char), NEW p \in Nat \ {0}, p + 1 <= Len(s), s[p] = "blank", s[p + 1] \in Name,
           NEW q \in {p, p + 1}, NEW start, NEW f, NEW end, NEW after, NEW m, NEW signs, NEW v,
           Parts(s, q, start, f, end, after, m, signs, v)
    PROVE  /\ At(s, start) \notin Quote /\ f = p + 1 /\ end = 0 /\ At(s, f) = s[p + 1] /\ s[f] = s[p + 1]
           /\ after = SkipWSpace(s, p + 2)
<1>1. Len(s) \in Nat /\ p + 1 \in q .. Len(s) + 1 /\ p + 1 \in DOMAIN s /\ q \in Nat \ {0}
  OBVIOUS
<1>2. s[p + 1] # "blank" /\ s[p + 1] \notin Quote
  BY Kinds
<1>3. Skip(s, q, {"blank"}) = p + 1
  <2>1. \A j \in q .. (p + 1) - 1 : s[j] \in {"blank"}
    <3> TAKE j \in q .. (p + 1) - 1
    <3>1. j = p
      BY <1>1
    <3>2. QED
      BY <3>1
  <2>2. s[p + 1] \notin {"blank"}
    BY <1>2
  <2>3. QED
    BY <1>1, <2>1, <2>2, SkipIs
<1>4. start = p + 1
  BY <1>3 DEF Parts, SkipWSpace
<1>5. At(s, start) = s[p + 1] /\ At(s, start) \notin Quote
  BY <1>1, <1>2, <1>4 DEF At
<1>6. f = p + 1 /\ end = 0
  BY <1>4, <1>5 DEF Parts
<1>7. (p + 1) + 1 = p + 2
  OBVIOUS
<1>8. after = SkipWSpace(s, p + 2)
  BY <1>6, <1>7 DEF Parts
<1>9. QED
  BY <1>4, <1>5, <1>6, <1>8

(* A name without a value is read as one, up to the next.                  *)
LEMMA NameRead ==
    ASSUME NEW s \in Seq(Char), NEW p, NEW name \in Name, Printed(s, p, name, <<>>, <<>>, p + 1),
           NameOrEnd(s, p + 1), NEW q \in {p, p + 1}
    PROVE  LET g == GetCmd(s, q)
           IN  /\ g.cmd = NewCmd(name, "NONE", <<>>)
               /\ g.next = IF p + 2 <= Len(s) THEN p + 3 ELSE p + 2
<1>1. /\ p \in Nat \ {0} /\ p + 1 <= Len(s) /\ s[p] = "blank" /\ s[p + 1] = name /\ s[p + 1] \in Name
      /\ p + 2 \in Nat \ {0} /\ p + 3 \in Nat \ {0} /\ Len(s) \in Nat /\ p + 1 \in Nat \ {0}
      /\ (p + 1) + 1 = p + 2 /\ (p + 1) + 2 = p + 3 /\ DOMAIN s = 1 .. Len(s)
  BY DEF Printed
<1>2. PICK start, f, end, after, m, signs, v :
           /\ Parts(s, q, start, f, end, after, m, signs, v)
           /\ GetCmd(s, q) = Reading(s, start, f, end, after, signs, v)
  BY GetCmdParts
<1>3. /\ At(s, start) \notin Quote /\ f = p + 1 /\ end = 0 /\ At(s, f) = name /\ s[f] = name
      /\ after = SkipWSpace(s, p + 2)
  BY <1>1, <1>2, PrintedName
<1>4. PICK x : x = IF p + 2 <= Len(s) THEN p + 3 ELSE p + 2
  OBVIOUS
<1>5. /\ x \in p + 2 .. Len(s) + 1 /\ x \in Nat \ {0} /\ x <= Len(s) + 1
      /\ \A j \in p + 2 .. x - 1 : s[j] = "blank"
      /\ x <= Len(s) => s[x] \in Name
      /\ At(s, p + 2) \in {"blank", "nul"}
  <2>1. CASE p + 2 <= Len(s)
    <3>1. s[p + 2] = "blank" /\ p + 3 <= Len(s) /\ s[p + 3] \in Name
      BY <1>1, <2>1 DEF NameOrEnd
    <3>2. x = p + 3 /\ p + 2 \in DOMAIN s
      BY <1>1, <1>4, <2>1
    <3>3. At(s, p + 2) = "blank"
      BY <3>1, <3>2 DEF At
    <3>4. \A j \in p + 2 .. x - 1 : j = p + 2
      BY <1>1, <3>2
    <3>5. QED
      BY <1>1, <3>1, <3>2, <3>3, <3>4
  <2>2. CASE ~(p + 2 <= Len(s))
    <3>1. x = p + 2 /\ p + 2 \notin DOMAIN s /\ x = Len(s) + 1
      BY <1>1, <1>4, <2>2
    <3>2. At(s, p + 2) = "nul"
      BY <3>1 DEF At
    <3>3. \A j \in p + 2 .. x - 1 : FALSE
      BY <1>1, <3>1
    <3>4. QED
      BY <1>1, <3>1, <3>2, <3>3
  <2>3. QED
    BY <2>1, <2>2
<1>6. after = x
  <2>1. (\A j \in p + 2 .. x - 1 : s[j] \in {"blank"}) /\ (x <= Len(s) => s[x] \notin {"blank"})
    BY <1>5, Kinds
  <2>2. Skip(s, p + 2, {"blank"}) = x
    BY <1>1, <1>5, <2>1, SkipIs
  <2>3. QED
    BY <1>3, <2>2 DEF SkipWSpace
<1>7. signs = <<>>
  <2>1. x <= Len(s) => s[x] \notin Sign
    BY <1>5, Kinds
  <2>2. x \in x .. Len(s) + 1 /\ \A j \in x .. x - 1 : s[j] \in Sign
    BY <1>5
  <2>3. Skip(s, x, Sign) = x
    BY <1>5, <2>1, <2>2, SkipIs
  <2>4. m = Min({x - 1, x + 1})
    BY <1>2, <1>6, <2>3 DEF Parts
  <2>5. x - 1 \in Nat /\ x + 1 \in Nat /\ x - 1 <= x + 1
    BY <1>5
  <2>6. m = x - 1
    BY <2>4, <2>5, OfTwo
  <2>7. signs = SubSeq(s, x, x - 1)
    BY <1>2, <1>6, <2>6 DEF Parts
  <2>8. QED
    BY <1>5, <2>7
<1>8. GetCmp(signs) = "NONE" /\ Len(signs) = 0
  BY <1>7 DEF GetCmp
<1>9. At(s, f + 1) \in {"blank", "nul"}
  BY <1>1, <1>3, <1>5
<1>10. GetCmd(s, q) = [cmd |-> NewCmd(name, "NONE", <<>>), next |-> Max({after + Len(signs), end + 1})]
  <2>1. At(s, f) # "nul" /\ At(s, f) \in Name
    BY <1>3, Kinds
  <2>2. QED
    BY <1>2, <1>3, <1>8, <1>9, <2>1 DEF Reading
<1>11. Max({after + Len(signs), end + 1}) = x
  <2>1. after + Len(signs) = x /\ end + 1 = 1 /\ x \in Nat /\ 1 \in Nat /\ x >= 1
    BY <1>3, <1>5, <1>6, <1>8
  <2>2. Max({x, 1}) = x
    BY <2>1, OfTwo
  <2>3. QED
    BY <2>1, <2>2
<1>12. QED
  BY <1>4, <1>10, <1>11

(* A part of a text is what the text has there.                            *)
LEMMA PartIs ==
    ASSUME NEW X, NEW s \in Seq(X), NEW Y, NEW t \in Seq(Y), NEW i \in Nat \ {0}, NEW k \in Nat,
           NEW n, n = Len(t), k = i + n - 1, k <= Len(s), \A j \in 1 .. n : s[i + j - 1] = t[j]
    PROVE  SubSeq(s, i, k) = t
<1>1. PICK u : u = SubSeq(s, i, k)
  OBVIOUS
<1>2. n \in Nat /\ i <= k + 1 /\ k - i + 1 = n
  BY <1>1
<1>3. u \in Seq(X) /\ Len(u) = n /\ \A j \in 1 .. n : u[j] = s[i + j - 1]
  <2>1. /\ SubSeq(s, i, k) \in Seq(X) /\ Len(SubSeq(s, i, k)) = k - i + 1
        /\ \A j \in 1 .. k - i + 1 : SubSeq(s, i, k)[j] = s[i + j - 1]
    BY <1>2, PartOf
  <2>2. QED
    BY <1>1, <1>2, <2>1
<1>4. \A j \in 1 .. n : u[j] = t[j]
  BY <1>1, <1>3
<1>5. u = t
  BY <1>1, <1>3, <1>4
<1>6. QED
  BY <1>1, <1>5

(* The signs of a line are those that stand there.                         *)
LEMMA SignsFound ==
    ASSUME NEW s \in Seq(Char), NEW sg \in Seq(Sign), NEW p \in Nat, Len(sg) \in {1, 2},
           p + 1 + Len(sg) <= Len(s), \A j \in 1 .. Len(sg) : s[p + 1 + j] = sg[j]
    PROVE  SubSeq(s, p + 2, p + 1 + Len(sg)) = sg
<1>1. PICK a, i, k : a = Len(sg) /\ i = p + 2 /\ k = p + 1 + a
  OBVIOUS
<1>2. /\ a \in Nat /\ i \in Nat \ {0} /\ k \in Nat /\ k = i + a - 1 /\ k <= Len(s)
      /\ \A j \in 1 .. a : i + j - 1 = p + 1 + j
  BY <1>1
<1>3. \A j \in 1 .. a : s[i + j - 1] = sg[j]
  BY <1>1, <1>2
<1>4. SubSeq(s, i, k) = sg
  <2>1. i \in Nat \ {0} /\ k \in Nat /\ k = i + a - 1 /\ k <= Len(s) /\ a = Len(sg)
    BY <1>1, <1>2
  <2> HIDE <1>1
  <2>2. QED
    BY <2>1, <1>3, PartIs
<1>5. QED
  BY <1>1, <1>4

(* A name with signs behind it is read with these and the value there.     *)
LEMMA SignedRead ==
    ASSUME NEW s \in Seq(Char), NEW p, NEW name \in Name, NEW sg \in Seq(Sign), NEW body, NEW e,
           Printed(s, p, name, sg, body, e), Len(sg) \in {1, 2}, sg[1] \in Sign \ {"?"},
           Len(body) # 0, body[1] \notin Sign \cup {"blank"}, GetCmp(sg) \notin {"NONE", "ERR"},
           NEW q \in {p, p + 1}, NEW w, w = Value(s, p + 2 + Len(sg), 0), w.ok, ~(w.from > w.to)
    PROVE  GetCmd(s, q) = [cmd |-> NewCmd(name, GetCmp(sg), SubSeq(s, w.from, w.to)), next |-> w.next]
<1>1. PICK a, b : a = Len(sg) /\ b = Len(body)
  OBVIOUS
<1>2. /\ p \in Nat \ {0} /\ a \in {1, 2} /\ a \in Nat /\ b \in Nat /\ b # 0 /\ e = p + 1 + a + b /\ e <= Len(s)
      /\ s[p] = "blank" /\ s[p + 1] = name /\ Len(s) \in Nat
      /\ \A j \in 1 .. a : s[p + 1 + j] = sg[j]
      /\ \A j \in 1 .. b : s[p + 1 + a + j] = body[j]
  BY <1>1 DEF Printed
<1>3. /\ p + 1 <= Len(s) /\ p + 2 \in 1 .. Len(s) /\ p + 2 + a \in 1 .. Len(s)
      /\ p + 2 + a \in p + 2 .. Len(s) + 1 /\ p + 2 <= Len(s) /\ p + 2 \in Nat \ {0}
      /\ p + 2 + a \in Nat \ {0} /\ p + 2 + a <= Len(s)
  BY <1>2
<1>4. s[p + 2] = sg[1] /\ s[p + 2 + a] = body[1]
  <2>1. 1 \in 1 .. a /\ 1 \in 1 .. b /\ p + 1 + 1 = p + 2 /\ p + 1 + a + 1 = p + 2 + a
    BY <1>2
  <2>2. s[p + 1 + 1] = sg[1] /\ s[p + 1 + a + 1] = body[1]
    BY <1>2, <2>1
  <2>3. QED
    BY <2>1, <2>2
<1>5. s[p + 2] \in Sign \ {"?"} /\ s[p + 2] # "blank" /\ s[p + 2 + a] \notin Sign /\ s[p + 2 + a] # "blank"
  BY <1>4, Kinds
<1>6. PICK start, f, end, after, m, signs, v :
           /\ Parts(s, q, start, f, end, after, m, signs, v)
           /\ GetCmd(s, q) = Reading(s, start, f, end, after, signs, v)
  BY GetCmdParts
<1>7. /\ At(s, start) \notin Quote /\ f = p + 1 /\ end = 0 /\ At(s, f) = name /\ s[f] = name
      /\ after = SkipWSpace(s, p + 2)
  <2>1. p \in Nat \ {0} /\ p + 1 <= Len(s) /\ s[p] = "blank" /\ s[p + 1] \in Name /\ s[p + 1] = name
    BY <1>2, <1>3
  <2>2. q \in {p, p + 1} /\ Parts(s, q, start, f, end, after, m, signs, v)
    BY <1>6
  <2>3. /\ At(s, start) \notin Quote /\ f = p + 1 /\ end = 0 /\ At(s, f) = s[p + 1] /\ s[f] = s[p + 1]
        /\ after = SkipWSpace(s, p + 2)
    BY <2>1, <2>2, PrintedName
  <2>4. QED
    BY <2>1, <2>3
<1>8. after = p + 2
  <2>1. s[p + 2] \notin {"blank"}
    BY <1>5
  <2>2. Skip(s, p + 2, {"blank"}) = p + 2
    BY <1>3, <2>1, SkipStays
  <2>3. QED
    BY <1>7, <2>2 DEF SkipWSpace
<1>9. Skip(s, p + 2, Sign) = p + 2 + a
  <2>1. ASSUME NEW j \in p + 2 .. (p + 2 + a) - 1
        PROVE  s[j] \in Sign
    <3>1. PICK i : i = j - (p + 1)
      OBVIOUS
    <3>2. i \in 1 .. a /\ j = p + 1 + i
      BY <1>2, <3>1
    <3>3. s[j] = sg[i]
      BY <1>2, <3>2
    <3>4. sg[i] \in Sign
      BY <1>1, <3>2
    <3>5. QED
      BY <3>3, <3>4
  <2>2. PICK x, y : x = p + 2 /\ y = p + 2 + a
    OBVIOUS
  <2>3. /\ x \in Nat \ {0} /\ y \in x .. Len(s) + 1 /\ y <= Len(s) /\ s[y] \notin Sign
        /\ \A j \in x .. y - 1 : s[j] \in Sign
    BY <1>3, <1>5, <2>1, <2>2
  <2>4. Skip(s, x, Sign) = y
    BY <2>3, SkipIs
  <2>5. QED
    BY <2>2, <2>4
<1>10. signs = sg
  <2>1. m = Min({(p + 2 + a) - 1, (p + 2) + 1})
    BY <1>6, <1>8, <1>9 DEF Parts
  <2>2. (p + 2 + a) - 1 \in Nat /\ (p + 2) + 1 \in Nat /\ (p + 2 + a) - 1 <= (p + 2) + 1 /\ (p + 2 + a) - 1 = p + 1 + a
    BY <1>2
  <2>3. m = p + 1 + a
    BY <2>1, <2>2, OfTwo
  <2>4. signs = SubSeq(s, p + 2, p + 1 + a)
    BY <1>6, <1>8, <2>3 DEF Parts
  <2>5. p \in Nat /\ p + 1 + Len(sg) <= Len(s) /\ \A j \in 1 .. Len(sg) : s[p + 1 + j] = sg[j]
    BY <1>1, <1>2
  <2>6. SubSeq(s, p + 2, p + 1 + Len(sg)) = sg
    BY <2>5, SignsFound
  <2>7. QED
    BY <1>1, <2>4, <2>6
<1>11. v = w
  <2>1. Skip(s, p + 2 + a, {"blank"}) = p + 2 + a
    <3>1. s[p + 2 + a] \notin {"blank"}
      BY <1>5
    <3>2. QED
      BY <1>3, <3>1, SkipStays
  <2>2. v = Value(s, SkipWSpace(s, p + 2 + a), 0)
    BY <1>1, <1>6, <1>7, <1>8, <1>10 DEF Parts
  <2>3. QED
    BY <1>1, <2>1, <2>2 DEF SkipWSpace
<1>12. At(s, f + 1) \in Sign \ {"?"}
  <2>1. f + 1 = p + 2 /\ p + 2 \in DOMAIN s
    <3>1. f = p + 1 /\ p \in Nat /\ Len(s) \in Nat /\ p + 2 \in 1 .. Len(s) /\ DOMAIN s = 1 .. Len(s)
      BY <1>2, <1>3, <1>7
    <3>2. QED
      BY <3>1
  <2>2. QED
    BY <1>5, <2>1 DEF At
<1>13. At(s, f) # "nul" /\ At(s, f) \in Name
  BY <1>7, Kinds
<1>14. QED
  BY <1>6, <1>7, <1>10, <1>11, <1>12, <1>13 DEF Reading

(* A digit is no name, no quote, no sign and no blank.                     *)
LEMMA DigitsApart ==
    /\ \A d \in Digit : d \notin Name /\ d \notin Quote /\ d \notin Sign /\ d # "blank"
    /\ Digit \subseteq Character /\ Character \subseteq Char
    /\ "\"" \in Quote /\ "\"" \notin Sign /\ "\"" # "blank" /\ "\"" \in Character
  BY DEF Digit, DigitValue, Name, CmdQuals, Quote, Sign, Character, Char

(* Where the first name or blank is.                                       *)
LEMMA NameStops ==
    ASSUME NEW s \in Seq(Char), NEW p \in Nat \ {0}, p <= Len(s) + 1
    PROVE  LET stop == Min({q \in p .. Len(s) : s[q] \in Name \cup {"blank"}} \cup {Len(s) + 1})
           IN  /\ stop \in p .. Len(s) + 1
               /\ \A j \in p .. stop - 1 : s[j] \notin Name \cup {"blank"}
               /\ stop <= Len(s) => s[stop] \in Name \cup {"blank"}
<1>1. ASSUME NEW C
      PROVE  LET stop == Min({q \in p .. Len(s) : s[q] \in C} \cup {Len(s) + 1})
             IN  /\ stop \in p .. Len(s) + 1
                 /\ \A j \in p .. stop - 1 : s[j] \notin C
                 /\ stop <= Len(s) => s[stop] \in C
  BY StopsAt
<1>2. QED
  BY <1>1

(* Digits are a value up to the next name.                                 *)
LEMMA DigitsRead ==
    ASSUME NEW s \in Seq(Char), NEW x \in Nat \ {0}, NEW e \in Nat, x <= e, e <= Len(s),
           \A j \in x .. e : s[j] \in Digit, NameOrEnd(s, e)
    PROVE  Value(s, x, 0) = [ok |-> TRUE, from |-> x, to |-> e, next |-> e + 1]
<1>1. PICK C, stop : /\ C = Name \cup {"blank"}
                     /\ stop = Min({q \in x .. Len(s) : s[q] \in Name \cup {"blank"}} \cup {Len(s) + 1})
  OBVIOUS
<1>2. x <= Len(s) + 1 /\ x \in 1 .. Len(s) /\ Len(s) \in Nat
  OBVIOUS
<1>3. /\ stop \in x .. Len(s) + 1
      /\ \A j \in x .. stop - 1 : s[j] \notin C
      /\ stop <= Len(s) => s[stop] \in C
  <2>1. /\ stop \in x .. Len(s) + 1
        /\ \A j \in x .. stop - 1 : s[j] \notin Name \cup {"blank"}
        /\ stop <= Len(s) => s[stop] \in Name \cup {"blank"}
    BY <1>1, <1>2, NameStops
  <2>2. QED
    BY <1>1, <2>1
<1>4. stop = e + 1
  <2>1. ~(stop <= e)
    <3> SUFFICES ASSUME stop <= e
                 PROVE  FALSE
      OBVIOUS
    <3>1. stop \in x .. e /\ stop <= Len(s)
      BY <1>2, <1>3
    <3>2. s[stop] \in Digit /\ s[stop] \in C
      BY <1>3, <3>1
    <3>3. QED
      BY <1>1, <3>2, DigitsApart
  <2>2. ~(e + 1 < stop)
    <3> SUFFICES ASSUME e + 1 < stop
                 PROVE  FALSE
      OBVIOUS
    <3>1. e + 1 \in x .. stop - 1 /\ e + 1 <= Len(s)
      BY <1>2, <1>3
    <3>2. s[e + 1] \notin C /\ s[e + 1] = "blank"
      BY <1>3, <3>1 DEF NameOrEnd
    <3>3. QED
      BY <1>1, <3>2
  <2>3. QED
    BY <1>2, <1>3, <2>1, <2>2
<1>5. At(s, x) \notin Quote
  <2>1. x \in x .. e /\ x \in DOMAIN s
    BY <1>2
  <2>2. At(s, x) \in Digit
    BY <2>1 DEF At
  <2>3. QED
    BY <2>2, DigitsApart
<1>6. Value(s, x, 0) = [ok |-> TRUE, from |-> x, to |-> stop - 1, next |-> stop]
  BY <1>1, <1>5 DEF Value
<1>7. stop - 1 = e
  BY <1>4
<1>8. QED
  BY <1>4, <1>6, <1>7

(* A text in double quotes is one up to the second of them.                *)
LEMMA QuotedRead ==
    ASSUME NEW s \in Seq(Char), NEW x \in Nat \ {0}, NEW e \in Nat, x < e, e <= Len(s),
           NEW quote \in Quote, s[x] = quote, s[e] = quote, \A j \in x + 1 .. e - 1 : s[j] # quote
    PROVE  Value(s, x, 0) = [ok |-> TRUE, from |-> x + 1, to |-> e - 1, next |-> e + 1]
<1>1. x + 1 \in Nat \ {0} /\ e \in x + 1 .. Len(s) /\ x \in DOMAIN s /\ e # 0 /\ e >= 0 /\ 0 \in Nat
  OBVIOUS
<1>2. Index(s, x + 1, quote) = e
  BY <1>1, IndexIs
<1>3. At(s, x) \in Quote
  BY <1>1 DEF At
<1>4. e > 0 + 1
  OBVIOUS
<1>5. Value(s, x, 0) = [ok |-> e # 0, from |-> x + 1, to |-> e - 1,
                        next |-> IF e > 0 + 1 THEN e + 1 ELSE 0 + 1]
  BY <1>2, <1>3 DEF Value
<1>6. (e # 0) = TRUE
  BY <1>1
<1>7. QED
  BY <1>4, <1>5, <1>6

(* A text that has no blanks behind it keeps all of its characters.        *)
LEMMA NothingBehindText ==
    ASSUME NEW X, NEW v \in Seq(X), v # <<>>, v[Len(v)] # "blank"
    PROVE  RTrim(v) = v
<1>1. PICK k : k = Len(v)
  OBVIOUS
<1>2. k \in 0 .. Len(v) /\ (k # 0 => v[k] # "blank") /\ \A j \in k + 1 .. Len(v) : FALSE
  BY <1>1
<1>3. RTrim(v) = SubSeq(v, 1, k)
  BY <1>2, RTrimIs
<1>4. SubSeq(v, 1, k) = v
  BY <1>1
<1>5. QED
  BY <1>3, <1>4

(* What rtrim has trimmed it leaves alone.                                 *)
LEMMA TrimmedOnce ==
    ASSUME NEW X, NEW v \in Seq(X)
    PROVE  RTrim(v) \in Seq(X) /\ RTrim(RTrim(v)) = RTrim(v)
<1>1. PICK k \in 0 .. Len(v) : RTrim(v) = SubSeq(v, 1, k) /\ (k # 0 => v[k] # "blank")
  BY RTrimEnds
<1>2. PICK u : u = SubSeq(v, 1, k)
  OBVIOUS
<1>3. 1 \in Nat \ {0} /\ k \in Nat /\ 1 <= k + 1 /\ k <= Len(v) /\ k - 1 + 1 = k
  BY <1>1
<1>4. u \in Seq(X) /\ Len(u) = k /\ \A j \in 1 .. k : u[j] = v[1 + j - 1]
  BY <1>2, <1>3, PartOf
<1>5. CASE k = 0
  <2>1. u = <<>>
    BY <1>4, <1>5
  <2>2. QED
    BY <1>1, <1>2, <1>4, <2>1, NothingTrimmed
<1>6. CASE k # 0
  <2>1. k \in 1 .. k /\ 1 + k - 1 = k
    BY <1>3, <1>6
  <2>2. u[k] = v[k] /\ v[k] # "blank"
    BY <1>1, <1>4, <1>6, <2>1
  <2>3. u # <<>> /\ u[Len(u)] # "blank"
    BY <1>4, <1>6, <2>2
  <2>4. RTrim(u) = u
    BY <1>4, <2>3, NothingBehindText
  <2>5. QED
    BY <1>1, <1>2, <1>4, <2>4
<1>7. QED
  BY <1>5, <1>6

(* newcmd with a value it accepts.                                         *)
LEMMA NewCmdMakes ==
    ASSUME NEW name \in Name, NEW cmp, NEW v, RTrim(v) # <<>>, CmdQuals[name].val # "none",
           CmdQuals[name].type = "label" => ToSet(RTrim(v)) \subseteq Digit \cup {"x"}
    PROVE  NewCmd(name, cmp, v) = [name |-> name, cmp |-> cmp, set |-> TRUE, val |-> Meant(name, RTrim(v))]
<1>1. (CmdQuals[name].type = "number") <=> (name = "/usage")
  BY DEF Name, CmdQuals
<1>2. PICK text : text = RTrim(v) /\ text # <<>>
  OBVIOUS
<1>3. NewCmd(name, cmp, v) = [name |-> name, cmp |-> cmp, set |-> text # <<>>,
                              val |-> IF ~(text # <<>>) THEN <<>>
                                      ELSE IF CmdQuals[name].type = "number" THEN Number(text) ELSE text]
  BY <1>2 DEF NewCmd
<1>4. QED
  BY <1>1, <1>2, <1>3 DEF Meant

(* newcmd without one, where none is required.                             *)
LEMMA NewCmdBare ==
    ASSUME NEW name \in Name, NEW cmp, CmdQuals[name].val # "required"
    PROVE  NewCmd(name, cmp, <<>>) = [name |-> name, cmp |-> cmp, set |-> FALSE, val |-> <<>>]
<1>1. CmdQuals[name].type # "label"
  BY DEF Name, CmdQuals
<1>2. PICK text : text = RTrim(<<>>) /\ text = <<>>
  BY NothingTrimmed
<1>3. NewCmd(name, cmp, <<>>) = [name |-> name, cmp |-> cmp, set |-> text # <<>>,
                              val |-> IF ~(text # <<>>) THEN <<>>
                                      ELSE IF CmdQuals[name].type = "number" THEN Number(text) ELSE text]
  BY <1>1, <1>2 DEF NewCmd
<1>4. QED
  BY <1>2, <1>3

\* c is one that newcmd makes: it has a value if one is required and none if there
\* is none to have, a text is not empty and has no blanks behind it.
Sound(c) ==
    /\ IsCmd(c) /\ c.name \in Name /\ c.cmp \in DOMAIN Signs /\ c.set \in BOOLEAN
    /\ ~c.set => CmdQuals[c.name].val # "required"
    /\ c.set => /\ CmdQuals[c.name].val # "none"
                /\ IF c.name = "/usage" THEN c.val \in Nat
                   ELSE /\ c.val \in Seq(Char) /\ c.val # <<>> /\ RTrim(c.val) = c.val
                        /\ CmdQuals[c.name].type = "label" => ToSet(c.val) \subseteq Digit \cup {"x"}

\* What display_cmd writes for a value.
Body(c) == IF c.name = "/usage" THEN Decimal(c.val) ELSE <<"\"">> \o c.val \o <<"\"">>

\* c has a comparison that is read again, and no double quote.
Readable(c) ==
    c.set => /\ c.cmp \notin {"OPT", "NONE"}
             /\ c.name # "/usage" => "\"" \notin ToSet(c.val)

(* The characters display_cmd writes.                                      *)
LEMMA DisplayIs ==
    ASSUME NEW name \in Name, NEW sg \in Seq(Sign), NEW body \in Seq(Char)
    PROVE  LET t == <<"blank", name>> \o (sg \o body)
               a == Len(sg)
               b == Len(body)
           IN  /\ a \in Nat /\ b \in Nat /\ t \in Seq(Char) /\ Len(t) = a + b + 2
               /\ t[1] = "blank" /\ t[2] = name
               /\ \A j \in 1 .. a : t[j + 2] = sg[j]
               /\ \A j \in 1 .. b : t[a + j + 2] = body[j]
<1>1. PICK n, a, b, u : /\ n = <<"blank", name>> /\ a = Len(sg) /\ b = Len(body) /\ u = sg \o body
  OBVIOUS
<1>2. name \in Char /\ "blank" \in Char /\ Sign \subseteq Char
  BY Kinds DEF Char, Character
<1>3. n \in Seq(Char) /\ Len(n) = 2 /\ n[1] = "blank" /\ n[2] = name /\ sg \in Seq(Char) /\ a \in Nat /\ b \in Nat
  BY <1>1, <1>2
<1>4. /\ u \in Seq(Char) /\ Len(u) = a + b
      /\ \A j \in 1 .. a : u[j] = sg[j]
      /\ \A j \in 1 .. b : u[a + j] = body[j]
  BY <1>1, <1>3, Joined
<1>5. PICK t : t = n \o u
  OBVIOUS
<1>6. /\ t \in Seq(Char) /\ Len(t) = 2 + Len(u)
      /\ \A j \in 1 .. 2 : t[j] = n[j]
      /\ \A j \in 1 .. Len(u) : t[2 + j] = u[j]
  <2>1. n \in Seq(Char) /\ u \in Seq(Char)
    BY <1>3, <1>4
  <2>2. /\ n \o u \in Seq(Char) /\ Len(n \o u) = Len(n) + Len(u)
        /\ \A j \in 1 .. Len(n) : (n \o u)[j] = n[j]
        /\ \A j \in 1 .. Len(u) : (n \o u)[Len(n) + j] = u[j]
    BY <2>1, Joined
  <2>3. QED
    BY <1>3, <1>5, <2>2
<1>7. t[1] = "blank" /\ t[2] = name /\ Len(t) = a + b + 2
  BY <1>3, <1>4, <1>6
<1>8. \A j \in 1 .. a : t[j + 2] = sg[j]
  <2> TAKE j \in 1 .. a
  <2>1. j \in 1 .. Len(u) /\ 2 + j = j + 2
    BY <1>3, <1>4
  <2>2. QED
    BY <1>4, <1>6, <2>1
<1>9. \A j \in 1 .. b : t[a + j + 2] = body[j]
  <2> TAKE j \in 1 .. b
  <2>1. a + j \in 1 .. Len(u) /\ 2 + (a + j) = a + j + 2
    BY <1>3, <1>4
  <2>2. QED
    BY <1>4, <1>6, <2>1
<1>10. QED
  BY <1>1, <1>3, <1>5, <1>6, <1>7, <1>8, <1>9

(* Where the text has them, they are a name, signs and a value.            *)
LEMMA SpelledPrints ==
    ASSUME NEW s \in Seq(Char), NEW p \in Nat \ {0}, NEW name \in Name, NEW sg \in Seq(Sign),
           NEW body \in Seq(Char), NEW t, t = <<"blank", name>> \o (sg \o body),
           Spelled(s, p, t), p + Len(t) <= Len(s) + 1
    PROVE  Len(t) \in Nat /\ Printed(s, p, name, sg, body, p + Len(t) - 1)
<1>1. PICK a, b, e : a = Len(sg) /\ b = Len(body) /\ e = p + Len(t) - 1
  OBVIOUS
<1>2. /\ a \in Nat /\ b \in Nat /\ Len(t) = a + b + 2
      /\ t[1] = "blank" /\ t[2] = name
      /\ \A j \in 1 .. a : t[j + 2] = sg[j]
      /\ \A j \in 1 .. b : t[a + j + 2] = body[j]
  BY <1>1, DisplayIs
<1>3. e \in Nat /\ e <= Len(s) /\ e = p + 1 + a + b
  BY <1>1, <1>2
<1>4. \A j \in 1 .. a + b + 2 : s[p + j - 1] = t[j]
  BY <1>2 DEF Spelled
<1>5. s[p] = "blank" /\ s[p + 1] = name
  <2>1. 1 \in 1 .. a + b + 2 /\ 2 \in 1 .. a + b + 2 /\ p + 1 - 1 = p /\ p + 2 - 1 = p + 1
    BY <1>2
  <2>2. s[p + 1 - 1] = t[1] /\ s[p + 2 - 1] = t[2]
    BY <1>4, <2>1
  <2>3. QED
    BY <1>2, <2>1, <2>2
<1>6. \A j \in 1 .. a : s[p + 1 + j] = sg[j]
  <2> TAKE j \in 1 .. a
  <2>1. j + 2 \in 1 .. a + b + 2 /\ p + (j + 2) - 1 = p + 1 + j
    BY <1>2
  <2>2. s[p + (j + 2) - 1] = t[j + 2]
    BY <1>4, <2>1
  <2>3. QED
    BY <1>2, <2>1, <2>2
<1>7. \A j \in 1 .. b : s[p + 1 + a + j] = body[j]
  <2> TAKE j \in 1 .. b
  <2>1. a + j + 2 \in 1 .. a + b + 2 /\ p + (a + j + 2) - 1 = p + 1 + a + j
    BY <1>2
  <2>2. s[p + (a + j + 2) - 1] = t[a + j + 2]
    BY <1>4, <2>1
  <2>3. QED
    BY <1>2, <2>1, <2>2
<1>8. Len(t) \in Nat
  BY <1>2
<1>9. QED
  BY <1>1, <1>2, <1>3, <1>5, <1>6, <1>7, <1>8 DEF Printed

(* A text within double quotes.                                            *)
LEMMA TextBody ==
    ASSUME NEW val \in Seq(Char), NEW quote \in Char
    PROVE  LET body == <<quote>> \o val \o <<quote>>
               n == Len(val)
           IN  /\ n \in Nat /\ body \in Seq(Char) /\ Len(body) = n + 2
               /\ body[1] = quote /\ body[n + 2] = quote
               /\ \A j \in 1 .. n : body[1 + j] = val[j]
<1>1. PICK c, n, u : c = <<quote>> /\ n = Len(val) /\ u = c \o val
  OBVIOUS
<1>2. c \in Seq(Char) /\ Len(c) = 1 /\ c[1] = quote /\ n \in Nat
  BY <1>1
<1>3. /\ u \in Seq(Char) /\ Len(u) = 1 + n
      /\ \A j \in 1 .. 1 : u[j] = c[j]
      /\ \A j \in 1 .. n : u[1 + j] = val[j]
  BY <1>1, <1>2, Joined
<1>4. PICK body : body = u \o c
  OBVIOUS
<1>5. /\ body \in Seq(Char) /\ Len(body) = Len(u) + 1
      /\ \A j \in 1 .. Len(u) : body[j] = u[j]
      /\ \A j \in 1 .. 1 : body[Len(u) + j] = c[j]
  <2>1. u \in Seq(Char) /\ c \in Seq(Char)
    BY <1>2, <1>3
  <2>2. /\ u \o c \in Seq(Char) /\ Len(u \o c) = Len(u) + Len(c)
        /\ \A j \in 1 .. Len(u) : (u \o c)[j] = u[j]
        /\ \A j \in 1 .. Len(c) : (u \o c)[Len(u) + j] = c[j]
    BY <2>1, Joined
  <2>3. QED
    BY <1>2, <1>4, <2>2
<1>6. Len(body) = n + 2 /\ body[1] = quote /\ body[n + 2] = quote
  <2>1. 1 \in 1 .. 1 /\ 1 \in 1 .. Len(u) /\ Len(u) + 1 = n + 2
    BY <1>2, <1>3
  <2>2. body[1] = u[1] /\ u[1] = c[1] /\ body[Len(u) + 1] = c[1]
    BY <1>3, <1>5, <2>1
  <2>3. QED
    BY <1>2, <1>5, <2>1, <2>2
<1>7. \A j \in 1 .. n : body[1 + j] = val[j]
  <2> TAKE j \in 1 .. n
  <2>1. 1 + j \in 1 .. Len(u)
    BY <1>2, <1>3
  <2>2. QED
    BY <1>3, <1>5, <2>1
<1>8. body = <<quote>> \o val \o <<quote>>
  BY <1>1, <1>4
<1>9. QED
  BY <1>1, <1>2, <1>5, <1>6, <1>7, <1>8

(* What display_cmd writes are a name, the signs and a value.              *)
LEMMA DisplayCmdIs ==
    ASSUME NEW c, Sound(c), Readable(c)
    PROVE  \E sg \in Seq(Sign), body \in Seq(Char) :
              /\ DisplayCmd(c) = <<"blank", c.name>> \o (sg \o body)
              /\ ~c.set => sg = <<>> /\ body = <<>>
              /\ c.set => sg = Signs[c.cmp] /\ body = Body(c)
<1>1. CASE ~c.set
  <2>1. PICK sg, body : sg = <<>> /\ body = <<>>
    OBVIOUS
  <2>2. sg \in Seq(Sign) /\ body \in Seq(Char) /\ sg \o body = <<>>
    BY <2>1
  <2>3. DisplayCmd(c) = <<"blank", c.name>> \o <<>>
    BY <1>1 DEF DisplayCmd
  <2>4. DisplayCmd(c) = <<"blank", c.name>> \o (sg \o body)
    BY <2>2, <2>3
  <2>5. QED
    BY <1>1, <2>1, <2>2, <2>4
<1>2. CASE c.set
  <2>1. PICK sg, body : sg = Signs[c.cmp] /\ body = Body(c)
    OBVIOUS
  <2>2. DisplayCmd(c) = <<"blank", c.name>> \o (sg \o body)
    BY <1>2, <2>1 DEF DisplayCmd, Body
  <2>3. sg \in Seq(Sign)
    <3>1. c.cmp \in DOMAIN Signs \ {"NONE", "OPT"}
      BY <1>2 DEF Sound, Readable
    <3>2. QED
      BY <2>1, <3>1, SignsRead
  <2>4. body \in Seq(Char)
    <3>1. CASE c.name = "/usage"
      <4>1. c.val \in Nat
        BY <1>2, <3>1 DEF Sound
      <4>2. Decimal(c.val) \in Seq(Digit)
        BY <4>1, DecimalReadsBack
      <4>3. body = Decimal(c.val) /\ Digit \subseteq Char
        BY <2>1, <3>1, DigitsApart DEF Body
      <4>4. QED
        BY <4>2, <4>3
    <3>2. CASE c.name # "/usage"
      <4>1. PICK val, quote : val = c.val /\ quote = "\""
        OBVIOUS
      <4>2. val \in Seq(Char) /\ quote \in Char
        BY <1>2, <3>2, <4>1, DigitsApart DEF Sound
      <4>3. body = <<quote>> \o val \o <<quote>>
        BY <2>1, <3>2, <4>1 DEF Body
      <4>4. QED
        BY <4>2, <4>3, TextBody
    <3>3. QED
      BY <3>1, <3>2
  <2>5. QED
    BY <1>2, <2>1, <2>2, <2>3, <2>4
<1>3. QED
  BY <1>1, <1>2

\* x is read for c: it has the same name, and what it has besides.
ReadFor(x, c) == x.name = c.name /\ x.cmp # "ERR" /\ Same(x, c)

(* What display_cmd writes for a command without a value is read as it.    *)
LEMMA BareRead ==
    ASSUME NEW s \in Seq(Char), NEW p \in Nat \ {0}, NEW c, Sound(c), ~c.set,
           Printed(s, p, c.name, <<>>, <<>>, p + 1), NameOrEnd(s, p + 1), NEW q \in {p, p + 1}
    PROVE  LET g == GetCmd(s, q)
           IN  /\ ReadFor(g.cmd, c)
               /\ g.next = IF p + 2 <= Len(s) THEN p + 3 ELSE p + 2
<1>1. PICK name : name = c.name /\ name \in Name /\ CmdQuals[name].val # "required"
  BY DEF Sound
<1>2. PICK g : g = GetCmd(s, q)
  OBVIOUS
<1>3. g.cmd = NewCmd(name, "NONE", <<>>) /\ g.next = IF p + 2 <= Len(s) THEN p + 3 ELSE p + 2
  BY <1>1, <1>2, NameRead
<1>4. g.cmd = [name |-> name, cmp |-> "NONE", set |-> FALSE, val |-> <<>>]
  BY <1>1, <1>3, NewCmdBare
<1>5. g.cmd.name = name /\ g.cmd.cmp = "NONE" /\ g.cmd.set = FALSE
  BY <1>4
<1>6. ReadFor(g.cmd, c)
  BY <1>1, <1>5 DEF ReadFor, Same
<1>7. QED
  BY <1>2, <1>3, <1>6

(* ... for a number ...                                                    *)
LEMMA NumberRead ==
    ASSUME NEW s \in Seq(Char), NEW p \in Nat \ {0}, NEW c, Sound(c), Readable(c), c.set, c.name = "/usage",
           NEW e, Printed(s, p, c.name, Signs[c.cmp], Body(c), e), NameOrEnd(s, e), NEW q \in {p, p + 1}
    PROVE  LET g == GetCmd(s, q)
           IN  ReadFor(g.cmd, c) /\ g.next = e + 1
<1>1. PICK name, cmp, n, sg, body : /\ name = c.name /\ cmp = c.cmp /\ n = c.val
                                    /\ sg = Signs[cmp] /\ body = Body(c)
  OBVIOUS
<1>2. /\ name \in Name /\ cmp \in DOMAIN Signs \ {"NONE", "OPT"} /\ n \in Nat /\ CmdQuals[name].val # "none"
      /\ c = [name |-> name, cmp |-> cmp, set |-> c.set, val |-> n] /\ c.set = TRUE /\ name = "/usage"
  BY <1>1 DEF Sound, Readable, IsCmd
<1>3. /\ sg \in Seq(Sign) /\ Len(sg) \in {1, 2} /\ sg[1] \in Sign \ {"?"} /\ GetCmp(sg) = cmp
      /\ cmp \notin {"NONE", "ERR"}
  <2>1. cmp \notin {"NONE", "ERR"}
    BY <1>2 DEF Signs
  <2>2. QED
    BY <1>1, <1>2, <2>1, SignsRead
<1>4. body = Decimal(n) /\ body \in Seq(Digit) /\ body # <<>> /\ Number(body) = n
  <2>1. body = Decimal(n)
    BY <1>1, <1>2 DEF Body
  <2>2. QED
    BY <1>2, <2>1, DecimalReadsBack
<1>5. PICK a, b, x : a = Len(sg) /\ b = Len(body) /\ x = p + 2 + a
  OBVIOUS
<1>6. Printed(s, p, name, sg, body, e)
  BY <1>1
<1>7. /\ a \in Nat /\ b \in Nat /\ b # 0 /\ e = p + 1 + a + b /\ e <= Len(s) /\ e \in Nat
      /\ \A j \in 1 .. b : s[p + 1 + a + j] = body[j]
  <2>1. /\ a \in Nat /\ b \in Nat /\ e = p + 1 + a + b /\ e <= Len(s) /\ e \in Nat
        /\ \A j \in 1 .. b : s[p + 1 + a + j] = body[j]
    <3> HIDE <1>1
    <3>1. QED
      BY <1>5, <1>6 DEF Printed
  <2>2. b # 0
    BY <1>4, <1>5
  <2>3. QED
    BY <2>1, <2>2
<1>8. /\ x \in Nat \ {0} /\ x <= e /\ x + b - 1 = e
      /\ \A j \in 1 .. b : s[x + j - 1] = body[j] /\ body[j] \in Digit
  <2>1. x \in Nat \ {0} /\ x <= e /\ x + b - 1 = e /\ \A j \in 1 .. b : x + j - 1 = p + 1 + a + j
    BY <1>5, <1>7
  <2>2. \A j \in 1 .. b : body[j] \in Digit
    BY <1>4, <1>5
  <2>3. QED
    BY <1>7, <2>1, <2>2
<1>9. \A j \in x .. e : s[j] \in Digit
  <2> TAKE j \in x .. e
  <2>1. PICK i : i = j - x + 1
    OBVIOUS
  <2>2. i \in 1 .. b /\ x + i - 1 = j
    BY <1>7, <1>8, <2>1
  <2>3. QED
    BY <1>8, <2>2
<1>10. Value(s, x, 0) = [ok |-> TRUE, from |-> x, to |-> e, next |-> e + 1]
  BY <1>7, <1>8, <1>9, DigitsRead
<1>11. PICK w : w = Value(s, x, 0)
  OBVIOUS
<1>12. w.ok = TRUE /\ w.from = x /\ w.to = e /\ w.next = e + 1 /\ ~(w.from > w.to)
  <2>1. w.ok = TRUE /\ w.from = x /\ w.to = e /\ w.next = e + 1
    BY <1>10, <1>11
  <2>2. ~(x > e)
    BY <1>7, <1>8
  <2>3. QED
    BY <2>1, <2>2
<1>13. Len(body) # 0 /\ body[1] \notin Sign \cup {"blank"}
  <2>1. 1 \in 1 .. b
    BY <1>7
  <2>2. body[1] \in Digit
    BY <1>8, <2>1
  <2>3. QED
    BY <1>5, <1>7, <2>2, DigitsApart
<1>14. GetCmp(sg) \notin {"NONE", "ERR"} /\ w = Value(s, p + 2 + Len(sg), 0)
  BY <1>3, <1>5, <1>11
<1>15. PICK g : g = GetCmd(s, q)
  OBVIOUS
<1>16. g = [cmd |-> NewCmd(name, GetCmp(sg), SubSeq(s, w.from, w.to)), next |-> w.next]
  <2>1. w.ok /\ ~(w.from > w.to)
    BY <1>12
  <2>2. QED
    BY <1>2, <1>3, <1>6, <1>13, <1>14, <1>15, <2>1, SignedRead
<1>17. g = [cmd |-> NewCmd(name, cmp, SubSeq(s, x, e)), next |-> e + 1]
  BY <1>3, <1>12, <1>16
<1>18. SubSeq(s, x, e) = body
  <2>1. /\ e = x + b - 1 /\ e <= Len(s) /\ x \in Nat \ {0} /\ e \in Nat
        /\ \A j \in 1 .. b : s[x + j - 1] = body[j]
    BY <1>7, <1>8
  <2>2. b = Len(body) /\ body \in Seq(Digit)
    BY <1>4, <1>5
  <2>3. QED
    BY <2>1, <2>2, PartIs
<1>19. RTrim(body) = body
  <2>1. b \in 1 .. b /\ body # <<>>
    BY <1>4, <1>7
  <2>2. body[b] \in Digit
    BY <1>8, <2>1
  <2>3. body[Len(body)] # "blank"
    BY <1>5, <2>2, DigitsApart
  <2>4. QED
    BY <1>4, <2>3, NothingBehindText
<1>20. NewCmd(name, cmp, body) = c
  <2>1. CmdQuals[name].type # "label"
    BY <1>2 DEF CmdQuals
  <2>2. NewCmd(name, cmp, body) = [name |-> name, cmp |-> cmp, set |-> TRUE, val |-> Meant(name, body)]
    <3>1. RTrim(body) # <<>>
      BY <1>4, <1>19
    <3>2. NewCmd(name, cmp, body)
          = [name |-> name, cmp |-> cmp, set |-> TRUE, val |-> Meant(name, RTrim(body))]
      BY <1>2, <2>1, <3>1, NewCmdMakes
    <3>3. QED
      BY <1>19, <3>2
  <2>3. Meant(name, body) = n
    BY <1>2, <1>4 DEF Meant
  <2>4. QED
    BY <1>2, <2>2, <2>3
<1>21. g.cmd = c /\ g.next = e + 1
  BY <1>17, <1>18, <1>20
<1>22. ReadFor(c, c)
  BY <1>1, <1>3 DEF ReadFor, Same
<1>23. QED
  BY <1>15, <1>21, <1>22

(* ... and for a text.                                                     *)
LEMMA TextRead ==
    ASSUME NEW s \in Seq(Char), NEW p \in Nat \ {0}, NEW c, Sound(c), Readable(c), c.set, c.name # "/usage",
           NEW e, Printed(s, p, c.name, Signs[c.cmp], Body(c), e), NEW q \in {p, p + 1}
    PROVE  LET g == GetCmd(s, q)
           IN  ReadFor(g.cmd, c) /\ g.next = e + 1
<1>1. PICK name, cmp, val, sg, body, quote :
         /\ name = c.name /\ cmp = c.cmp /\ val = c.val /\ quote = "\""
         /\ sg = Signs[cmp] /\ body = Body(c)
  OBVIOUS
<1>2. /\ name \in Name /\ cmp \in DOMAIN Signs \ {"NONE", "OPT"} /\ CmdQuals[name].val # "none"
      /\ c = [name |-> name, cmp |-> cmp, set |-> c.set, val |-> val] /\ c.set = TRUE /\ name # "/usage"
      /\ val \in Seq(Char) /\ val # <<>> /\ RTrim(val) = val
      /\ CmdQuals[name].type = "label" => ToSet(val) \subseteq Digit \cup {"x"}
      /\ quote \notin ToSet(val)
  BY <1>1 DEF Sound, Readable, IsCmd
<1>3. /\ sg \in Seq(Sign) /\ Len(sg) \in {1, 2} /\ sg[1] \in Sign \ {"?"} /\ GetCmp(sg) = cmp
      /\ cmp \notin {"NONE", "ERR"}
  <2>1. cmp \notin {"NONE", "ERR"}
    BY <1>2 DEF Signs
  <2>2. QED
    BY <1>1, <1>2, <2>1, SignsRead
<1>4. quote \in Quote /\ quote \notin Sign \cup {"blank"} /\ quote \in Char
  BY <1>1, DigitsApart
<1>5. PICK a, b, n, x : a = Len(sg) /\ b = Len(body) /\ n = Len(val) /\ x = p + 2 + a
  OBVIOUS
<1>6. /\ n \in Nat /\ b = n + 2 /\ body[1] = quote /\ body[n + 2] = quote
      /\ \A j \in 1 .. n : body[1 + j] = val[j]
  <2>1. body = <<quote>> \o val \o <<quote>>
    BY <1>1, <1>2 DEF Body
  <2>2. QED
    BY <1>2, <1>4, <1>5, <2>1, TextBody
<1>7. n # 0 /\ \A j \in 1 .. n : val[j] # quote
  BY <1>2, <1>5 DEF ToSet
<1>8. Printed(s, p, name, sg, body, e)
  BY <1>1
<1>9. /\ a \in Nat /\ e = p + 1 + a + b /\ e <= Len(s) /\ e \in Nat
      /\ \A j \in 1 .. b : s[p + 1 + a + j] = body[j]
  <2> HIDE <1>1
  <2>1. QED
    BY <1>5, <1>8 DEF Printed
<1>10. /\ x \in Nat \ {0} /\ e = x + n + 1 /\ x < e
       /\ \A j \in 1 .. b : s[x + j - 1] = body[j]
  <2>1. x \in Nat \ {0} /\ e = x + n + 1 /\ x < e /\ \A j \in 1 .. b : x + j - 1 = p + 1 + a + j
    BY <1>5, <1>6, <1>9
  <2>2. QED
    BY <1>9, <2>1
<1>11. s[x] = quote /\ s[e] = quote
  <2>1. 1 \in 1 .. b /\ n + 2 \in 1 .. b /\ x + 1 - 1 = x /\ x + (n + 2) - 1 = e
    BY <1>6, <1>10
  <2>2. s[x + 1 - 1] = body[1] /\ s[x + (n + 2) - 1] = body[n + 2]
    BY <1>10, <2>1
  <2>3. QED
    BY <1>6, <2>1, <2>2
<1>12. \A j \in 1 .. n : s[x + j] = val[j]
  <2> TAKE j \in 1 .. n
  <2>1. 1 + j \in 1 .. b /\ x + (1 + j) - 1 = x + j
    BY <1>6, <1>10
  <2>2. s[x + (1 + j) - 1] = body[1 + j]
    BY <1>10, <2>1
  <2>3. QED
    BY <1>6, <2>1, <2>2
<1>13. \A j \in x + 1 .. e - 1 : s[j] # quote
  <2> TAKE j \in x + 1 .. e - 1
  <2>1. PICK i : i = j - x
    OBVIOUS
  <2>2. i \in 1 .. n /\ x + i = j
    BY <1>6, <1>10, <2>1
  <2>3. QED
    BY <1>7, <1>12, <2>2
<1>14. Value(s, x, 0) = [ok |-> TRUE, from |-> x + 1, to |-> e - 1, next |-> e + 1]
  BY <1>4, <1>9, <1>10, <1>11, <1>13, QuotedRead
<1>15. PICK w : w = Value(s, x, 0)
  OBVIOUS
<1>16. w.ok = TRUE /\ w.from = x + 1 /\ w.to = e - 1 /\ w.next = e + 1 /\ ~(w.from > w.to)
  <2>1. w.ok = TRUE /\ w.from = x + 1 /\ w.to = e - 1 /\ w.next = e + 1
    BY <1>14, <1>15
  <2>2. ~(x + 1 > e - 1)
    BY <1>6, <1>7, <1>10
  <2>3. QED
    BY <2>1, <2>2
<1>17. Len(body) # 0 /\ body[1] \notin Sign \cup {"blank"}
  <2>1. b # 0
    BY <1>6
  <2>2. QED
    BY <1>4, <1>5, <1>6, <2>1
<1>18. GetCmp(sg) \notin {"NONE", "ERR"} /\ w = Value(s, p + 2 + Len(sg), 0)
  BY <1>3, <1>5, <1>15
<1>19. PICK g : g = GetCmd(s, q)
  OBVIOUS
<1>20. g = [cmd |-> NewCmd(name, GetCmp(sg), SubSeq(s, w.from, w.to)), next |-> w.next]
  <2>1. w.ok /\ ~(w.from > w.to)
    BY <1>16
  <2>2. QED
    BY <1>2, <1>3, <1>8, <1>17, <1>18, <1>19, <2>1, SignedRead
<1>21. g = [cmd |-> NewCmd(name, cmp, SubSeq(s, x + 1, e - 1)), next |-> e + 1]
  BY <1>3, <1>16, <1>20
<1>22. SubSeq(s, x + 1, e - 1) = val
  <2>1. PICK i, k : i = x + 1 /\ k = e - 1
    OBVIOUS
  <2>2. i \in Nat \ {0} /\ k \in Nat /\ k <= Len(s)
    <3>1. /\ x \in Nat \ {0} /\ n \in Nat /\ e = x + n + 1 /\ i = x + 1 /\ k = e - 1
          /\ e <= Len(s) /\ Len(s) \in Nat
      BY <1>6, <1>9, <1>10, <2>1
    <3>2. i \in Nat \ {0} /\ k \in Nat /\ k = x + n
      BY <3>1
    <3>3. k <= Len(s)
      BY <3>1, <3>2
    <3>4. QED
      BY <3>2, <3>3
  <2>3. k = i + n - 1 /\ \A j \in 1 .. n : i + j - 1 = x + j
    <3>1. x \in Nat \ {0} /\ n \in Nat /\ e = x + n + 1 /\ i = x + 1 /\ k = e - 1
      BY <1>6, <1>10, <2>1
    <3>2. QED
      BY <3>1
  <2>4. \A j \in 1 .. n : s[i + j - 1] = val[j]
    BY <1>12, <2>3
  <2>5. SubSeq(s, i, k) = val
    <3>1. n = Len(val) /\ val \in Seq(Char)
      BY <1>2, <1>5
    <3>2. QED
      BY <2>2, <2>3, <2>4, <3>1, PartIs
  <2>6. QED
    BY <2>1, <2>5
<1>23. NewCmd(name, cmp, val) = c
  <2>1. NewCmd(name, cmp, val) = [name |-> name, cmp |-> cmp, set |-> TRUE, val |-> Meant(name, RTrim(val))]
    BY <1>2, NewCmdMakes
  <2>2. Meant(name, RTrim(val)) = val
    BY <1>2 DEF Meant
  <2>3. QED
    BY <1>2, <2>1, <2>2
<1>24. g.cmd = c /\ g.next = e + 1
  BY <1>21, <1>22, <1>23
<1>25. ReadFor(c, c)
  BY <1>1, <1>3 DEF ReadFor, Same
<1>26. QED
  BY <1>19, <1>24, <1>25

(* So what display_cmd writes for a command is read as it, from the blank  *)
(* before it or from its name on, and the text goes on with the next blank *)
(* or behind it.                                                           *)
LEMMA DisplayRead ==
    ASSUME NEW s \in Seq(Char), NEW p \in Nat \ {0}, NEW c, Sound(c), Readable(c),
           NEW t, t = DisplayCmd(c), Spelled(s, p, t), p + Len(t) <= Len(s) + 1,
           NameOrEnd(s, p + Len(t) - 1), NEW q \in {p, p + 1}
    PROVE  LET g == GetCmd(s, q)
               r == p + Len(t)
           IN  ReadFor(g.cmd, c) /\ (g.next = r \/ (g.next = r + 1 /\ r <= Len(s)))
<1>1. PICK sg \in Seq(Sign), body \in Seq(Char) :
              /\ t = <<"blank", c.name>> \o (sg \o body)
              /\ ~c.set => sg = <<>> /\ body = <<>>
              /\ c.set => sg = Signs[c.cmp] /\ body = Body(c)
  BY DisplayCmdIs
<1>2. PICK e : e = p + Len(t) - 1
  OBVIOUS
<1>3. c.name \in Name
  BY DEF Sound
<1>4. Len(t) \in Nat /\ Printed(s, p, c.name, sg, body, e)
  BY <1>1, <1>2, <1>3, SpelledPrints
<1>5. e + 1 = p + Len(t) /\ Len(s) \in Nat
  BY <1>2, <1>4
<1>6. PICK g : g = GetCmd(s, q)
  OBVIOUS
<1>7. CASE ~c.set
  <2>1. sg = <<>> /\ body = <<>> /\ Len(sg) = 0 /\ Len(body) = 0
    BY <1>1, <1>7
  <2>2. e = p + 1
    BY <1>4, <2>1 DEF Printed
  <2>3. Printed(s, p, c.name, <<>>, <<>>, p + 1) /\ NameOrEnd(s, p + 1)
    BY <1>2, <1>4, <2>1, <2>2
  <2>4. ReadFor(g.cmd, c) /\ g.next = IF p + 2 <= Len(s) THEN p + 3 ELSE p + 2
    BY <1>6, <1>7, <2>3, BareRead
  <2>5. p + Len(t) = p + 2 /\ (p + 2) + 1 = p + 3
    BY <1>5, <2>2
  <2>6. QED
    BY <1>6, <2>4, <2>5
<1>8. CASE c.set /\ c.name = "/usage"
  <2>1. Printed(s, p, c.name, Signs[c.cmp], Body(c), e) /\ NameOrEnd(s, e)
    BY <1>1, <1>2, <1>4, <1>8
  <2>2. ReadFor(g.cmd, c) /\ g.next = e + 1
    BY <1>6, <1>8, <2>1, NumberRead
  <2>3. QED
    BY <1>5, <1>6, <2>2
<1>9. CASE c.set /\ c.name # "/usage"
  <2>1. Printed(s, p, c.name, Signs[c.cmp], Body(c), e)
    BY <1>1, <1>4, <1>9
  <2>2. ReadFor(g.cmd, c) /\ g.next = e + 1
    BY <1>6, <1>9, <2>1, TextRead
  <2>3. QED
    BY <1>5, <1>6, <2>2
<1>10. QED
  BY <1>7, <1>8, <1>9

(* It begins with a blank and the name.                                    *)
LEMMA DisplayBegins ==
    ASSUME NEW c, Sound(c), Readable(c)
    PROVE  LET t == DisplayCmd(c)
           IN  t \in Seq(Char) /\ Len(t) \in Nat /\ Len(t) >= 2 /\ t[1] = "blank" /\ t[2] \in Name
<1>1. PICK sg \in Seq(Sign), body \in Seq(Char) : DisplayCmd(c) = <<"blank", c.name>> \o (sg \o body)
  BY DisplayCmdIs
<1>2. PICK name, t, a, b : name = c.name /\ t = DisplayCmd(c) /\ a = Len(sg) /\ b = Len(body)
  OBVIOUS
<1>3. name \in Name
  BY <1>2 DEF Sound
<1>4. a \in Nat /\ b \in Nat /\ t \in Seq(Char) /\ Len(t) = a + b + 2 /\ t[1] = "blank" /\ t[2] = name
  BY <1>1, <1>2, <1>3, DisplayIs
<1>5. Len(t) \in Nat /\ Len(t) >= 2
  BY <1>4
<1>6. QED
  BY <1>2, <1>3, <1>4, <1>5

\* The commands are printed in the text one behind the other.
AllPrinted(s, cmds, places) ==
    /\ s \in Seq(Char)
    /\ places \in [1 .. Len(cmds) + 1 -> 1 .. Len(s) + 1]
    /\ places[1] = 1 /\ places[Len(cmds) + 1] = Len(s) + 1
    /\ \A k \in 1 .. Len(cmds) :
          LET t == DisplayCmd(cmds[k])
          IN  /\ Len(t) \in Nat /\ Len(t) >= 2 /\ Spelled(s, places[k], t)
              /\ places[k + 1] = places[k] + Len(t)
              /\ NameOrEnd(s, places[k + 1] - 1)

(* So log_cmd prints them.                                                 *)
LEMMA LineOfCommands ==
    ASSUME NEW X, NEW cmds \in Seq(X), Len(cmds) # 0,
           \A k \in 1 .. Len(cmds) : Sound(cmds[k]) /\ Readable(cmds[k])
    PROVE  \E places : AllPrinted(FlattenSeq([k \in DOMAIN cmds |-> DisplayCmd(cmds[k])]), cmds, places)
<1>1. PICK N, seqs, s :
          N = Len(cmds) /\ seqs = [k \in DOMAIN cmds |-> DisplayCmd(cmds[k])] /\ s = FlattenSeq(seqs)
  OBVIOUS
<1>2. N \in Nat \ {0} /\ DOMAIN cmds = 1 .. N
  BY <1>1
<1>3. ASSUME NEW k \in 1 .. N
      PROVE  /\ seqs[k] = DisplayCmd(cmds[k])
             /\ seqs[k] \in Seq(Char) /\ Len(seqs[k]) \in Nat /\ Len(seqs[k]) >= 2
             /\ seqs[k][1] = "blank" /\ seqs[k][2] \in Name
  <2>1. PICK c, t : c = cmds[k] /\ t = DisplayCmd(c)
    OBVIOUS
  <2>2. seqs[k] = t
    BY <1>1, <1>2, <2>1
  <2>3. Sound(c) /\ Readable(c)
    BY <1>1, <2>1
  <2>4. t \in Seq(Char) /\ Len(t) \in Nat /\ Len(t) >= 2 /\ t[1] = "blank" /\ t[2] \in Name
    BY <2>1, <2>3, DisplayBegins
  <2>5. QED
    BY <2>1, <2>2, <2>4
<1>4. seqs \in Seq(Seq(Char)) /\ Len(seqs) = N
  <2>1. DOMAIN seqs = 1 .. N
    BY <1>1, <1>2
  <2>2. seqs = [k \in 1 .. N |-> seqs[k]]
    BY <1>1, <1>2
  <2>3. \A k \in 1 .. N : seqs[k] \in Seq(Char)
    BY <1>3
  <2>4. QED
    BY <1>2, <2>1, <2>2, <2>3
<1>5. PICK places : s \in Seq(Char) /\ Follow(s, seqs, places)
  BY <1>1, <1>2, <1>4, FlattenFollows
<1>6. /\ places \in [1 .. N + 1 -> 1 .. Len(s) + 1]
      /\ places[1] = 1 /\ places[N + 1] = Len(s) + 1
      /\ \A k \in 1 .. N : places[k + 1] = places[k] + Len(seqs[k]) /\ Spelled(s, places[k], seqs[k])
  BY <1>4, <1>5 DEF Follow
<1>7. ASSUME NEW k \in 1 .. N
      PROVE  NameOrEnd(s, places[k + 1] - 1)
  <2>1. PICK q, l : q = places[k + 1] /\ l = Len(s)
    OBVIOUS
  <2>2. k + 1 \in 1 .. N + 1 /\ k \in Nat
    BY <1>2
  <2>3. l \in Nat /\ q \in 1 .. l + 1 /\ (q - 1) + 1 = q /\ (q - 1) + 2 = q + 1
    BY <1>5, <1>6, <2>1, <2>2
  <2>4. SUFFICES ASSUME q <= l
                 PROVE  s[q] = "blank" /\ q + 1 <= l /\ s[q + 1] \in Name
    BY <2>1, <2>3 DEF NameOrEnd
  <2>5. k + 1 \in 1 .. N
    <3>1. q # l + 1
      BY <2>3, <2>4
    <3>2. k + 1 # N + 1
      BY <1>6, <2>1, <3>1
    <3>3. QED
      BY <1>2, <2>2, <3>2
  <2>6. PICK i, t, b : i = k + 1 /\ t = seqs[i] /\ b = Len(t)
    OBVIOUS
  <2>7. /\ i \in 1 .. N /\ i + 1 \in 1 .. N + 1 /\ Spelled(s, q, t) /\ places[i + 1] = q + b
        /\ b \in Nat /\ b >= 2 /\ t[1] = "blank" /\ t[2] \in Name
    <3>1. i \in 1 .. N /\ i + 1 \in 1 .. N + 1
      BY <1>2, <2>5, <2>6
    <3>2. places[i + 1] = places[i] + Len(seqs[i]) /\ Spelled(s, places[i], seqs[i])
      BY <1>6, <3>1
    <3>3. Len(seqs[i]) \in Nat /\ Len(seqs[i]) >= 2 /\ seqs[i][1] = "blank" /\ seqs[i][2] \in Name
      BY <1>3, <3>1
    <3>4. QED
      BY <2>1, <2>6, <3>1, <3>2, <3>3
  <2>8. q + b \in 1 .. l + 1
    BY <1>6, <2>1, <2>7
  <2>9. q + 1 <= l
    BY <2>3, <2>7, <2>8
  <2>10. 1 \in 1 .. b /\ 2 \in 1 .. b /\ q + 1 - 1 = q /\ q + 2 - 1 = q + 1
    BY <2>3, <2>7
  <2>11. s[q + 1 - 1] = t[1] /\ s[q + 2 - 1] = t[2]
    BY <2>6, <2>7, <2>10 DEF Spelled
  <2>12. QED
    BY <2>7, <2>9, <2>10, <2>11
<1>8. ASSUME NEW k \in 1 .. N
      PROVE  LET t == DisplayCmd(cmds[k])
             IN  /\ Len(t) \in Nat /\ Len(t) >= 2 /\ Spelled(s, places[k], t)
                 /\ places[k + 1] = places[k] + Len(t)
                 /\ NameOrEnd(s, places[k + 1] - 1)
  BY <1>3, <1>6, <1>7
<1>9. AllPrinted(s, cmds, places)
  BY <1>1, <1>5, <1>6, <1>8 DEF AllPrinted
<1>10. QED
  BY <1>1, <1>9

\* The line is read on at the k-th command from the blank before it or from its
\* name.
GoesOn(cmds, places, k, q) == q = places[k] \/ (q = places[k] + 1 /\ k <= Len(cmds))

\* What is read from there on is the k-th command and those behind it.
ReadsAgain(s, cmds, places, k) ==
    \A q : GoesOn(cmds, places, k, q) =>
        LET d == Parse1(s)[q]
            n == Len(cmds) - k + 1
        IN  Len(d) = n /\ \A i \in 1 .. n : ReadFor(d[i], cmds[k + i - 1])

(* A command before those that follow.                                     *)
LEMMA OneBefore ==
    ASSUME NEW X, NEW e \in Seq(X), NEW x
    PROVE  LET d == <<x>> \o e
           IN  Len(d) = 1 + Len(e) /\ d[1] = x /\ \A j \in 1 .. Len(e) : d[1 + j] = e[j]
<1>1. PICK u, Y : u = <<x>> /\ Y = X \cup {x}
  OBVIOUS
<1>2. u \in Seq(Y) /\ e \in Seq(Y) /\ Len(u) = 1 /\ u[1] = x /\ 1 \in 1 .. Len(u)
  BY <1>1
<1>3. /\ Len(u \o e) = Len(u) + Len(e)
      /\ \A j \in 1 .. Len(u) : (u \o e)[j] = u[j]
      /\ \A j \in 1 .. Len(e) : (u \o e)[Len(u) + j] = e[j]
  BY <1>2, Joined
<1>4. QED
  BY <1>1, <1>2, <1>3

(* One command more in the line is one more that is read.                  *)
LEMMA ReadsOneAgain ==
    ASSUME NEW s, NEW cmds, NEW places, AllPrinted(s, cmds, places), NEW k \in 1 .. Len(cmds),
           Len(cmds) \in Nat, Sound(cmds[k]), Readable(cmds[k]), ReadsAgain(s, cmds, places, k + 1)
    PROVE  ReadsAgain(s, cmds, places, k)
<1>1. PICK N, p, r, c, t, l :
         /\ N = Len(cmds) /\ p = places[k] /\ r = places[k + 1] /\ c = cmds[k] /\ t = DisplayCmd(c) /\ l = Len(s)
  OBVIOUS
<1>2. N \in Nat /\ k \in 1 .. N /\ k \in Nat /\ k \in 1 .. N + 1 /\ k + 1 \in 1 .. N + 1
  BY <1>1
<1>3. /\ s \in Seq(Char) /\ p \in 1 .. l + 1 /\ r \in 1 .. l + 1 /\ l \in Nat
      /\ Len(t) \in Nat /\ Len(t) >= 2 /\ Spelled(s, p, t) /\ r = p + Len(t) /\ NameOrEnd(s, r - 1)
      /\ places[N + 1] = l + 1
  <2>1. /\ s \in Seq(Char) /\ places \in [1 .. N + 1 -> 1 .. l + 1] /\ places[N + 1] = l + 1
        /\ Len(t) \in Nat /\ Len(t) >= 2 /\ Spelled(s, p, t) /\ r = p + Len(t) /\ NameOrEnd(s, r - 1)
    BY <1>1 DEF AllPrinted
  <2>2. l \in Nat
    BY <1>1, <2>1
  <2>3. p \in 1 .. l + 1 /\ r \in 1 .. l + 1
    BY <1>1, <1>2, <2>1
  <2>4. QED
    BY <2>1, <2>2, <2>3
<1>4. SUFFICES ASSUME NEW q, q = p \/ q = p + 1
               PROVE  LET d == Parse1(s)[q]
                          n == N - k + 1
                      IN  Len(d) = n /\ \A i \in 1 .. n : ReadFor(d[i], cmds[k + i - 1])
  BY <1>1 DEF ReadsAgain, GoesOn
<1>5. PICK g, d : g = GetCmd(s, q) /\ d = Parse1(s)[q]
  OBVIOUS
<1>6. ReadFor(g.cmd, c) /\ (g.next = r \/ (g.next = r + 1 /\ r <= l))
  <2>1. p \in Nat \ {0} /\ p + Len(t) <= Len(s) + 1 /\ p + Len(t) - 1 = r - 1
    BY <1>1, <1>3
  <2>2. q \in {p, p + 1} /\ Sound(c) /\ Readable(c) /\ NameOrEnd(s, p + Len(t) - 1)
    BY <1>1, <1>3, <1>4, <2>1
  <2>3. ReadFor(g.cmd, c) /\ (g.next = p + Len(t) \/ (g.next = p + Len(t) + 1 /\ p + Len(t) <= Len(s)))
    <3>1. s \in Seq(Char) /\ t = DisplayCmd(c) /\ Spelled(s, p, t) /\ g = GetCmd(s, q)
      BY <1>1, <1>3, <1>5
    <3> HIDE <1>1, <1>3, <1>5
    <3>2. QED
      BY <2>1, <2>2, <3>1, DisplayRead
  <2>4. QED
    BY <1>1, <1>3, <2>3
<1>7. q \in 1 .. Len(s) + 1 /\ g.next \in 1 .. Len(s) + 1 /\ g.next # 0
  <2>1. p + 2 <= l + 1
    <3>1. PICK b : b = Len(t)
      OBVIOUS
    <3>2. b \in Nat /\ b >= 2 /\ r = p + b /\ r \in 1 .. l + 1 /\ p \in 1 .. l + 1 /\ l \in Nat
      BY <1>3, <3>1
    <3>3. QED
      BY <3>2
  <2>2. l = Len(s) /\ l \in Nat /\ p \in 1 .. l + 1 /\ r \in 1 .. l + 1
    BY <1>1, <1>3
  <2>3. q \in 1 .. l + 1
    BY <1>4, <2>1, <2>2
  <2>4. g.next \in 1 .. l + 1 /\ g.next # 0
    <3>1. PICK n : n = g.next
      OBVIOUS
    <3>2. n = r \/ (n = r + 1 /\ r <= l)
      BY <1>6, <3>1
    <3>3. n \in 1 .. l + 1 /\ n # 0
      BY <2>2, <3>2
    <3>4. QED
      BY <3>1, <3>3
  <2>5. QED
    BY <2>2, <2>3, <2>4
<1>8. GoesOn(cmds, places, k + 1, g.next)
  <2>1. CASE g.next = r
    BY <1>1, <2>1 DEF GoesOn
  <2>2. CASE g.next = r + 1 /\ r <= l
    <3>1. r # l + 1
      BY <1>3, <2>2
    <3>2. k + 1 # N + 1
      BY <1>1, <1>3, <3>1
    <3>3. k + 1 <= N
      BY <1>2, <3>2
    <3>4. QED
      BY <1>1, <2>2, <3>3 DEF GoesOn
  <2>3. QED
    BY <1>6, <2>1, <2>2
<1>9. PICK e : e = Parse1(s)[g.next]
  OBVIOUS
<1>10. /\ e \in Seq(Found(s)) /\ Len(e) = N - (k + 1) + 1
       /\ \A i \in 1 .. N - (k + 1) + 1 : ReadFor(e[i], cmds[(k + 1) + i - 1])
  <2>1. e \in Seq(Found(s))
    BY <1>3, <1>7, <1>9, ParseFinds
  <2>2. QED
    BY <1>1, <1>8, <1>9, <2>1 DEF ReadsAgain
<1>11. d = <<g.cmd>> \o e
  <2>1. g.cmd.name \notin {"END", "EXIT"}
    <3>1. g.cmd.name = c.name /\ c.name \in Name
      BY <1>1, <1>6 DEF ReadFor, Sound
    <3>2. QED
      BY <3>1 DEF Name, CmdQuals
  <2>2. d = Step(s, Parse1(s), q)
    BY <1>3, <1>5, <1>7, ParseSteps
  <2>3. QED
    BY <1>5, <1>7, <1>9, <2>1, <2>2 DEF Step
<1>15. /\ Len(d) = 1 + Len(e) /\ d[1] = g.cmd
       /\ \A j \in 1 .. Len(e) : d[1 + j] = e[j]
  BY <1>10, <1>11, OneBefore
<1>16. Len(d) = N - k + 1
  BY <1>2, <1>10, <1>15
<1>17. ASSUME NEW i \in 1 .. N - k + 1
       PROVE  ReadFor(d[i], cmds[k + i - 1])
  <2>1. CASE i = 1
    <3>1. k + i - 1 = k
      BY <1>2, <2>1
    <3>2. QED
      BY <1>1, <1>6, <1>15, <2>1, <3>1
  <2>2. CASE i # 1
    <3>1. /\ i - 1 \in 1 .. N - (k + 1) + 1 /\ i - 1 \in 1 .. Len(e)
          /\ 1 + (i - 1) = i /\ (k + 1) + (i - 1) - 1 = k + i - 1
      BY <1>2, <1>10, <2>2
    <3>2. d[1 + (i - 1)] = e[i - 1] /\ ReadFor(e[i - 1], cmds[(k + 1) + (i - 1) - 1])
      BY <1>10, <1>15, <3>1
    <3>3. QED
      BY <3>1, <3>2
  <2>3. QED
    BY <2>1, <2>2
<1>18. QED
  BY <1>5, <1>16, <1>17

(* All commands are read again, ...                                        *)
LEMMA AllReadAgain ==
    ASSUME NEW s, NEW cmds, NEW places, AllPrinted(s, cmds, places), Len(cmds) \in Nat,
           \A k \in 1 .. Len(cmds) : Sound(cmds[k]) /\ Readable(cmds[k])
    PROVE  ReadsAgain(s, cmds, places, 1)
<1>1. PICK N : N = Len(cmds) /\ N \in Nat
  OBVIOUS
<1> DEFINE T == {n \in 1 .. N + 1 : ReadsAgain(s, cmds, places, n)}
<1>2. N + 1 \in T
  <2>1. s \in Seq(Char) /\ places[N + 1] = Len(s) + 1
    BY <1>1 DEF AllPrinted
  <2>2. Parse1(s)[places[N + 1]] = <<>>
    BY <2>1, NothingBehind
  <2>3. N - (N + 1) + 1 = 0 /\ ~(N + 1 <= N)
    BY <1>1
  <2>4. ReadsAgain(s, cmds, places, N + 1)
    BY <1>1, <2>2, <2>3 DEF ReadsAgain, GoesOn
  <2>5. QED
    BY <1>1, <2>4
<1>3. PICK n \in T : \A k \in T : n <= k
  <2>1. T \in SUBSET Nat /\ T # {}
    BY <1>1, <1>2
  <2> HIDE DEF T
  <2>2. QED
    BY <2>1, LeastNumber
<1>4. n = 1
  <2> SUFFICES ASSUME n # 1
               PROVE  FALSE
    OBVIOUS
  <2>1. n \in 1 .. N + 1 /\ ReadsAgain(s, cmds, places, n)
    BY <1>3
  <2>2. PICK k : k = n - 1
    OBVIOUS
  <2>3. k \in 1 .. N /\ k \in 1 .. N + 1 /\ k + 1 = n /\ ~(n <= k) /\ k \in 1 .. Len(cmds)
    BY <1>1, <2>1, <2>2
  <2>4. ReadsAgain(s, cmds, places, k + 1)
    BY <2>1, <2>3
  <2>5. ReadsAgain(s, cmds, places, k)
    BY <2>3, <2>4, ReadsOneAgain
  <2>6. k \in T
    BY <2>3, <2>5
  <2>7. QED
    BY <1>3, <2>3, <2>6
<1>5. QED
  BY <1>3, <1>4

(* ... they pass check_syntax, ...                                         *)
LEMMA PassesAgain ==
    ASSUME NEW cmds, NEW d, Len(cmds) \in Nat \ {0}, DOMAIN d = 1 .. Len(cmds), d # <<>>,
           \A k \in 1 .. Len(cmds) : /\ ReadFor(d[k], cmds[k]) /\ cmds[k].name \in Name
                                     /\ CmdQuals[cmds[k].name].command <=> k = 1
    PROVE  CheckSyntax(d)
<1>1. "ERR" \notin Name
  BY DEF Name, CmdQuals
<1>2. ASSUME NEW k \in DOMAIN d
      PROVE  /\ d[k].name # "ERR" /\ d[k].cmp # "ERR"
             /\ CmdQuals[d[k].name].command <=> k = 1
  <2>1. d[k].name = cmds[k].name /\ d[k].cmp # "ERR"
    BY DEF ReadFor
  <2>2. QED
    BY <1>1, <2>1
<1> DEFINE C == {k \in DOMAIN d : CmdQuals[d[k].name].command}
<1>3. C = {1}
  BY <1>2
<1>4. Cardinality({1}) = 1
  BY FS_Singleton
<1>5. Cardinality(C) <= 1
  <2> HIDE DEF C
  <2>1. QED
    BY <1>3, <1>4
<1>6. QED
  BY <1>2, <1>5 DEF CheckSyntax

(* ... and so the line of a command is read as the command.                *)
LEMMA LineReadsBack ==
    ASSUME NEW X, NEW cmds \in Seq(X), Len(cmds) # 0,
           \A k \in 1 .. Len(cmds) : /\ Sound(cmds[k]) /\ Readable(cmds[k])
                                     /\ CmdQuals[cmds[k].name].command <=> k = 1,
           NEW s, s = FlattenSeq([k \in DOMAIN cmds |-> DisplayCmd(cmds[k])])
    PROVE  LET again == ParseSlashCmd(s)
           IN  Len(again) = Len(cmds) /\ \A k \in DOMAIN cmds : Same(again[k], cmds[k])
<1>1. PICK N, d : N = Len(cmds) /\ d = Parse1(s)[1]
  OBVIOUS
<1>2. N \in Nat \ {0} /\ DOMAIN cmds = 1 .. N
  BY <1>1
<1>3. PICK places : AllPrinted(s, cmds, places)
  BY LineOfCommands
<1>4. s \in Seq(Char) /\ places[1] = 1
  BY <1>3 DEF AllPrinted
<1>5. ReadsAgain(s, cmds, places, 1)
  BY <1>1, <1>2, <1>3, AllReadAgain
<1>6. Len(d) = N /\ \A k \in 1 .. N : ReadFor(d[k], cmds[k])
  <2>1. Len(d) = N - 1 + 1 /\ \A i \in 1 .. N - 1 + 1 : ReadFor(d[i], cmds[1 + i - 1])
    BY <1>1, <1>4, <1>5 DEF ReadsAgain, GoesOn
  <2>2. N - 1 + 1 = N /\ \A i \in 1 .. N : 1 + i - 1 = i
    BY <1>2
  <2>3. QED
    BY <2>1, <2>2
<1>7. d \in Seq(Found(s))
  <2>1. 1 \in 1 .. Len(s) + 1
    BY <1>4
  <2>2. QED
    BY <1>1, <1>4, <2>1, ParseFinds
<1>8. DOMAIN d = 1 .. N /\ d # <<>>
  BY <1>2, <1>6, <1>7
<1>9. \A k \in 1 .. N : cmds[k].name \in Name
  BY <1>1 DEF Sound
<1>10. CheckSyntax(d)
  BY <1>1, <1>2, <1>6, <1>8, <1>9, PassesAgain
<1>11. ParseSlashCmd(s) = d
  BY <1>1, <1>10, ParseIsParse1
<1>12. QED
  BY <1>1, <1>2, <1>6, <1>11 DEF ReadFor

-----------------------------------------------------------------------------
(* What is in the chain when it is logged                                  *)

(* What newcmd makes has a value if one is required and none if there is   *)
(* none to have.                                                           *)
LEMMA NewCmdIsSound ==
    ASSUME NEW name \in Name, NEW cmp \in DOMAIN Signs, NEW v \in Seq(Char),
           NEW c, c = NewCmd(name, cmp, v), c.name # "ERR"
    PROVE  Sound(c)
<1>1. PICK text, type, opt : text = RTrim(v) /\ type = CmdQuals[name].type /\ opt = CmdQuals[name].val
  OBVIOUS
<1>2. (type = "number") <=> (name = "/usage")
  BY <1>1 DEF Name, CmdQuals
<1>3. text \in Seq(Char) /\ RTrim(text) = text /\ (v = <<>> => text = <<>>)
  BY <1>1, TrimmedOnce, NothingTrimmed
<1>4. /\ ~(v # <<>> /\ opt = "none") /\ ~(text = <<>> /\ opt = "required")
      /\ type = "label" => ToSet(text) \subseteq Digit \cup {"x"}
      /\ c = [name |-> name, cmp |-> cmp, set |-> text # <<>>,
              val |-> IF ~(text # <<>>) THEN <<>> ELSE IF type = "number" THEN Number(text) ELSE text]
  <2>1. c # [name |-> "ERR", cmp |-> cmp, set |-> FALSE, val |-> <<>>]
    OBVIOUS
  <2>2. QED
    BY <1>1, <2>1 DEF NewCmd
<1>5. CASE text = <<>>
  <2>1. c = [name |-> name, cmp |-> cmp, set |-> FALSE, val |-> <<>>]
    BY <1>4, <1>5
  <2>2. c.name = name /\ c.cmp = cmp /\ c.set = FALSE /\ c.val = <<>> /\ opt # "required"
    BY <1>4, <1>5, <2>1
  <2>3. IsCmd(c)
    BY <2>1, <2>2 DEF IsCmd
  <2>4. QED
    BY <1>1, <2>2, <2>3 DEF Sound
<1>6. CASE text # <<>>
  <2>1. PICK val : val = IF name = "/usage" THEN Number(text) ELSE text
    OBVIOUS
  <2>2. c = [name |-> name, cmp |-> cmp, set |-> TRUE, val |-> val]
    BY <1>2, <1>4, <1>6, <2>1
  <2>3. c.name = name /\ c.cmp = cmp /\ c.set = TRUE /\ c.val = val
    BY <2>2
  <2>4. IsCmd(c)
    BY <2>2, <2>3 DEF IsCmd
  <2>5. opt # "none"
    BY <1>3, <1>4, <1>6
  <2>6. IF name = "/usage" THEN val \in Nat
        ELSE /\ val \in Seq(Char) /\ val # <<>> /\ RTrim(val) = val
             /\ type = "label" => ToSet(val) \subseteq Digit \cup {"x"}
    <3>1. Number(text) \in Nat
      BY <1>3, NumbersAreNatural
    <3>2. CASE name = "/usage"
      BY <2>1, <3>1, <3>2
    <3>3. CASE name # "/usage"
      BY <1>3, <1>4, <1>6, <2>1, <3>3
    <3>4. QED
      BY <3>2, <3>3
  <2>7. QED
    BY <1>1, <2>3, <2>4, <2>5, <2>6 DEF Sound
<1>7. QED
  BY <1>5, <1>6

(* The value getcmd hands to newcmd is a part of the text.                 *)
LEMMA ValueWithin ==
    ASSUME NEW s \in Seq(Char), NEW p \in Nat \ {0}, p <= Len(s) + 1, NEW end \in 0 .. Len(s),
           NEW v, v = Value(s, p, end), v.ok
    PROVE  v.from \in Nat \ {0} /\ v.to \in Int /\ v.to <= Len(s)
<1>1. PICK l : l = Len(s) /\ l \in Nat
  OBVIOUS
<1>2. CASE At(s, p) \in Quote
  <2>1. PICK close : close = Index(s, p + 1, s[p])
    OBVIOUS
  <2>2. v = [ok |-> close # 0, from |-> p + 1, to |-> close - 1, next |-> IF close > end + 1 THEN close + 1 ELSE end + 1]
    BY <1>2, <2>1 DEF Value
  <2>3. v.from = p + 1 /\ v.to = close - 1
    BY <2>2
  <2>4. close = 0 \/ close \in p + 1 .. l
    <3>1. PICK i, c : i = p + 1 /\ c = s[p] /\ i \in Nat \ {0}
      OBVIOUS
    <3>2. Index(s, i, c) = 0 \/ Index(s, i, c) \in i .. Len(s)
      BY <3>1, IndexFinds
    <3>3. QED
      BY <1>1, <2>1, <3>1, <3>2
  <2>5. QED
    BY <1>1, <2>3, <2>4
<1>3. CASE At(s, p) \notin Quote
  <2>1. PICK stop : stop = Min({q \in p .. Len(s) : s[q] \in Name \cup {"blank"}} \cup {Len(s) + 1})
    OBVIOUS
  <2>2. stop \in p .. l + 1
    <3>1. Min({q \in p .. Len(s) : s[q] \in Name \cup {"blank"}} \cup {Len(s) + 1}) \in p .. Len(s) + 1
      BY NameStops
    <3>2. QED
      BY <1>1, <2>1, <3>1
  <2>3. v = [ok |-> TRUE, from |-> p, to |-> IF end = 0 THEN stop - 1 ELSE end - 1,
             next |-> IF end = 0 THEN stop ELSE end + 1]
    BY <1>3, <2>1 DEF Value
  <2>4. v.from = p /\ v.to = IF end = 0 THEN stop - 1 ELSE end - 1
    BY <2>3
  <2>5. QED
    BY <1>1, <2>2, <2>4
<1>4. QED
  BY <1>2, <1>3

(* So what getcmd reads is sound, if it is not an error.                   *)
LEMMA ReadIsSound ==
    ASSUME NEW s \in Seq(Char), NEW p \in 1 .. Len(s) + 1, NEW c, c = GetCmd(s, p).cmd,
           c.name \in Name, c.cmp # "ERR"
    PROVE  Sound(c)
<1>1. PICK start, f, end, after, m, signs, v :
           /\ Parts(s, p, start, f, end, after, m, signs, v)
           /\ GetCmd(s, p) = Reading(s, start, f, end, after, signs, v)
  BY GetCmdParts
<1>2. /\ "ERR" \notin Name /\ "END" \notin Name /\ "EXIT" \notin Name
      /\ Error.name = "ERR" /\ Other("END").name = "END" /\ Other("EXIT").name = "EXIT"
  BY DEF Name, CmdQuals, Error, Other
<1>3. PICK g : g = GetCmd(s, p) /\ c = g.cmd
  OBVIOUS
<1>4. /\ Named(s, start, f, end)
      /\ \/ /\ GetCmp(signs) \in {"NONE", "ERR"} /\ c = NewCmd(s[f], GetCmp(signs), <<>>)
         \/ /\ v.ok /\ ~(v.from > v.to) /\ c = NewCmd(s[f], GetCmp(signs), SubSeq(s, v.from, v.to))
  <2>1. c # Error /\ c # Other("END") /\ c # Other("EXIT")
    BY <1>2
  <2>2. \/ g = [cmd |-> Error, next |-> 0]
        \/ g = [cmd |-> Other("END"), next |-> 0]
        \/ g = [cmd |-> Other("EXIT"), next |-> 0]
        \/ /\ Named(s, start, f, end)
           /\ \/ /\ GetCmp(signs) \in {"NONE", "ERR"}
                 /\ g = [cmd |-> NewCmd(s[f], GetCmp(signs), <<>>), next |-> Max({after + Len(signs), end + 1})]
              \/ /\ v.ok /\ ~(v.from > v.to)
                 /\ g = [cmd |-> NewCmd(s[f], GetCmp(signs), SubSeq(s, v.from, v.to)), next |-> v.next]
    BY <1>1, <1>3 DEF Reading, Named
  <2>3. QED
    BY <1>3, <2>1, <2>2
<1>5. /\ f \in 1 .. Len(s) /\ s[f] \in Name
      /\ end \in 0 .. Len(s) /\ after \in 1 .. Len(s) + 1
      /\ signs \in Seq(Sign) /\ Len(signs) <= 2 /\ after + Len(signs) <= Len(s) + 1
  <2>1. /\ start \in p .. Len(s) + 1
        /\ f \in start .. Len(s) /\ s[f] \in Name
        /\ end \in f .. Len(s) \/ (end = 0 /\ At(s, start) \notin Quote)
        /\ after \in f + 1 .. Len(s) + 1
        /\ signs \in Seq(Sign) /\ Len(signs) <= 2
        /\ after + Len(signs) <= Len(s) + 1
    BY <1>1, <1>4, PartsPlaced
  <2>2. PICK l : l = Len(s) /\ l \in Nat
    OBVIOUS
  <2>3. f \in 1 .. l
    BY <2>1, <2>2
  <2>4. end \in 0 .. l /\ after \in 1 .. l + 1
    BY <2>1, <2>2, <2>3
  <2>5. QED
    BY <2>1, <2>2, <2>3, <2>4
<1>6. GetCmp(signs) \in DOMAIN Signs
  <2>1. GetCmp(signs) \in DOMAIN Signs \cup {"ERR"}
    BY <1>5, Comparisons
  <2>2. c.cmp = GetCmp(signs)
    BY <1>4, NewCmdNames
  <2>3. QED
    BY <2>1, <2>2
<1>7. c.name # "ERR"
  BY <1>2
<1>8. CASE c = NewCmd(s[f], GetCmp(signs), <<>>)
  <2>1. PICK u : u = <<>>
    OBVIOUS
  <2>2. u \in Seq(Char) /\ c = NewCmd(s[f], GetCmp(signs), u)
    BY <1>8, <2>1
  <2>3. QED
    BY <1>5, <1>6, <1>7, <2>2, NewCmdIsSound
<1>9. CASE v.ok /\ ~(v.from > v.to) /\ c = NewCmd(s[f], GetCmp(signs), SubSeq(s, v.from, v.to))
  <2>1. PICK b, x : b = Len(signs) /\ x = SkipWSpace(s, after + b)
    OBVIOUS
  <2>2. after + b \in Nat \ {0} /\ after + b <= Len(s) + 1
    <3>1. b \in Nat /\ after \in Nat \ {0} /\ after + b <= Len(s) + 1
      BY <1>5, <2>1
    <3>2. QED
      BY <3>1
  <2>3. x \in Nat \ {0} /\ x <= Len(s) + 1
    <3>1. PICK i : i = after + b
      OBVIOUS
    <3>2. x = Skip(s, i, {"blank"}) /\ i \in Nat \ {0} /\ i <= Len(s) + 1
      BY <2>1, <2>2, <3>1 DEF SkipWSpace
    <3>3. x \in i .. Len(s) + 1
      BY <3>2, SkipEnds
    <3>4. QED
      BY <3>2, <3>3
  <2>4. v = Value(s, x, end)
    BY <1>1, <2>1 DEF Parts
  <2>5. v.from \in Nat \ {0} /\ v.to \in Int /\ v.to <= Len(s)
    BY <1>5, <1>9, <2>3, <2>4, ValueWithin
  <2>6. PICK i, k : i = v.from /\ k = v.to
    OBVIOUS
  <2>7. i \in Nat \ {0} /\ k \in Nat /\ i <= k + 1 /\ k <= Len(s)
    BY <1>9, <2>5, <2>6
  <2>8. SubSeq(s, i, k) \in Seq(Char)
    BY <2>7, PartOf
  <2>9. PICK u : u = SubSeq(s, i, k) /\ u \in Seq(Char)
    BY <2>8
  <2>10. c = NewCmd(s[f], GetCmp(signs), u)
    BY <1>9, <2>6, <2>9
  <2>11. QED
    BY <1>5, <1>6, <1>7, <2>9, <2>10, NewCmdIsSound
<1>10. QED
  BY <1>4, <1>8, <1>9

\* A sequence of sound commands and nothing else.
SoundChain(cmds) == /\ \E X : cmds \in Seq(X)
                    /\ Len(cmds) # 0
                    /\ \A k \in 1 .. Len(cmds) : Sound(cmds[k])

(* It has a command at each of its places.                                 *)
LEMMA ChainPlaces ==
    ASSUME NEW cmds, SoundChain(cmds)
    PROVE  DOMAIN cmds = 1 .. Len(cmds)
<1>1. PICK X : cmds \in Seq(X)
  BY DEF SoundChain
<1>2. QED
  BY <1>1

(* parseslashcmd makes nothing else.                                       *)
LEMMA ParsedIsSound ==
    ASSUME NEW s \in Seq(Char), NEW cmds, cmds = ParseSlashCmd(s), cmds # <<>>
    PROVE  SoundChain(cmds)
<1>1. CheckSyntax(cmds) /\ cmds = Parse1(s)[1]
  BY ParseIsParse1
<1>2. cmds \in Seq(Found(s))
  <2>1. 1 \in 1 .. Len(s) + 1
    OBVIOUS
  <2>2. QED
    BY <1>1, <2>1, ParseFinds
<1>3. DOMAIN cmds = 1 .. Len(cmds) /\ Len(cmds) # 0
  BY <1>2
<1>4. ASSUME NEW k \in 1 .. Len(cmds)
      PROVE  Sound(cmds[k])
  <2>1. PICK c : c = cmds[k] /\ c \in Found(s)
    BY <1>2
  <2>2. c.name # "ERR" /\ c.cmp # "ERR"
    BY <1>1, <1>3, <2>1 DEF CheckSyntax
  <2>3. c # Error
    BY <2>2 DEF Error, Other
  <2>4. PICK p \in 1 .. Len(s) + 1 : c = GetCmd(s, p).cmd /\ c.name \notin {"END", "EXIT"}
    BY <2>1, <2>3 DEF Found
  <2>5. c.name \in Name
    BY <2>2, <2>4, GetCmdAdvances
  <2>6. Sound(c)
    BY <2>2, <2>4, <2>5, ReadIsSound
  <2>7. QED
    BY <2>1, <2>6
<1>5. QED
  BY <1>2, <1>3, <1>4 DEF SoundChain

(* A command that is given a value.                                        *)
LEMMA GivenValue ==
    ASSUME NEW c, IsCmd(c), NEW n
    PROVE  [c EXCEPT !.set = TRUE, !.val = n] = [name |-> c.name, cmp |-> c.cmp, set |-> TRUE, val |-> n]
<1>1. c = [name |-> c.name, cmp |-> c.cmp, set |-> c.set, val |-> c.val]
  BY DEF IsCmd
<1>2. PICK d : d = [c EXCEPT !.set = TRUE, !.val = n]
  OBVIOUS
<1>3. d = [name |-> c.name, cmp |-> c.cmp, set |-> TRUE, val |-> n]
  BY <1>1, <1>2
<1>4. QED
  BY <1>2, <1>3

(* modify_vol gives /usage a number.                                       *)
LEMMA FilledIsSound ==
    ASSUME NEW cmds, SoundChain(cmds), \A k \in 1 .. Len(cmds) : CmdQuals[cmds[k].name].command <=> k = 1,
           NEW usage \in Nat
    PROVE  SoundChain(FillUsage(cmds, usage))
<1>1. PICK d, n : d = FillUsage(cmds, usage) /\ n = usage + 1
  OBVIOUS
<1>2. PICK X : cmds \in Seq(X)
  BY DEF SoundChain
<1>3. CASE LastOf(cmds, "/usage") # 0 /\ ~cmds[2].set
  <2>1. PICK c : c = cmds[2]
    OBVIOUS
  <2>2. 2 \in 1 .. Len(cmds)
    <3>1. PICK j \in 2 .. Len(cmds) : cmds[j].name = "/usage"
      BY <1>3, NoneLast
    <3>2. QED
      BY <1>2, <3>1
  <2>3. Sound(c) /\ ~CmdQuals[c.name].command /\ ~c.set
    BY <1>3, <2>1, <2>2 DEF SoundChain
  <2>4. c.name = "/usage" /\ CmdQuals[c.name].val = "optional" /\ c.name \in Name /\ c.cmp \in DOMAIN Signs
    BY <2>3 DEF Sound, Name, CmdQuals
  <2>5. IsCmd(c)
    BY <2>3 DEF Sound
  <2>6. d = [cmds EXCEPT ![2].set = TRUE, ![2].val = n]
    BY <1>1, <1>3 DEF FillUsage
  <2>7. PICK e : e = [name |-> c.name, cmp |-> c.cmp, set |-> TRUE, val |-> n]
    OBVIOUS
  <2>8. d = [cmds EXCEPT ![2] = e]
    <3>1. [c EXCEPT !.set = TRUE, !.val = n] = e
      BY <2>5, <2>7, GivenValue
    <3>2. QED
      BY <1>2, <2>1, <2>2, <2>6, <3>1
  <2>9. Sound(e)
    <3>1. e.name = c.name /\ e.cmp = c.cmp /\ e.set = TRUE /\ e.val = n /\ n \in Nat
      BY <1>1, <2>7
    <3>2. IsCmd(e)
      BY <2>7, <3>1 DEF IsCmd
    <3>3. QED
      BY <2>4, <3>1, <3>2 DEF Sound
  <2>10. PICK Y : Y = X \cup {e}
    OBVIOUS
  <2>11. d \in Seq(Y) /\ Len(d) = Len(cmds)
    BY <1>2, <2>2, <2>8, <2>10
  <2>12. ASSUME NEW k \in 1 .. Len(cmds)
         PROVE  Sound(d[k])
    <3>1. d[k] = IF k = 2 THEN e ELSE cmds[k]
      BY <1>2, <2>8
    <3>2. Sound(cmds[k])
      BY DEF SoundChain
    <3>3. QED
      BY <2>9, <3>1, <3>2
  <2>13. QED
    BY <1>1, <2>11, <2>12 DEF SoundChain
<1>4. CASE ~(LastOf(cmds, "/usage") # 0 /\ ~cmds[2].set)
  BY <1>4 DEF FillUsage
<1>5. QED
  BY <1>3, <1>4

\* What is parsed, run and logged is a sound chain, and the line of the log is what
\* display_cmd writes for it.
Recorded ==
    /\ phase \in {"parsed", "run", "logged"} => SoundChain(chain)
    /\ phase = "logged" => line = FlattenSeq([k \in DOMAIN chain |-> DisplayCmd(chain[k])])

(* No action breaks this, while what is typed are words.                   *)
LEMMA RecordedStep == Chained /\ Recorded /\ [Next]_vars => Recorded'
<1> SUFFICES ASSUME Chained, Recorded, [Next]_vars
             PROVE  Recorded'
  OBVIOUS
<1>1. CASE Type
  <2>1. phase' = "type"
    BY <1>1 DEF Type
  <2>2. QED
    BY <2>1 DEF Recorded
<1>2. CASE Parse
  <2>1. chain' = ParseSlashCmd(MkCmdLine(typed)) /\ phase' = IF chain' = <<>> THEN "exited" ELSE "parsed"
    BY <1>2 DEF Parse
  <2>2. CASE chain' = <<>>
    <3>1. phase' = "exited"
      BY <2>1, <2>2
    <3>2. QED
      BY <3>1 DEF Recorded
  <2>3. CASE chain' # <<>>
    <3>1. PICK X, words : X = Commands \cup Qualifiers /\ words = typed
      OBVIOUS
    <3>2. /\ words \in Seq(X) /\ Len(words) # 0
          /\ \A k \in 1 .. Len(words) : IsWord(words[k])
      BY <3>1, TypedWords DEF Chained
    <3>3. PICK places : AllLaid(MkCmdLine(words), words, places)
      BY <3>2, LineOfWords
    <3>4. PICK s : s = MkCmdLine(words) /\ s \in Seq(Char)
      BY <3>3 DEF AllLaid
    <3>5. SoundChain(chain')
      BY <2>1, <2>3, <3>1, <3>4, ParsedIsSound
    <3>6. phase' = "parsed"
      BY <2>1, <2>3
    <3>7. QED
      BY <3>5, <3>6 DEF Recorded
  <2>4. QED
    BY <2>2, <2>3
<1>3. CASE Report \/ Modify \/ NotFound
  <2>1. /\ phase = "parsed" /\ phase' \in {"run", "exited"}
        /\ chain' = chain \/ \E u \in Nat : chain' = FillUsage(chain, u)
    <3>1. \A r \in Volumes : r.usage \in Nat
      BY CommandLineAssumption
    <3>2. QED
      BY <1>3, <3>1 DEF Report, Modify, NotFound
  <2>2. SoundChain(chain)
    BY <2>1 DEF Recorded
  <2>3. \A k \in 1 .. Len(chain) : CmdQuals[chain[k].name].command <=> k = 1
    <3>1. DOMAIN chain = 1 .. Len(chain)
      BY <2>2, ChainPlaces
    <3>2. QED
      BY <3>1 DEF Chained, CommandTypeOK
  <2>4. SoundChain(chain')
    BY <2>1, <2>2, <2>3, FilledIsSound
  <2>5. QED
    BY <2>1, <2>4 DEF Recorded
<1>4. CASE LogCmd
  <2>1. /\ phase = "run" /\ phase' = "logged" /\ chain' = chain
        /\ line' = FlattenSeq([k \in DOMAIN chain |-> DisplayCmd(chain[k])])
    BY <1>4 DEF LogCmd
  <2>2. SoundChain(chain)
    BY <2>1 DEF Recorded
  <2>3. QED
    BY <2>1, <2>2 DEF Recorded
<1>5. CASE UNCHANGED vars
  BY <1>5 DEF vars, Recorded
<1>6. QED
  BY <1>1, <1>2, <1>3, <1>4, <1>5 DEF Next

(* So it holds always.                                                     *)
LEMMA AlwaysRecorded == Spec => []Recorded
<1>1. Init => Recorded
  BY DEF Init, Recorded
<1>2. QED
  BY <1>1, RecordedStep, AlwaysChained, PTL DEF Spec

(* The line that is logged reads back as the command that ran, with its    *)
(* qualifiers, their comparisons and values, however many and whatever     *)
(* they are -- unless a text has a double quote in it, a comparison is     *)
(* `optional' or /usage was given its value by modify_vol.                 *)
THEOREM LogsReadBack == Spec => []LogReadsBackUnless
<1>1. ASSUME Chained, Recorded
      PROVE  LogReadsBackUnless
  <2> SUFFICES ASSUME phase = "logged",
                      \A k \in DOMAIN chain :
                         ~(/\ chain[k].set
                           /\ \/ chain[k].cmp \in {"OPT", "NONE"}
                              \/ chain[k].name # "/usage" /\ "\"" \in ToSet(chain[k].val))
               PROVE  ReadsBack
    BY DEF LogReadsBackUnless
  <2>1. SoundChain(chain) /\ line = FlattenSeq([k \in DOMAIN chain |-> DisplayCmd(chain[k])])
    BY <1>1 DEF Recorded
  <2>2. PICK X : chain \in Seq(X)
    BY <2>1 DEF SoundChain
  <2>3. Len(chain) # 0 /\ DOMAIN chain = 1 .. Len(chain)
    <3>1. Len(chain) # 0
      BY <2>1 DEF SoundChain
    <3>2. DOMAIN chain = 1 .. Len(chain)
      BY <2>1, ChainPlaces
    <3>3. QED
      BY <3>1, <3>2
  <2>4. ASSUME NEW k \in 1 .. Len(chain)
        PROVE  /\ Sound(chain[k]) /\ Readable(chain[k])
               /\ CmdQuals[chain[k].name].command <=> k = 1
    <3>1. Sound(chain[k])
      BY <2>1 DEF SoundChain
    <3>2. Readable(chain[k])
      BY <2>3 DEF Readable
    <3>3. CmdQuals[chain[k].name].command <=> k = 1
      BY <1>1, <2>3 DEF Chained, CommandTypeOK
    <3>4. QED
      BY <3>1, <3>2, <3>3
  <2>5. PICK cmds, s : cmds = chain /\ s = line
    OBVIOUS
  <2>6. /\ Len(ParseSlashCmd(s)) = Len(cmds)
        /\ \A k \in DOMAIN cmds : Same(ParseSlashCmd(s)[k], cmds[k])
    <3>1. /\ cmds \in Seq(X) /\ Len(cmds) # 0
          /\ s = FlattenSeq([k \in DOMAIN cmds |-> DisplayCmd(cmds[k])])
          /\ \A k \in 1 .. Len(cmds) : /\ Sound(cmds[k]) /\ Readable(cmds[k])
                                       /\ CmdQuals[cmds[k].name].command <=> k = 1
      BY <2>1, <2>2, <2>3, <2>4, <2>5
    <3>2. QED
      BY <3>1, LineReadsBack
  <2>7. QED
    BY <2>5, <2>6 DEF ReadsBack
<1>2. QED
  BY <1>1, AlwaysChained, AlwaysRecorded, PTL
=============================================================================
