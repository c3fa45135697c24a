----------------------------- MODULE CommandLine -----------------------------
(***************************************************************************)
(* The command language: what blib makes of the words a shell passes to    *)
(* it, which volumes /report then shows, the line that goes to the log and *)
(* what a replay reads from that line.                                     *)
(*                                                                         *)
(* A text is a sequence of characters, of which the name of a command or   *)
(* qualifier counts as one (it stands for any character sequence that      *)
(* begins with a slash).  Four names stand for the table CMDQUALS: a       *)
(* command and a qualifier with a text, a command without a value and a    *)
(* qualifier with an optional number.                                      *)
(***************************************************************************)
EXTENDS Integers, Sequences, SequencesExt, FiniteSetsExt

CONSTANTS
    Commands,       \* the words that are typed for a command, and those that
    Qualifiers,     \* are typed after it: records of a name, the signs of a
                    \* comparison, and a value
    MaxQualifiers,  \* bound on the words after the command
    Volumes         \* rows of volumes: a group and a usage count

Sign == {"=", ">", "<", "!", ",", ".", "?"}
Quote == {"'", "\""}
DigitValue ==
    [d \in {"0", "1", "2", "3", "4", "5", "6", "7", "8", "9"} |->
        CASE d = "0" -> 0 [] d = "1" -> 1 [] d = "2" -> 2 [] d = "3" -> 3 [] d = "4" -> 4
          [] d = "5" -> 5 [] d = "6" -> 6 [] d = "7" -> 7 [] d = "8" -> 8 [] d = "9" -> 9]
Digit == DOMAIN DigitValue

\* The columns val_type and val_opt of CMDQUALS, and whether it is a command.
CmdQuals ==
    [n \in {"/modify", "/report", "/group", "/usage"} |->
        CASE n = "/modify" -> [command |-> TRUE,  type |-> "label",  val |-> "required"]
          [] n = "/report" -> [command |-> TRUE,  type |-> "none",   val |-> "none"]
          [] n = "/group"  -> [command |-> FALSE, type |-> "text",   val |-> "required"]
          [] n = "/usage"  -> [command |-> FALSE, type |-> "number", val |-> "optional"]]

Name == DOMAIN CmdQuals
Character == Name \cup Quote \cup Digit \cup {"blank", "x"}

ASSUME CommandLineAssumption ==
    /\ \A w \in Commands \cup Qualifiers :
          w.name \in Name /\ w.signs \in Seq(Sign) /\ Len(w.signs) <= 2 /\ w.value \in Seq(Character)
    /\ \A w \in Commands : CmdQuals[w.name].command
    /\ MaxQualifiers \in Nat
    /\ \A r \in Volumes : r.group \in Seq(Digit \cup {"x"}) /\ r.usage \in Nat

VARIABLES
    typed,      \* the words of the shell
    phase,      \* type, parsed, run, logged or exited
    chain,      \* the command and its qualifiers (cmd_t)
    shown,      \* the volumes /report has shown
    line        \* what was written to the log

vars == <<typed, phase, chain, shown, line>>

-----------------------------------------------------------------------------
(* get_cmp                                                                 *)

\* What the first character says, and what the second makes of it.
FirstSign ==
    [s \in Sign |->
        CASE s = "=" -> "EQ" [] s \in {">", "."} -> "GT" [] s \in {"<", ","} -> "LT"
          [] s = "!" -> "NE" [] s = "?" -> "OPT"]

SecondSign ==
    [s \in Sign |->
        CASE s = "?"        -> [EQ |-> "OPT"]
          [] s = "="        -> [EQ |-> "EQ", GT |-> "GE", LT |-> "LE", NE |-> "NE", OPT |-> "OPT"]
          [] s \in {">", "."} -> [EQ |-> "GE", NE |-> "LE"]
          [] s \in {"<", ","} -> [EQ |-> "LE", NE |-> "GE"]
          [] s = "!"        -> [EQ |-> "NE", NE |-> "EQ", LT |-> "GE", GT |-> "LE"]]

\* Broken: the second sign is not looked at.
GetCmpFirst(signs) == IF signs = <<>> THEN "NONE" ELSE FirstSign[signs[1]]

GetCmp(signs) ==
    IF signs = <<>> THEN "NONE"
    ELSE LET first == FirstSign[signs[1]]
         IN  IF Len(signs) = 1 THEN first
             ELSE IF first \in DOMAIN SecondSign[signs[2]] THEN SecondSign[signs[2]][first]
             ELSE "ERR"

-----------------------------------------------------------------------------
(* getcmd                                                                  *)

\* The character at p; past the end of the text there is a nul.
At(s, p) == IF p \in DOMAIN s THEN s[p] ELSE "nul"

\* index(), 0 when there is none, and the first position from p not in C.
Index(s, p, c) == Min({q \in p .. Len(s) : s[q] = c} \cup {Len(s) + 1}) % (Len(s) + 1)
Skip(s, p, C) == Min({q \in p .. Len(s) : s[q] \notin C} \cup {Len(s) + 1})

SkipWSpace(s, p) == Skip(s, p, {"blank"})
RTrim(v) == SubSeq(v, 1, Max({0} \cup {k \in DOMAIN v : v[k] # "blank"}))

\* atoi: the leading digits.
Number(v) ==
    LET n[k \in 0 .. Len(v)] == IF k = 0 THEN 0 ELSE 10 * n[k - 1] + DigitValue[v[k]]
    IN  n[Skip(v, 1, Digit) - 1]

\* newcmd, with the checks of the value that getcmd makes before.
NewCmd(name, cmp, v) ==
    LET text == RTrim(v)
        set == text # <<>>
        type == CmdQuals[name].type
    IN  IF \/ v # <<>> /\ CmdQuals[name].val = "none"
           \/ text = <<>> /\ CmdQuals[name].val = "required"
           \/ type = "label" /\ ~(ToSet(text) \subseteq Digit \cup {"x"})
        THEN [name |-> "ERR", cmp |-> cmp, set |-> FALSE, val |-> <<>>]
        ELSE [name |-> name, cmp |-> cmp, set |-> set,
              val |-> IF ~set THEN <<>> ELSE IF type = "number" THEN Number(text) ELSE text]

\* Not a command: an error, or the end of the text.
Other(name) == [name |-> name, cmp |-> "NONE", set |-> FALSE, val |-> <<>>]
Error == Other("ERR")

\* The value at p of a command that ends at `end' (0 if the command is not within
\* quotes): where it starts, where it ends, and the first position after it.  getcmd
\* stands behind the quote at `end' when it meets the one at `close', and goes
\* further only if that is still to come.
Value(s, p, end) ==
    IF At(s, p) \in Quote
    THEN LET close == Index(s, p + 1, s[p])
         IN  [ok |-> close # 0, from |-> p + 1, to |-> close - 1,
              next |-> IF close > end + 1 THEN close + 1 ELSE end + 1]
    ELSE LET stop == Min({q \in p .. Len(s) : s[q] \in Name \cup {"blank"}} \cup {Len(s) + 1})
         IN  [ok |-> TRUE, from |-> p, to |-> IF end = 0 THEN stop - 1 ELSE end - 1,
              next |-> IF end = 0 THEN stop ELSE end + 1]

\* The next command of s from position p on: the command, and where the text goes
\* on, 0 if it does not (at its end, after an error, or because blib exits).
GetCmd(s, p) ==
    LET start == SkipWSpace(s, p)
        quoted == At(s, start) \in Quote
        f == IF quoted THEN start + 1 ELSE start
        end == IF quoted THEN Index(s, f, s[start]) ELSE 0
        stop(c) == [cmd |-> c, next |-> 0]
        after == SkipWSpace(s, f + 1)
        signs == SubSeq(s, after, Min({Skip(s, after, Sign) - 1, after + 1}))
        cmp == GetCmp(signs)
        v == Value(s, SkipWSpace(s, after + Len(signs)), end)
    IN  IF quoted /\ end = 0 THEN stop(Error)
        ELSE IF At(s, f) = "nul" THEN stop(Other("END"))
        \* copy_cmd reads on over what is not a sign, and over the question mark
        ELSE IF \/ At(s, f) \notin Name
                \/ At(s, f + 1) \notin Name \cup Quote \cup (Sign \ {"?"}) \cup {"blank", "nul"}
             THEN stop(Error)
        ELSE IF cmp \in {"NONE", "ERR"}
             THEN [cmd |-> NewCmd(s[f], cmp, <<>>), next |-> Max({after + Len(signs), end + 1})]
        ELSE IF ~v.ok THEN stop(Error)
        ELSE IF v.from > v.to THEN stop(Other("EXIT"))
        ELSE [cmd |-> NewCmd(s[f], cmp, SubSeq(s, v.from, v.to)), next |-> v.next]

\* Broken: a second command is not looked for.
CheckSyntaxAny(cmds) ==
    /\ cmds # <<>>
    /\ \A k \in DOMAIN cmds : cmds[k].name # "ERR" /\ cmds[k].cmp # "ERR"

CheckSyntax(cmds) ==
    /\ cmds # <<>>
    /\ \A k \in DOMAIN cmds : cmds[k].name # "ERR" /\ cmds[k].cmp # "ERR"
    /\ Cardinality({k \in DOMAIN cmds : CmdQuals[cmds[k].name].command}) <= 1

\* parseslashcmd: all commands of the text, <<>> if blib exits instead.
ParseSlashCmd(s) ==
    LET all[p \in 1 .. Len(s) + 1] ==
            LET g == GetCmd(s, p)
            IN  IF g.cmd.name = "END" THEN <<>>
                ELSE IF g.cmd.name = "EXIT" THEN <<Error>>
                ELSE IF g.next = 0 THEN <<g.cmd>>
                ELSE <<g.cmd>> \o all[g.next]
    IN  IF CheckSyntax(all[1]) THEN all[1] ELSE <<>>

-----------------------------------------------------------------------------
(* From the shell to the command                                           *)
Text(word) == <<word.name>> \o word.signs \o word.value

\* Broken: the words are joined as they are.
MkCmdLineBare(words) == FlattenSeq([k \in DOMAIN words |-> Text(words[k]) \o <<"blank">>])

\* mkcmdline: each word within quotes.
MkCmdLine(words) == FlattenSeq([k \in DOMAIN words |-> <<"'">> \o Text(words[k]) \o <<"'">>])

Init ==
    /\ typed \in {<<w>> : w \in Commands}
    /\ phase = "type" /\ chain = <<>> /\ shown = {} /\ line = <<>>

Type ==
    /\ phase = "type" /\ Len(typed) <= MaxQualifiers
    /\ \E w \in Qualifiers : typed' = Append(typed, w)
    /\ UNCHANGED <<phase, chain, shown, line>>

Parse ==
    /\ phase = "type"
    /\ chain' = ParseSlashCmd(MkCmdLine(typed))
    /\ phase' = IF chain' = <<>> THEN "exited" ELSE "parsed"
    /\ UNCHANGED <<typed, shown, line>>

-----------------------------------------------------------------------------
(* /modify and /report                                                     *)

\* make_filter_rec: of several qualifiers of one name the last.
LastOf(cmds, name) == Max({0} \cup {k \in 2 .. Len(cmds) : cmds[k].name = name})

\* modify_vol, of a volume (or, in /report, of a row of zeros) that no backup
\* has: /usage without a value is given one, the usage count plus one -- but it
\* is the first qualifier that is asked and that is given it.
FillUsage(cmds, usage) ==
    IF LastOf(cmds, "/usage") # 0 /\ ~cmds[2].set
    THEN [cmds EXCEPT ![2].set = TRUE, ![2].val = usage + 1]
    ELSE cmds

\* ... and whose value is read: there is none to read if the first has one and
\* /usage has not.
ReadsNothing(cmds) ==
    LET u == LastOf(cmds, "/usage") IN u # 0 /\ cmds[2].set /\ ~cmds[u].set

Code(c) ==
    CASE c = "blank" -> 32 [] c = "\"" -> 34 [] c = "'" -> 39 [] c \in Name -> 47
      [] c \in Digit -> 48 + DigitValue[c] [] c = "x" -> 120 [] c = "soh" -> 1 [] c = "nul" -> 0
      [] c = "!" -> 33 [] c = "," -> 44 [] c = "." -> 46 [] c = "<" -> 60 [] c = "=" -> 61
      [] c = ">" -> 62 [] c = "?" -> 63

\* strncasecmp: below, equal to or above 0.  (The letter has one case.)
TextCmp(u, v) ==
    LET differ == {k \in 1 .. Max({Len(u), Len(v)}) : Code(At(u, k)) # Code(At(v, k))}
    IN  IF differ = {} THEN 0 ELSE Code(At(u, Min(differ))) - Code(At(v, Min(differ)))

\* The bytes of a small number, as the text they are: below every character.
Bytes(n) == IF n = 0 THEN <<>> ELSE <<"soh">>

Keeps(cmp, d) ==
    CASE cmp = "LT" -> d < 0 [] cmp = "LE" -> d <= 0 [] cmp = "EQ" -> d = 0
      [] cmp = "GE" -> d >= 0 [] cmp = "GT" -> d > 0 [] cmp = "NE" -> d # 0
      [] OTHER -> TRUE

\* filtcmp: a text is the filter against the row, a number the row against the
\* filter.  The usage count may be compared with a text.
FiltcmpGroup(q, group) == Keeps(q.cmp, TextCmp(q.val, group))
FiltcmpUsage(q, usage) ==
    Keeps(q.cmp, IF q.name = "/usage" THEN usage - q.val ELSE TextCmp(q.val, Bytes(usage)))

\* filter_rec, with the qualifier modify_vol left for the usage count: the first.
FilterRec(cmds, r) ==
    /\ LastOf(cmds, "/group") # 0 => FiltcmpGroup(cmds[LastOf(cmds, "/group")], r.group)
    /\ LastOf(cmds, "/usage") # 0 => FiltcmpUsage(cmds[2], r.usage)

\* do_cmd_report.
Report ==
    /\ phase = "parsed" /\ chain[1].name = "/report"
    /\ IF ReadsNothing(chain) THEN phase' = "exited" /\ UNCHANGED <<chain, shown>>
       ELSE /\ phase' = "run"
            /\ chain' = FillUsage(chain, 0)
            /\ shown' = {r \in Volumes : FilterRec(chain', r)}
    /\ UNCHANGED <<typed, line>>

\* /modify of a volume that is there, and of one that is not.
Modify ==
    /\ phase = "parsed" /\ chain[1].name = "/modify"
    /\ \E r \in Volumes :
          IF ReadsNothing(chain) THEN phase' = "exited" /\ UNCHANGED chain
          ELSE phase' = "run" /\ chain' = FillUsage(chain, r.usage)
    /\ UNCHANGED <<typed, shown, line>>

NotFound ==
    /\ phase = "parsed" /\ chain[1].name = "/modify"
    /\ phase' = "run"
    /\ UNCHANGED <<typed, chain, shown, line>>

-----------------------------------------------------------------------------
(* log_cmd and the replay                                                  *)
Signs ==
    [NONE |-> <<>>, LT |-> <<",">>, LE |-> <<",", "=">>, EQ |-> <<"=">>, GE |-> <<".", "=">>,
     GT |-> <<".">>, NE |-> <<"!", "=">>, OPT |-> <<"?", "=">>]

\* The digits of a number.
Decimal(n) ==
    LET digit(i) == CHOOSE d \in Digit : DigitValue[d] = i
        text[m \in 0 .. n] == (IF m < 10 THEN <<>> ELSE text[m \div 10]) \o <<digit(m % 10)>>
    IN  text[n]

\* Broken: a text is printed without quotes.
DisplayCmdBare(c) ==
    <<"blank", c.name>> \o (IF ~c.set THEN <<>>
                        ELSE Signs[c.cmp] \o (IF c.name = "/usage" THEN Decimal(c.val) ELSE c.val))

DisplayCmd(c) ==
    <<"blank", c.name>> \o (IF ~c.set THEN <<>>
                        ELSE Signs[c.cmp] \o (IF c.name = "/usage" THEN Decimal(c.val)
                                              ELSE <<"\"">> \o c.val \o <<"\"">>))

LogCmd ==
    /\ phase = "run" /\ phase' = "logged"
    /\ line' = FlattenSeq([k \in DOMAIN chain |-> DisplayCmd(chain[k])])
    /\ UNCHANGED <<typed, chain, shown>>

Next == Type \/ Parse \/ Report \/ Modify \/ NotFound \/ LogCmd

Spec == Init /\ [][Next]_vars

-----------------------------------------------------------------------------
(* Properties                                                              *)

\* A chain that is carried out is one command and the qualifiers after it, each
\* with a comparison there is.
CommandTypeOK ==
    /\ phase \in {"type", "parsed", "run", "logged", "exited"}
    /\ \A k \in DOMAIN chain :
          /\ chain[k].name \in Name /\ chain[k].cmp \in DOMAIN Signs
          /\ CmdQuals[chain[k].name].command <=> k = 1
    /\ shown \subseteq Volumes

Trim(v) == LET r == RTrim(v) IN SubSeq(r, SkipWSpace(r, 1), Len(r))
Quoted(w) == \E k \in DOMAIN w.value : w.value[k] \in Quote

\* What a shell passes as one word is one command or qualifier for blib, with
\* the name and all of the value of the word: blanks and slashes in a value never
\* make two of one or one of two.  A quote in a value may, since mkcmdline puts the
\* word in single quotes and looks for none in it: /usage=x'/usage'/usage is three.
WordsStayApart ==
    phase = "parsed" /\ (\A k \in DOMAIN typed : ~Quoted(typed[k])) =>
        /\ Len(chain) = Len(typed)
        /\ \A k \in DOMAIN typed :
              /\ chain[k].name = typed[k].name
              /\ chain[k].set =>
                    chain[k].val = IF typed[k].name = "/usage" THEN Number(Trim(typed[k].value))
                                   ELSE Trim(typed[k].value)

\* The comparisons as the help text explains them: < (or ,) and > (or .), a sign
\* more for `or equal', ! for the opposite.
SignMeans(c) ==
    CASE c = "=" -> {"equal"} [] c \in {"<", ","} -> {"less"}
      [] c \in {">", "."} -> {"greater"} [] c = "!" -> {"less", "greater"}

Means(signs) ==
    LET others(S) == {"less", "equal", "greater"} \ S
    IN  IF Len(signs) = 1 THEN SignMeans(signs[1])
        ELSE IF signs[1] = "!" THEN others(SignMeans(signs[2]))
        ELSE IF signs[2] = "!" THEN others(SignMeans(signs[1]))
        ELSE SignMeans(signs[1]) \cup SignMeans(signs[2])

\* Volume r is one that the qualifier typed as w asks for.
Asks(w, r) ==
    LET d == IF w.name = "/usage" THEN r.usage - Number(Trim(w.value))
             ELSE TextCmp(r.group, Trim(w.value))
    IN  \/ w.signs = <<>> \/ "?" \in ToSet(w.signs)
        \/ (IF d < 0 THEN "less" ELSE IF d = 0 THEN "equal" ELSE "greater") \in Means(w.signs)

ShowsWhatIsAsked ==
    shown = {r \in Volumes : \A k \in 2 .. Len(typed) : Asks(typed[k], r)}

Reporting == phase = "run" /\ chain[1].name = "/report" /\ \A k \in DOMAIN typed : ~Quoted(typed[k])

\* do_cmd_help: `When using command /report results can be filtered by most of
\* the volume qualifiers'.  It shows the volumes that every filter asks for.
ReportShowsWhatIsAsked == Reporting => ShowsWhatIsAsked

\* ... if there is one filter of a kind, /usage is the first, and a text is only
\* compared for being equal or not.
ReportIsRightInOrder ==
    /\ Reporting
    /\ \A j, k \in 2 .. Len(typed) : typed[j].name = typed[k].name => j = k
    /\ \A k \in 2 .. Len(typed) :
          IF typed[k].name = "/usage" THEN k = 2 ELSE chain[k].cmp \in {"EQ", "NE", "OPT"}
    => ShowsWhatIsAsked

\* The same command: the comparison of a qualifier without a value is nothing.
Same(c, d) == c = d \/ (~c.set /\ ~d.set /\ c.name = d.name)
ReadsBack ==
    LET again == ParseSlashCmd(line)
    IN  Len(again) = Len(chain) /\ \A k \in DOMAIN chain : Same(again[k], chain[k])

\* The log is there to be replayed: its line reads back as the command that ran,
\* unless a text has a double quote in it, the comparison is `optional', or
\* /usage was given its value by modify_vol, which sets no comparison: `/usage'
\* is logged as `/usage1', and a replay stops there.  Blanks and slashes do no
\* harm.
LogReadsBackUnless ==
    phase = "logged" =>
        \/ ReadsBack
        \/ \E k \in DOMAIN chain :
              /\ chain[k].set
              /\ \/ chain[k].cmp \in {"OPT", "NONE"}
                 \/ chain[k].name # "/usage" /\ "\"" \in ToSet(chain[k].val)
=============================================================================
