-------------------------- MODULE CommandLineProofs --------------------------
(***************************************************************************)
(* The loop over the URLs, the exit code and the standard output, for any  *)
(* commands, netrc files, servers, old files and failures.                 *)
(***************************************************************************)
EXTENDS CommandLine, SequenceTheorems, WellFoundedInduction, TLAPS

IsSequence(s) == \E S : s \in Seq(S)

Failed(s) == \E i \in DOMAIN s : s[i].err # "none"

\* A URL has a result and the loop is not past it.
Recorded == pc = "emit" \/ exit = "pipe"

\* The loop: one result for each URL before at, and none later.
LoopInv ==
    /\ cmd \in Commands
    /\ at \in Nat \ {0} /\ at <= Len(URLs) + 1
    /\ IsSequence(results)
    /\ Len(results) = IF Recorded THEN at ELSE at - 1
    /\ Recorded => cmd.json
    /\ pc \in {"auth", "probe", "source", "emit"} => at <= Len(URLs)
    /\ pc = "flags" => at = 1
    /\ pc # "exited" => exit = "none"
    /\ exit \in {"ok", "failed"} => at = Len(URLs) + 1

\* What the guards of RunE leave: standard output has one use.
SinksInv ==
    /\ pc \notin {"flags", "exited"} => ~(cmd.json /\ ToStdout) /\ (ToStdout => Single)
    /\ ToStdout => Single \/ at = 1

\* The lines written: the records of the URLs before at, or at most one body.
OutputInv ==
    /\ cmd.json \/ ToStdout => IsSequence(stdout)
    /\ cmd.json => /\ Len(stdout) = at - 1
                   /\ \A i \in 1 .. Len(stdout) : stdout[i] = Says("record", i)
    /\ ToStdout => /\ Len(stdout) <= at - 1
                   /\ \A i \in 1 .. Len(stdout) : stdout[i].kind = "body"

\* The flag of the JSON loop agrees with the results.
ExitInv ==
    /\ anyFailed \in BOOLEAN
    /\ anyFailed <=> Failed(results)
    /\ ExitTells

CommandInv == LoopInv /\ SinksInv /\ OutputInv /\ ExitInv

-----------------------------------------------------------------------------
(* Sequences.                                                              *)

LEMMA SequenceFacts ==
    ASSUME NEW s, IsSequence(s)
    PROVE  Len(s) \in Nat /\ DOMAIN s = 1 .. Len(s)
  BY LenProperties DEF IsSequence

LEMMA Appended ==
    ASSUME NEW s, IsSequence(s), NEW e
    PROVE  /\ IsSequence(Append(s, e))
           /\ Len(Append(s, e)) = Len(s) + 1
           /\ \A i \in 1 .. Len(s) : Append(s, e)[i] = s[i]
           /\ Append(s, e)[Len(s) + 1] = e
<1>1. PICK S : s \in Seq(S)
  BY DEF IsSequence
<1> DEFINE T == S \cup {e}
<1>2. s \in Seq(T) /\ e \in T
  BY <1>1, SeqMonotonic
<1> HIDE DEF T
<1> QED
  BY <1>2, AppendProperties DEF IsSequence

LEMMA EmptyIsSequence == IsSequence(<<>>) /\ Len(<<>>) = 0 /\ DOMAIN <<>> = {}
  BY EmptySeq DEF IsSequence

\* Printing nothing, and printing one line.
LEMMA Printed ==
    ASSUME NEW s, IsSequence(s), NEW x, NEW n
    PROVE  /\ s \o [k \in DOMAIN <<>> |-> Says(<<>>[k], n)] = s
           /\ s \o [k \in DOMAIN <<x>> |-> Says(<<x>>[k], n)] = Append(s, Says(x, n))
           /\ s \o <<>> = s
<1>1. PICK S : s \in Seq(S)
  BY DEF IsSequence
<1> DEFINE T == S \cup {Says(x, n)}
<1>2. s \in Seq(T) /\ Says(x, n) \in T
  BY <1>1, SeqMonotonic
<1> HIDE DEF T
<1>3. s \o <<>> = s
  BY <1>2, ConcatEmptySeq
<1>4. [k \in DOMAIN <<>> |-> Says(<<>>[k], n)] = <<>>
  OBVIOUS
<1>5. [k \in DOMAIN <<x>> |-> Says(<<x>>[k], n)] = <<Says(x, n)>>
  OBVIOUS
<1>6. s \o <<Says(x, n)>> = Append(s, Says(x, n))
  BY <1>2, AppendIsConcat
<1> QED
  BY <1>3, <1>4, <1>5, <1>6

LEMMA ListFacts ==
    ASSUME NEW s, IsList(s)
    PROVE  Len(s) \in Nat /\ DOMAIN s = 1 .. Len(s) /\ IsSequence(s)
  BY LenProperties DEF IsList, IsSequence

LEMMA URLsFacts == cmd \in Commands => Len(URLs) \in Nat /\ cmd.json \in BOOLEAN
  BY CommandLineConstants, ListFacts DEF URLs

-----------------------------------------------------------------------------
(* The names of files.                                                     *)

\* What no name may be: it would name a directory, or nothing.
SafeName(n) == n \notin {".", "..", "NUL"}

LEMMA LeastNat ==
    ASSUME NEW T, T \subseteq Nat, T # {}
    PROVE  \E x \in T : \A y \in T : x <= y
<1> DEFINE Less == {p \in Nat \X Nat : p[1] < p[2]}
<1>1. IsWellFoundedOn(Less, Nat)
  <2>1. OpToRel(<, Nat) = Less
    BY DEF OpToRel
  <2> HIDE DEF Less
  <2> QED
    BY <2>1, NatLessThanWellFounded
<1>2. PICK x \in T : \A y \in T : ~(<<y, x>> \in Less)
  <2> HIDE DEF Less
  <2> QED
    BY <1>1, WFMin
<1>3. ASSUME NEW y \in T PROVE x <= y
  <2>1. ~(<<y, x>> \in Less) /\ x \in Nat /\ y \in Nat
    BY <1>2
  <2>2. ~(y < x)
    BY <2>1
  <2> QED
    BY <2>1, <2>2
<1> QED
  BY <1>3

LEMMA MaxIsMember ==
    ASSUME NEW n \in Nat, NEW I, I \subseteq 1 .. n, I # {}
    PROVE  Max(I) \in I
<1> DEFINE T == {n - x : x \in I}
<1>1. T \subseteq Nat /\ T # {}
  <2>1. \A x \in I : n - x \in Nat
    OBVIOUS
  <2> QED
    BY <2>1
<1>2. PICK t \in T : \A y \in T : t <= y
  <2> HIDE DEF T
  <2> QED
    BY <1>1, LeastNat
<1>3. PICK x \in I : t = n - x
  OBVIOUS
<1>4. \A y \in I : x >= y
  <2> TAKE y \in I
  <2>1. n - x <= n - y /\ x \in Int /\ y \in Int
    BY <1>2, <1>3
  <2> QED
    BY <2>1
<1> QED
  BY <1>4 DEF Max

\* path.Base is an element of the name, or nothing.
LEMMA BaseIsElement ==
    ASSUME NEW name, IsList(name)
    PROVE  Base(name) = "" \/ \E i \in 1 .. Len(name) : Base(name) = name[i]
<1> DEFINE I == {i \in 1 .. Len(name) : name[i] # ""}
<1>1. Len(name) \in Nat
  BY ListFacts
<1>2. SelectLastInSeq(name, LAMBDA e : e # "") = IF I # {} THEN Max(I) ELSE 0
  BY DEF SelectLastInSeq
<1>3. CASE I = {}
  BY <1>2, <1>3 DEF Base
<1>4. CASE I # {}
  <2>1. Max(I) \in I
    BY <1>1, <1>4, MaxIsMember
  <2> QED
    BY <1>1, <1>2, <1>4, <2>1 DEF Base
<1> QED
  BY <1>3, <1>4

LEMMA SanitizedIsSafe ==
    ASSUME NEW name, IsList(name)
    PROVE  SafeName(SanitizeFilename(name))
<1>1. CASE Contains(name, "NUL")
  BY <1>1 DEF SanitizeFilename, SafeName
<1>2. CASE ~Contains(name, "NUL")
  BY <1>2, BaseIsElement DEF SanitizeFilename, SafeName, Contains
<1> QED
  BY <1>1, <1>2

LEMMA ShortLists == IsList(<<>>) /\ \A x : IsList(<<x>>)
<1>1. IsList(<<>>)
  BY EmptySeq DEF IsList
<1>2. ASSUME NEW x PROVE IsList(<<x>>)
  BY DEF IsList, ToSet
<1> QED
  BY <1>1, <1>2

LEMMA DerivedIsSafe ==
    ASSUME NEW disposition, NEW final, NEW path, IsList(disposition), IsList(final), IsList(path)
    PROVE  SafeName(DerivedName(disposition, final, path))
<1> DEFINE names == <<SanitizeFilename(disposition), SanitizeFilename(UrlBasename(final)),
                      SanitizeFilename(UrlBasename(path)), FallbackName>>
           I == {i \in 1 .. Len(names) : names[i] # ""}
<1>1. ASSUME NEW p, IsList(p) PROVE SafeName(SanitizeFilename(UrlBasename(p)))
  BY ShortLists, SanitizedIsSafe DEF UrlBasename
<1>2. SafeName(FallbackName) /\ FallbackName # ""
  BY DEF SafeName, FallbackName
<1>3. \A i \in 1 .. 4 : SafeName(names[i])
  <2> TAKE i \in 1 .. 4
  <2>1. CASE i = 1
    BY <2>1, SanitizedIsSafe
  <2>2. CASE i = 2
    BY <1>1, <2>2
  <2>3. CASE i = 3
    BY <1>1, <2>3
  <2>4. CASE i = 4
    BY <1>2, <2>4
  <2> QED
    BY <2>1, <2>2, <2>3, <2>4
<1>4. Len(names) = 4 /\ names[4] = FallbackName
  OBVIOUS
<1> HIDE DEF names
<1>5. I \subseteq 1 .. 4 /\ I # {}
  <2>1. 1 .. Len(names) = 1 .. 4 /\ 4 \in 1 .. 4
    BY <1>4
  <2>2. names[4] # ""
    BY <1>2, <1>4
  <2>3. 4 \in I
    BY <2>1, <2>2
  <2> QED
    BY <2>1, <2>3
<1>6. Min(I) \in I
  <2>1. \E x \in I : \A y \in I : x <= y
    <3> HIDE DEF I
    <3>1. I \subseteq Nat
      BY <1>5
    <3> QED
      BY <1>5, <3>1, LeastNat
  <2> QED
    BY <2>1 DEF Min
<1>7. SelectInSeq(names, LAMBDA n : n # "") = Min(I)
  BY <1>5 DEF SelectInSeq
<1>8. DerivedName(disposition, final, path) = names[SelectInSeq(names, LAMBDA n : n # "")]
  BY DEF DerivedName, names
<1> QED
  BY <1>3, <1>5, <1>6, <1>7, <1>8

-----------------------------------------------------------------------------
(* What the steps have in common.                                          *)

\* The steps inside a turn of the loop.
Turn == SkipURL \/ BeginURL \/ ResolveAuth \/ Probe \/ ProbeFails \/ BeginStdout
          \/ Transfer \/ TransferFails \/ (AuthFails /\ ~Single)

\* Such a step goes on with the URL, or has its result.
LEMMA TurnStep ==
    ASSUME LoopInv, Turn
    PROVE  /\ UNCHANGED world
           /\ pc \in {"next", "auth", "probe", "source"} /\ at <= Len(URLs)
           /\ \/ \E r : Record(r)
              \/ /\ UNCHANGED <<at, results, anyFailed, exit>>
                 /\ pc' \in {"auth", "probe", "source"}
<1> DEFINE Goal == /\ UNCHANGED world
                   /\ pc \in {"next", "auth", "probe", "source"} /\ at <= Len(URLs)
                   /\ \/ \E r : Record(r)
                      \/ /\ UNCHANGED <<at, results, anyFailed, exit>>
                         /\ pc' \in {"auth", "probe", "source"}
<1>0. pc \in {"auth", "probe", "source", "emit"} => at <= Len(URLs)
  BY DEF LoopInv
<1>1. CASE SkipURL
  BY <1>1 DEF SkipURL, Fail
<1>2. CASE BeginURL \/ ResolveAuth \/ BeginStdout
  BY <1>0, <1>2 DEF BeginURL, ResolveAuth, BeginStdout, Goto, out
<1>3. CASE AuthFails /\ ~Single
  BY <1>0, <1>3 DEF AuthFails, Fail
<1>4. CASE Probe
  BY <1>0, <1>4 DEF Probe, Skip, Done, Goto, out
<1>5. CASE ProbeFails
  BY <1>0, <1>5 DEF ProbeFails, Skip, Done, Goto, out
<1>6. CASE Transfer
  BY <1>0, <1>6 DEF Transfer, Done
<1>7. CASE TransferFails
  BY <1>0, <1>7 DEF TransferFails, SourceFails, Done, Goto, out
<1> QED
  BY <1>1, <1>2, <1>3, <1>4, <1>5, <1>6, <1>7 DEF Turn

\* With --json such a step prints nothing; with -o - it prints a body once, with
\* the result of the URL.
LEMMA TurnPrints ==
    ASSUME LoopInv, SinksInv, cmd.json \/ ToStdout, IsSequence(stdout), Turn
    PROVE  \/ stdout' = stdout
           \/ /\ ToStdout /\ stdout' = Append(stdout, Says("body", at))
              /\ \E r : Record(r)
<1> DEFINE Goal == \/ stdout' = stdout
                   \/ /\ ToStdout /\ stdout' = Append(stdout, Says("body", at))
                      /\ \E r : Record(r)
<1>0. ~Notes
  BY DEF Notes
<1>1. ASSUME NEW r, NEW kinds, Done(r, kinds), kinds = <<>> \/ (kinds = <<"body">> /\ ToStdout)
      PROVE  Goal
  <2>1. CASE kinds = <<>>
    BY <1>1, <2>1, Printed DEF Done
  <2>2. CASE kinds = <<"body">> /\ ToStdout
    <3>1. stdout' = stdout \o [k \in DOMAIN <<"body">> |-> Says(<<"body">>[k], at)] /\ Record(r)
      BY <1>1, <2>2 DEF Done
    <3>2. stdout' = Append(stdout, Says("body", at))
      BY <3>1, Printed
    <3> QED
      BY <2>2, <3>1, <3>2
  <2> QED
    BY <1>1, <2>1, <2>2
<1>2. CASE SkipURL \/ BeginURL \/ ResolveAuth \/ (AuthFails /\ ~Single)
  BY <1>2 DEF SkipURL, BeginURL, ResolveAuth, AuthFails, out
<1>3. CASE BeginStdout
  BY <1>0, <1>3, Printed DEF BeginStdout
<1>4. CASE Probe
  BY <1>0, <1>1, <1>4 DEF Probe, Skip, out
<1>5. CASE ProbeFails
  BY <1>0, <1>1, <1>5 DEF ProbeFails, Skip, out
<1>6. CASE Transfer
  BY <1>0, <1>1, <1>6 DEF Transfer
<1>7. CASE TransferFails
  <2>1. ASSUME NEW e, NEW r, NEW emitted, emitted => ToStdout, SourceFails(e, r, emitted)
        PROVE  Goal
    BY <1>1, <2>1 DEF SourceFails, out
  <2>2. \E e, r : \E emitted \in BOOLEAN : (emitted => ToStdout) /\ SourceFails(e, r, emitted)
    BY <1>7 DEF TransferFails
  <2> QED
    BY <2>1, <2>2
<1> QED
  BY <1>2, <1>3, <1>4, <1>5, <1>6, <1>7 DEF Turn

\* All other steps.
LEMMA NextIs == Next <=> \/ Turn \/ Cancel \/ CheckFlags \/ (AuthFails /\ Single)
                         \/ Emit \/ EmitFails \/ Finish \/ Terminated
  BY DEF Next, Turn

LEMMA WorldStep == [Next]_vars => UNCHANGED world /\ URLs' = URLs
<1> SUFFICES ASSUME [Next]_vars PROVE UNCHANGED world /\ URLs' = URLs
  OBVIOUS
<1>1. UNCHANGED world
  BY DEF Next, Cancel, CheckFlags, SkipURL, BeginURL, ResolveAuth, AuthFails, Probe, ProbeFails,
     BeginStdout, Transfer, TransferFails, Emit, EmitFails, Finish, Terminated, vars
<1> QED
  BY <1>1 DEF world, URLs

-----------------------------------------------------------------------------
(* Every step preserves the four parts.                                    *)

LEMMA LoopStep == CommandInv /\ [Next]_vars => LoopInv'
<1> SUFFICES ASSUME CommandInv, [Next]_vars PROVE LoopInv'
  OBVIOUS
<1>0. /\ LoopInv /\ Len(URLs) \in Nat /\ URLs' = URLs /\ cmd' = cmd /\ cmd.json \in BOOLEAN
      /\ Len(results) \in Nat
  BY WorldStep, URLsFacts, SequenceFacts DEF CommandInv, LoopInv, world
<1> USE DEF LoopInv, Recorded
<1>1. CASE Turn
  <2>1. pc \in {"next", "auth", "probe", "source"} /\ at <= Len(URLs) /\ exit = "none"
    BY <1>0, <1>1, TurnStep
  <2>2. CASE \E r : Record(r)
    <3> PICK r : Record(r)
      BY <2>2
    <3>1. IsSequence(results') /\ Len(results') = at
      BY <1>0, <2>1, Appended DEF Record
    <3>2. /\ exit' = "none" /\ pc' = IF cmd.json THEN "emit" ELSE "next"
          /\ at' = IF cmd.json THEN at ELSE at + 1
      BY <2>1 DEF Record, Goto
    <3> QED
      BY <1>0, <2>1, <3>1, <3>2
  <2>3. CASE UNCHANGED <<at, results, anyFailed, exit>> /\ pc' \in {"auth", "probe", "source"}
    BY <1>0, <2>1, <2>3
  <2> QED
    BY <1>0, <1>1, <2>2, <2>3, TurnStep
<1>2. CASE Cancel \/ Terminated \/ UNCHANGED vars
  <2>1. UNCHANGED <<pc, at, results, exit>>
    BY <1>2 DEF Cancel, Terminated, vars, out
  <2> QED
    BY <1>0, <2>1
<1>3. CASE CheckFlags
  BY <1>0, <1>3 DEF CheckFlags, Exit, Goto, out
<1>4. CASE AuthFails /\ Single
  BY <1>0, <1>4 DEF AuthFails, Exit
<1>5. CASE Emit
  BY <1>0, <1>5 DEF Emit, Goto
<1>6. CASE EmitFails
  BY <1>0, <1>6 DEF EmitFails, Exit, out
<1>7. CASE Finish
  BY <1>0, <1>7 DEF Finish, Exit, out
<1> QED
  BY <1>1, <1>2, <1>3, <1>4, <1>5, <1>6, <1>7, NextIs

LEMMA SinksStep == CommandInv /\ [Next]_vars => SinksInv'
<1> SUFFICES ASSUME CommandInv, [Next]_vars PROVE SinksInv'
  OBVIOUS
<1>0. /\ LoopInv /\ SinksInv /\ cmd' = cmd /\ URLs' = URLs
      /\ ToStdout' = ToStdout /\ Single' = Single /\ Len(URLs) \in Nat
  BY WorldStep, URLsFacts DEF CommandInv, LoopInv, world, ToStdout, Single
<1> USE DEF SinksInv
<1>1. CASE Turn
  BY <1>0, <1>1, TurnStep
<1>2. CASE Cancel \/ Terminated \/ UNCHANGED vars
  BY <1>0, <1>2 DEF Cancel, Terminated, vars
<1>3. CASE CheckFlags
  <2>1. CASE Rejected
    BY <1>0, <1>3, <2>1 DEF CheckFlags, Exit
  <2>2. CASE ~Rejected
    <3>1. ~(cmd.json /\ ToStdout) /\ (ToStdout => Single)
      BY <2>2 DEF Rejected, BadSinks, BadBatch
    <3> QED
      BY <1>0, <3>1
  <2> QED
    BY <2>1, <2>2
<1>4. CASE (AuthFails /\ Single) \/ EmitFails \/ Finish \/ Emit
  <2>1. pc \notin {"flags", "exited"}
    BY <1>4 DEF AuthFails, EmitFails, Finish, Emit
  <2> QED
    BY <1>0, <2>1
<1> QED
  BY <1>1, <1>2, <1>3, <1>4, NextIs

LEMMA OutputStep == CommandInv /\ [Next]_vars => OutputInv'
<1> SUFFICES ASSUME CommandInv, [Next]_vars PROVE OutputInv'
  OBVIOUS
<1>0. /\ LoopInv /\ SinksInv /\ OutputInv /\ cmd' = cmd /\ ToStdout' = ToStdout
      /\ cmd.json \in BOOLEAN /\ at \in Nat
  BY WorldStep, URLsFacts DEF CommandInv, LoopInv, world, ToStdout
<1> USE DEF OutputInv
<1>a. CASE ~(cmd.json \/ ToStdout)
  BY <1>0, <1>a
<1>b. CASE cmd.json \/ ToStdout
  <2>0. IsSequence(stdout) /\ Len(stdout) \in Nat
    BY <1>0, <1>b, SequenceFacts
  <2>1. CASE Turn
    <3>1. at' = IF (\E r : Record(r)) /\ ~cmd.json THEN at + 1 ELSE at
      BY <1>0, <2>1, TurnStep DEF Record
    <3>2. pc \in {"next", "auth", "probe", "source"}
      BY <1>0, <2>1, TurnStep
    <3>3. CASE stdout' = stdout
      BY <1>0, <2>0, <3>1, <3>3
    <3>4. CASE ToStdout /\ stdout' = Append(stdout, Says("body", at)) /\ \E r : Record(r)
      <4>1. ~cmd.json
        BY <1>0, <3>2, <3>4 DEF SinksInv
      <4>2. Says("body", at).kind = "body"
        BY DEF Says
      <4>3. /\ IsSequence(stdout') /\ Len(stdout') = Len(stdout) + 1
            /\ \A i \in 1 .. Len(stdout) : stdout'[i] = stdout[i]
            /\ stdout'[Len(stdout) + 1] = Says("body", at)
        BY <2>0, <3>4, Appended
      <4>4. \A i \in 1 .. Len(stdout') : stdout'[i].kind = "body"
        BY <1>0, <2>0, <3>4, <4>2, <4>3
      <4> QED
        BY <1>0, <2>0, <3>1, <3>4, <4>1, <4>3, <4>4
    <3> QED
      BY <1>0, <1>b, <2>0, <2>1, <3>3, <3>4, TurnPrints
  <2>2. CASE Emit
    <3>1. cmd.json /\ ~ToStdout
      BY <1>0, <2>2 DEF Emit, LoopInv, SinksInv, Recorded
    <3>2. /\ IsSequence(stdout') /\ Len(stdout') = Len(stdout) + 1
          /\ \A i \in 1 .. Len(stdout) : stdout'[i] = stdout[i]
          /\ stdout'[Len(stdout) + 1] = Says("record", at)
          /\ at' = at + 1
      BY <2>0, <2>2, Appended DEF Emit
    <3>3. \A i \in 1 .. Len(stdout') : stdout'[i] = Says("record", i)
      BY <1>0, <2>0, <3>1, <3>2
    <3> QED
      BY <1>0, <2>0, <3>1, <3>2, <3>3
  <2>3. CASE UNCHANGED <<at, stdout>>
    BY <1>0, <2>3
  <2>4. Cancel \/ CheckFlags \/ (AuthFails /\ Single) \/ EmitFails \/ Finish \/ Terminated
          \/ UNCHANGED vars => UNCHANGED <<at, stdout>>
    BY DEF Cancel, CheckFlags, AuthFails, EmitFails, Finish, Terminated, vars, out
  <2> QED
    BY <2>1, <2>2, <2>3, <2>4, NextIs
<1> QED
  BY <1>a, <1>b

LEMMA ExitStep == CommandInv /\ [Next]_vars => ExitInv'
<1> SUFFICES ASSUME CommandInv, [Next]_vars PROVE ExitInv'
  OBVIOUS
<1>0. LoopInv /\ ExitInv /\ cmd' = cmd
  BY WorldStep DEF CommandInv, world
<1> USE DEF ExitInv, ExitTells, Failed
<1>1. CASE Turn
  <2>1. exit = "none"
    BY <1>0, <1>1, TurnStep DEF LoopInv
  <2>2. CASE \E r : Record(r)
    <3> PICK r : Record(r)
      BY <2>2
    <3>1. /\ results' = Append(results, r) /\ exit' = exit
          /\ anyFailed' = (anyFailed \/ r.err # "none")
      BY DEF Record, Goto
    <3>2. /\ DOMAIN results = 1 .. Len(results) /\ Len(results) \in Nat
          /\ DOMAIN results' = 1 .. Len(results) + 1
          /\ \A i \in 1 .. Len(results) : results'[i] = results[i]
          /\ results'[Len(results) + 1] = r
      BY <1>0, <3>1, Appended, SequenceFacts DEF LoopInv
    <3>3. Failed(results') <=> Failed(results) \/ r.err # "none"
      BY <3>2
    <3>4. anyFailed' \in BOOLEAN /\ (anyFailed' <=> Failed(results'))
      BY <1>0, <3>1, <3>3
    <3> QED
      BY <2>1, <3>1, <3>4
  <2>3. CASE UNCHANGED <<at, results, anyFailed, exit>>
    BY <1>0, <2>3
  <2> QED
    BY <1>0, <1>1, <2>2, <2>3, TurnStep
<1>2. CASE Finish
  <2>1. exit' = (IF SomeFailed THEN "failed" ELSE "ok") /\ UNCHANGED <<results, anyFailed>>
    BY <1>2 DEF Finish, Exit, out
  <2>2. SomeFailed <=> Failed(results)
    BY <1>0 DEF SomeFailed
  <2> QED
    BY <1>0, <2>1, <2>2
<1>3. CASE UNCHANGED <<results, anyFailed>> /\ exit' \in {exit, "rejected", "auth", "pipe"}
  BY <1>0, <1>3
<1>4. Cancel \/ CheckFlags \/ (AuthFails /\ Single) \/ Emit \/ EmitFails \/ Terminated
        \/ UNCHANGED vars
      => UNCHANGED <<results, anyFailed>> /\ exit' \in {exit, "rejected", "auth", "pipe"}
  BY DEF Cancel, CheckFlags, AuthFails, Emit, EmitFails, Terminated, vars, out, Exit, Goto
<1> QED
  BY <1>1, <1>2, <1>3, <1>4, NextIs

-----------------------------------------------------------------------------

LEMMA InitCommand == Init => CommandInv
<1> SUFFICES ASSUME Init PROVE CommandInv
  OBVIOUS
<1>1. Len(URLs) \in Nat
  BY URLsFacts DEF Init
<1>2. LoopInv
  BY <1>1, EmptyIsSequence DEF Init, LoopInv, Recorded
<1>3. OutputInv
  <2>1. stdout = <<>> /\ at = 1
    BY DEF Init
  <2>2. IsSequence(stdout) /\ Len(stdout) = 0
    BY <2>1, EmptyIsSequence
  <2> QED
    BY <2>1, <2>2 DEF OutputInv
<1>4. ExitInv
  <2>1. DOMAIN results = {} /\ anyFailed = FALSE /\ exit = "none"
    BY EmptyIsSequence DEF Init
  <2> QED
    BY <2>1 DEF ExitInv, ExitTells, Failed
<1> QED
  BY <1>2, <1>3, <1>4 DEF Init, CommandInv, SinksInv

LEMMA CommandInvariant == Spec => []CommandInv
<1>1. CommandInv /\ [Next]_vars => CommandInv'
  BY LoopStep, SinksStep, OutputStep, ExitStep DEF CommandInv
<1> QED
  BY <1>1, InitCommand, PTL DEF Spec

\* Every URL has exactly one result, in order, in every command that is not cut
\* short; with --json the records are those of the URLs done, each out before the
\* next URL is begun.
THEOREM CommandAccounted == Spec => []Accounted
<1>1. CommandInv => Accounted
  <2> SUFFICES ASSUME CommandInv PROVE Accounted
    OBVIOUS
  <2>1. /\ LoopInv /\ OutputInv /\ Len(URLs) \in Nat /\ Len(results) \in Nat
    BY URLsFacts, SequenceFacts DEF CommandInv, LoopInv
  <2>2. exit \in {"ok", "failed"} => Len(results) = Len(URLs)
    BY <2>1 DEF LoopInv, Recorded
  <2>3. CASE cmd.json
    <3>1. IsSequence(stdout) /\ Len(stdout) = at - 1 /\ DOMAIN stdout = 1 .. Len(stdout)
      BY <2>1, <2>3, SequenceFacts DEF OutputInv
    <3>2. \A i \in DOMAIN stdout : stdout[i].url = i
      BY <2>1, <2>3, <3>1 DEF OutputInv, Says
    <3>3. Len(stdout) \in {Len(results) - 1, Len(results)}
      BY <2>1, <3>1 DEF LoopInv
    <3> QED
      BY <2>2, <3>1, <3>2, <3>3 DEF Accounted
  <2> QED
    BY <2>2, <2>3 DEF Accounted
<1> QED
  BY <1>1, CommandInvariant, PTL

\* A command that ends ok had no URL that failed, and one that reports a failure
\* had one, although the JSON loop keeps a flag and the batch counts.
THEOREM CommandExitTells == Spec => []ExitTells
<1>1. CommandInv => ExitTells
  BY DEF CommandInv, ExitInv
<1> QED
  BY <1>1, CommandInvariant, PTL

\* Standard output carries records only, or the body of one source only, for any
\* flags that pass the guards.
THEOREM CommandStdoutPure == Spec => []StdoutPure
<1>1. CommandInv => StdoutPure
  <2> SUFFICES ASSUME CommandInv PROVE StdoutPure
    OBVIOUS
  <2>1. ASSUME cmd.json \/ ToStdout PROVE DOMAIN stdout = 1 .. Len(stdout) /\ Len(stdout) \in Nat
    BY <2>1, SequenceFacts DEF CommandInv, OutputInv
  <2>2. ASSUME cmd.json, NEW i \in DOMAIN stdout PROVE stdout[i].kind = "record"
    <3>1. stdout[i] = Says("record", i)
      BY <2>1, <2>2 DEF CommandInv, OutputInv
    <3> QED
      BY <3>1 DEF Says
  <2>3. ASSUME ToStdout PROVE at \in {1, 2}
    <3>1. at \in Nat \ {0} /\ at <= Len(URLs) + 1
      BY DEF CommandInv, LoopInv
    <3>2. CASE Len(URLs) = 1
      BY <3>1, <3>2
    <3>3. Len(URLs) = 1 \/ at = 1
      BY <2>3 DEF CommandInv, SinksInv, Single
    <3> QED
      BY <3>2, <3>3
  <2>4. ASSUME ToStdout
        PROVE  Len(stdout) <= 1 /\ \A i \in DOMAIN stdout : stdout[i].kind = "body"
    BY <2>1, <2>3, <2>4 DEF CommandInv, OutputInv
  <2> QED
    BY <2>2, <2>4 DEF StdoutPure
<1> QED
  BY <1>1, CommandInvariant, PTL

-----------------------------------------------------------------------------
(* The result of a URL.                                                    *)

\* A result that says how it went: a failure has neither skipped the download nor
\* a source, a success has one of the two.
Tells(r) ==
    /\ r.err # "none" => ~r.skipped /\ r.source = 0
    /\ r.err = "none" /\ ~ToStdout => r.skipped # (r.source # 0)

\* The result that Run fills in: nothing is told before the end.
ResultInv ==
    /\ res = [output |-> res.output, resumed |-> res.resumed, skipped |-> res.skipped,
              source |-> res.source, err |-> res.err]
    /\ SafeName(res.output[2])
    /\ src \in 1 .. Len(cmd.mirrors) + 1
    /\ pc \in {"probe", "source"} => res.err = "none" /\ res.skipped = FALSE /\ res.source = 0
    /\ pc \notin {"flags", "exited"} /\ cmd.mirrors # <<>> => Single

\* What is recorded: the file is written if a source served it, and is not otherwise.
Outcome(r) ==
    /\ Record(r)
    /\ r.skipped \in BOOLEAN /\ Tells(r) /\ SafeName(r.output[2])
    /\ IF r.source = 0 THEN UNCHANGED files
       ELSE files' = Stored(files, r.output, Content(Sources[src]))

LEMMA CommandFacts ==
    ASSUME LoopInv, ResultInv
    PROVE  /\ Len(Sources) = Len(cmd.mirrors) + 1 /\ Len(cmd.mirrors) \in Nat
           /\ Sources[1] = URL
           /\ \A i \in 1 .. Len(cmd.mirrors) : Sources[i + 1] = cmd.mirrors[i]
           /\ src \in DOMAIN Sources /\ DOMAIN Sources = 1 .. Len(cmd.mirrors) + 1
           /\ at <= Len(URLs) => URL \in ToSet(AssembleURLs(cmd))
<1>1. IsList(cmd.mirrors) /\ IsList(AssembleURLs(cmd)) /\ at \in Nat \ {0}
  BY CommandLineConstants DEF LoopInv
<1>2. cmd.mirrors \in Seq(ToSet(cmd.mirrors)) /\ Len(cmd.mirrors) \in Nat
  BY <1>1, ListFacts DEF IsList
<1> DEFINE S == ToSet(cmd.mirrors) \cup {URL}
<1>3. cmd.mirrors \in Seq(S) /\ <<URL>> \in Seq(S) /\ Len(<<URL>>) = 1 /\ <<URL>>[1] = URL
  BY <1>2, SeqMonotonic
<1> HIDE DEF S
<1>4. /\ Len(Sources) = 1 + Len(cmd.mirrors) /\ Sources \in Seq(S)
      /\ \A i \in 1 .. Len(Sources) :
            Sources[i] = IF i <= 1 THEN <<URL>>[i] ELSE cmd.mirrors[i - 1]
  BY <1>3, ConcatProperties DEF Sources
<1>5. DOMAIN Sources = 1 .. Len(Sources)
  BY <1>4, LenProperties
<1>6. at <= Len(URLs) => URL \in ToSet(AssembleURLs(cmd))
  <2> HAVE at <= Len(URLs)
  <2>1. at \in DOMAIN AssembleURLs(cmd)
    BY <1>1, ListFacts DEF URLs
  <2> QED
    BY <2>1 DEF URL, URLs, ToSet
<1>7. Sources[1] = URL
  BY <1>2, <1>3, <1>4
<1>8. \A i \in 1 .. Len(cmd.mirrors) : Sources[i + 1] = cmd.mirrors[i]
  BY <1>2, <1>4
<1> QED
  BY <1>2, <1>4, <1>5, <1>6, <1>7, <1>8 DEF ResultInv

\* The path a run writes to has a safe name, whatever its servers say.
LEMMA OutputSafe ==
    ASSUME LoopInv, ResultInv, at <= Len(URLs)
    PROVE  /\ SafeName(OutputPath(URL.disposition, URL.final)[2])
           /\ SafeName(OutputPath(<<>>, <<>>)[2])
<1>1. URL \in ToSet(AssembleURLs(cmd))
  BY CommandFacts
<1>2. /\ IsList(URL.disposition) /\ IsList(URL.final) /\ IsList(URL.path)
      /\ SafeName(cmd.output)
  BY <1>1, CommandLineConstants DEF LoopInv, SafeName
<1>3. ASSUME NEW d, NEW f, IsList(d), IsList(f) PROVE SafeName(OutputPath(d, f)[2])
  <2>1. SafeName(DerivedName(d, f, URL.path))
    BY <1>2, <1>3, DerivedIsSafe
  <2> QED
    BY <1>2, <2>1 DEF OutputPath
<1> QED
  BY <1>2, <1>3, ShortLists

LEMMA FailuresFacts == \A e \in Failures : e # "none"
  BY DEF Failures

\* A turn of the loop records an outcome, or records nothing and leaves the files.
LEMMA TurnOutcome ==
    ASSUME LoopInv, ResultInv, Turn
    PROVE  (\E r : Outcome(r)) \/ UNCHANGED <<results, files>>
<1> DEFINE Goal == (\E r : Outcome(r)) \/ UNCHANGED <<results, files>>
<1> USE DEF Tells
<1>0. pc \in {"auth", "probe", "source", "emit"} => at <= Len(URLs)
  BY DEF LoopInv
<1>1. ASSUME NEW why, why # "none", Fail(why), UNCHANGED files
      PROVE  Goal
  <2> DEFINE r == [FreshResult EXCEPT !.err = why]
  <2>1. Record(r) /\ r.err # "none" /\ r.skipped = FALSE /\ r.source = 0 /\ r.output = <<"", "">>
    BY <1>1 DEF Fail, FreshResult, Nothing
  <2> HIDE DEF r
  <2>2. SafeName(r.output[2])
    <3>1. r.output[2] = <<"", "">>[2]
      BY <2>1
    <3> QED
      BY <3>1 DEF SafeName
  <2> QED
    BY <1>1, <2>1, <2>2 DEF Outcome
<1>2. CASE SkipURL
  BY <1>1, <1>2 DEF SkipURL, disk
<1>3. CASE BeginURL \/ ResolveAuth \/ BeginStdout
  BY <1>3 DEF BeginURL, ResolveAuth, BeginStdout, disk, out
<1>4. CASE AuthFails /\ ~Single
  BY <1>1, <1>4 DEF AuthFails, disk
<1>5. ASSUME NEW path, SafeName(path[2]), pc = "probe", ~ToStdout, UNCHANGED files,
             Skip([res EXCEPT !.output = path])
      PROVE  Goal
  <2> DEFINE r == [[res EXCEPT !.output = path] EXCEPT !.skipped = TRUE]
  <2>1. Record(r)
    BY <1>5 DEF Skip, Done
  <2>2. r.skipped = TRUE /\ r.err = "none" /\ r.source = 0 /\ r.output = path
    BY <1>5 DEF ResultInv
  <2> HIDE DEF r
  <2> QED
    BY <1>5, <2>1, <2>2 DEF Outcome
<1>6. ASSUME NEW r0, NEW e, NEW kinds, e # "none", UNCHANGED files,
             r0 \in {res, [res EXCEPT !.resumed = r0.resumed]}, pc \in {"probe", "source"},
             Done([r0 EXCEPT !.err = e], kinds)
      PROVE  Goal
  <2> DEFINE r == [r0 EXCEPT !.err = e]
  <2>1. Record(r)
    BY <1>6 DEF Done
  <2>2. r.skipped = FALSE /\ r.err = e /\ r.source = 0 /\ r.output = res.output
    BY <1>6 DEF ResultInv
  <2> HIDE DEF r
  <2> QED
    BY <1>6, <2>1, <2>2 DEF Outcome, ResultInv
<1>7. CASE Probe
  <2>1. pc = "probe" /\ ~ToStdout /\ UNCHANGED files /\ at <= Len(URLs)
    BY <1>0, <1>7 DEF Probe, disk
  <2>2. \/ Skip([res EXCEPT !.output = OutputPath(URL.disposition, URL.final)])
        \/ UNCHANGED results
    BY <1>7 DEF Probe, out
  <2> QED
    BY <1>5, <2>1, <2>2, OutputSafe
<1>8. CASE ProbeFails
  <2>1. pc = "probe" /\ ~ToStdout /\ UNCHANGED files /\ at <= Len(URLs)
    BY <1>0, <1>8 DEF ProbeFails, disk
  <2>2. \/ \E e : e # "none" /\ Done([res EXCEPT !.err = e], <<>>)
        \/ Skip([res EXCEPT !.output = OutputPath(<<>>, <<>>)])
        \/ UNCHANGED results
    BY <1>8, FailuresFacts DEF ProbeFails, out
  <2>3. CASE \E e : e # "none" /\ Done([res EXCEPT !.err = e], <<>>)
    BY <1>6, <2>1, <2>3
  <2> QED
    BY <1>5, <2>1, <2>2, <2>3, OutputSafe
<1>9. CASE Transfer
  <2>1. pc = "source" /\ src \in Nat \ {0}
    BY <1>9, CommandFacts DEF Transfer, ResultInv
  <2>2. CASE ToStdout
    <3>1. Record(res) /\ UNCHANGED files
      BY <1>9, <2>2 DEF Transfer, Done, disk
    <3> QED
      BY <2>1, <2>2, <3>1 DEF Outcome, ResultInv
  <2>3. CASE ~ToStdout
    <3> DEFINE r == [res EXCEPT !.source = src, !.resumed = @ \/ Leftover = {Content(Sources[src])}]
    <3>1. Record(r) /\ files' = Stored(files, res.output, Content(Sources[src]))
      BY <1>9, <2>3 DEF Transfer, Done
    <3>2. r.skipped = FALSE /\ r.err = "none" /\ r.source = src /\ r.output = res.output
      BY <2>1 DEF ResultInv
    <3> HIDE DEF r
    <3> QED
      BY <2>1, <2>3, <3>1, <3>2 DEF Outcome, ResultInv
  <2> QED
    BY <2>2, <2>3
<1>10. CASE TransferFails
  <2>1. pc = "source" /\ UNCHANGED files
    BY <1>10 DEF TransferFails, disk
  <2>2. ASSUME NEW e, NEW r, NEW emitted, e # "none", r \in {res, [res EXCEPT !.resumed = r.resumed]},
               SourceFails(e, r, emitted)
        PROVE  Goal
    BY <1>6, <2>1, <2>2 DEF SourceFails, out
  <2>3. \E e, r, emitted : /\ e # "none" /\ r \in {res, [res EXCEPT !.resumed = r.resumed]}
                           /\ SourceFails(e, r, emitted)
    <3>1. CASE SourceFails("changed", res, FALSE)
      BY <3>1
    <3>2. ASSUME NEW e \in Failures, NEW some \in BOOLEAN, NEW honored,
                 SourceFails(e, IF some THEN [res EXCEPT !.resumed = @ \/ honored] ELSE res,
                             some /\ ToStdout)
          PROVE  \E e1, r, emitted : /\ e1 # "none" /\ r \in {res, [res EXCEPT !.resumed = r.resumed]}
                                     /\ SourceFails(e1, r, emitted)
      <4> DEFINE r == IF some THEN [res EXCEPT !.resumed = @ \/ honored] ELSE res
      <4>1. r \in {res, [res EXCEPT !.resumed = r.resumed]}
        BY DEF ResultInv
      <4> HIDE DEF r
      <4> QED
        BY <3>2, <4>1, FailuresFacts DEF r
    <3> QED
      BY <1>10, <3>1, <3>2 DEF TransferFails
  <2> QED
    BY <2>2, <2>3
<1> QED
  BY <1>2, <1>3, <1>4, <1>7, <1>8, <1>9, <1>10 DEF Turn

\* A result with the fields it has, and a safe name.
Shaped(r) ==
    /\ r = [output |-> r.output, resumed |-> r.resumed, skipped |-> r.skipped,
            source |-> r.source, err |-> r.err]
    /\ SafeName(r.output[2])

LEMMA FilledIn ==
    ASSUME NEW r, Shaped(r), NEW v
    PROVE  /\ Shaped([r EXCEPT !.resumed = v]) /\ Shaped([r EXCEPT !.skipped = v])
           /\ Shaped([r EXCEPT !.source = v]) /\ Shaped([r EXCEPT !.err = v])
           /\ SafeName(v[2]) => Shaped([r EXCEPT !.output = v])
           /\ \A n : Shaped([r EXCEPT !.source = n, !.resumed = v])
<1>1. Shaped([r EXCEPT !.resumed = v]) /\ Shaped([r EXCEPT !.skipped = v])
  BY DEF Shaped
<1>2. Shaped([r EXCEPT !.source = v]) /\ Shaped([r EXCEPT !.err = v])
  BY DEF Shaped
<1>3. SafeName(v[2]) => Shaped([r EXCEPT !.output = v])
  BY DEF Shaped
<1>4. ASSUME NEW n PROVE Shaped([r EXCEPT !.source = n, !.resumed = v])
  <2>1. Shaped([r EXCEPT !.source = n])
    BY DEF Shaped
  <2>2. Shaped([[r EXCEPT !.source = n] EXCEPT !.resumed = v])
    <3> DEFINE q == [r EXCEPT !.source = n]
    <3> HIDE DEF q
    <3>0. Shaped(q)
      BY <2>1 DEF q
    <3>1. Shaped([q EXCEPT !.resumed = v])
      BY <3>0 DEF Shaped
    <3> QED
      BY <3>1 DEF q
  <2>3. [r EXCEPT !.source = n, !.resumed = v] = [[r EXCEPT !.source = n] EXCEPT !.resumed = v]
    BY DEF Shaped
  <2> QED
    BY <2>2, <2>3
<1> QED
  BY <1>1, <1>2, <1>3, <1>4

LEMMA ResultStep == CommandInv /\ ResultInv /\ [Next]_vars => ResultInv'
<1> SUFFICES ASSUME CommandInv, ResultInv, [Next]_vars PROVE ResultInv'
  OBVIOUS
<1>0. /\ LoopInv /\ UNCHANGED cmd /\ Single' = Single /\ Shaped(res)
      /\ src \in 1 .. Len(cmd.mirrors) + 1 /\ Len(cmd.mirrors) \in Nat
      /\ pc \notin {"flags", "exited"} /\ cmd.mirrors # <<>> => Single
      /\ Len(Sources) = Len(cmd.mirrors) + 1
  BY WorldStep, CommandFacts DEF CommandInv, ResultInv, world, Single, Shaped
<1>1. ASSUME Shaped(res'), src' \in 1 .. Len(cmd.mirrors) + 1, pc \notin {"flags", "exited"},
             pc' \in {"probe", "source"} => res'.err = "none" /\ res'.skipped = FALSE /\ res'.source = 0
      PROVE  ResultInv'
  BY <1>0, <1>1 DEF ResultInv, Shaped
<1>2. ASSUME NEW r, NEW kinds, Done(r, kinds), Shaped(r), pc \notin {"flags", "exited"}
      PROVE  ResultInv'
  <2>1. res' = r /\ src' = src /\ pc' \notin {"probe", "source"}
    BY <1>2 DEF Done, Record, Goto
  <2> QED
    BY <1>0, <1>1, <1>2, <2>1
<1>3. CASE UNCHANGED url /\ pc \notin {"flags", "exited"} /\ pc' \notin {"probe", "source"}
  BY <1>0, <1>1, <1>3 DEF url
<1>4. CASE UNCHANGED <<pc, res, src>>
  BY <1>0, <1>4 DEF ResultInv, Single
<1>5. CASE CheckFlags
  <2>1. UNCHANGED url /\ pc' \in {"exited", "next"} /\ (pc' = "next" => ~Rejected)
    BY <1>5 DEF CheckFlags, Exit, Goto
  <2>2. ~Rejected /\ cmd.mirrors # <<>> => Single
    BY DEF Rejected, BadMirrors
  <2> QED
    BY <1>0, <2>1, <2>2 DEF ResultInv, url, Shaped
<1>6. CASE SkipURL \/ BeginURL \/ AuthFails \/ Emit \/ EmitFails \/ Finish
  <2>1. UNCHANGED url /\ pc \notin {"flags", "exited"} /\ pc' \notin {"probe", "source"}
    BY <1>6 DEF SkipURL, BeginURL, AuthFails, Emit, EmitFails, Finish, Fail, Record, Goto, Exit
  <2> QED
    BY <1>3, <2>1
<1>7. CASE Cancel \/ Terminated \/ UNCHANGED vars
  BY <1>4, <1>7 DEF Cancel, Terminated, vars, url
<1>8. CASE BeginStdout
  <2>1. UNCHANGED <<res, src>> /\ pc = "probe"
    BY <1>8 DEF BeginStdout, url
  <2> QED
    BY <1>0, <1>1, <2>1 DEF ResultInv
<1>9. CASE ResolveAuth
  <2>1. res' = FreshResult /\ src' = 1 /\ pc = "auth"
    BY <1>9 DEF ResolveAuth
  <2>2. /\ res'.err = "none" /\ res'.skipped = FALSE /\ res'.source = 0
        /\ Shaped(FreshResult)
    <3>1. FreshResult.output[2] = <<"", "">>[2]
      BY DEF FreshResult, Nothing
    <3>2. SafeName(FreshResult.output[2])
      BY <3>1 DEF SafeName
    <3> QED
      BY <2>1, <3>2 DEF FreshResult, Shaped
  <2>3. src' \in 1 .. Len(cmd.mirrors) + 1 /\ pc \notin {"flags", "exited"}
    BY <1>0, <2>1
  <2>4. Shaped(res')
    BY <2>1, <2>2
  <2> QED
    BY <1>1, <2>2, <2>3, <2>4
<1>10. ASSUME NEW path, SafeName(path[2]), pc = "probe",
              \/ Skip([res EXCEPT !.output = path])
              \/ res' = [res EXCEPT !.output = path] /\ src' = src
       PROVE  ResultInv'
  <2> DEFINE named == [res EXCEPT !.output = path]
             skip == [named EXCEPT !.skipped = TRUE]
  <2>1. named.err = "none" /\ named.skipped = FALSE /\ named.source = 0
    BY <1>10 DEF ResultInv
  <2>2. Shaped(named)
    BY <1>0, <1>10, FilledIn
  <2>3. Shaped(skip)
    <3> HIDE DEF named
    <3> QED
      BY <2>2, FilledIn
  <2>4. (\E kinds : Done(skip, kinds)) \/ (res' = named /\ src' = src)
    BY <1>10 DEF Skip
  <2> HIDE DEF named, skip
  <2>5. CASE \E kinds : Done(skip, kinds)
    BY <1>2, <1>10, <2>3, <2>5
  <2>6. CASE res' = named /\ src' = src
    <3>1. /\ Shaped(res') /\ src' \in 1 .. Len(cmd.mirrors) + 1
          /\ res'.err = "none" /\ res'.skipped = FALSE /\ res'.source = 0
      BY <1>0, <2>1, <2>2, <2>6
    <3> QED
      BY <1>1, <1>10, <3>1
  <2> QED
    BY <2>4, <2>5, <2>6
<1>11. ASSUME NEW e, Shaped(res) PROVE Shaped([res EXCEPT !.err = e])
  BY <1>11 DEF Shaped
<1>12. CASE Probe
  <2>1. pc = "probe" /\ at <= Len(URLs)
    BY <1>0, <1>12 DEF Probe, LoopInv
  <2>2. \E path : /\ path = OutputPath(URL.disposition, URL.final)
                  /\ \/ Skip([res EXCEPT !.output = path])
                     \/ res' = [res EXCEPT !.output = path] /\ src' = src
    BY <1>12 DEF Probe
  <2> QED
    BY <1>0, <1>10, <2>1, <2>2, OutputSafe
<1>13. CASE ProbeFails
  <2>1. pc = "probe" /\ at <= Len(URLs)
    BY <1>0, <1>13 DEF ProbeFails, LoopInv
  <2>2. \/ \E e : Done([res EXCEPT !.err = e], <<>>)
        \/ \E path : /\ path = OutputPath(<<>>, <<>>)
                     /\ \/ Skip([res EXCEPT !.output = path])
                        \/ res' = [res EXCEPT !.output = path] /\ src' = src
    BY <1>13 DEF ProbeFails
  <2>3. CASE \E e : Done([res EXCEPT !.err = e], <<>>)
    BY <1>0, <1>2, <1>11, <2>1, <2>3
  <2> QED
    BY <1>0, <1>10, <2>1, <2>2, <2>3, OutputSafe
<1>14. CASE Transfer
  <2> DEFINE served == [res EXCEPT !.source = src, !.resumed = @ \/ Leftover = {Content(Sources[src])}]
  <2>1. pc = "source" /\ \E kinds : Done(res, kinds) \/ Done(served, kinds)
    BY <1>14 DEF Transfer
  <2>2. Shaped(served)
    BY <1>0, FilledIn
  <2> HIDE DEF served
  <2> QED
    BY <1>0, <1>2, <2>1, <2>2
<1>15. CASE TransferFails
  <2>1. pc = "source"
    BY <1>15 DEF TransferFails
  <2>2. ASSUME NEW e, NEW r, NEW emitted, SourceFails(e, r, emitted),
               Shaped(r), r.err = res.err, r.skipped = res.skipped, r.source = res.source
        PROVE  ResultInv'
    <3>1. CASE src < Len(Sources) /\ src' = src + 1 /\ res' = r
      <4>1. src' \in 1 .. Len(cmd.mirrors) + 1 /\ Shaped(res')
        BY <1>0, <2>2, <3>1
      <4>2. res'.err = "none" /\ res'.skipped = FALSE /\ res'.source = 0
        BY <2>1, <2>2, <3>1 DEF ResultInv
      <4> QED
        BY <1>1, <2>1, <4>1, <4>2
    <3>2. CASE \E kinds : Done([r EXCEPT !.err = e], kinds)
      <4>1. Shaped([r EXCEPT !.err = e])
        BY <2>2 DEF Shaped
      <4> QED
        BY <1>2, <2>1, <3>2, <4>1
    <3> QED
      BY <2>2, <3>1, <3>2 DEF SourceFails
  <2>3. \E e, r, emitted : /\ SourceFails(e, r, emitted) /\ Shaped(r)
                           /\ r.err = res.err /\ r.skipped = res.skipped /\ r.source = res.source
    <3>1. CASE SourceFails("changed", res, FALSE)
      BY <1>0, <3>1
    <3>2. ASSUME NEW e, NEW some \in BOOLEAN, NEW honored,
                 SourceFails(e, IF some THEN [res EXCEPT !.resumed = @ \/ honored] ELSE res,
                             some /\ ToStdout)
          PROVE  \E e1, r, emitted : /\ SourceFails(e1, r, emitted) /\ Shaped(r)
                                     /\ r.err = res.err /\ r.skipped = res.skipped /\ r.source = res.source
      <4> DEFINE r == IF some THEN [res EXCEPT !.resumed = @ \/ honored] ELSE res
      <4>1. Shaped(r) /\ r.err = res.err /\ r.skipped = res.skipped /\ r.source = res.source
        BY <1>0 DEF Shaped
      <4>2. SourceFails(e, r, some /\ ToStdout)
        BY <3>2
      <4> HIDE DEF r
      <4> QED
        BY <4>1, <4>2
    <3> QED
      BY <1>15, <3>1, <3>2 DEF TransferFails
  <2> QED
    BY <2>2, <2>3
<1> QED
  BY <1>5, <1>6, <1>7, <1>8, <1>9, <1>12, <1>13, <1>14, <1>15 DEF Next

-----------------------------------------------------------------------------
(* The results of all URLs, the files and the output.                      *)

\* Every result tells how it went, and the file it names exists.
ResultsInv ==
    \A i \in DOMAIN results :
        /\ Tells(results[i]) /\ SafeName(results[i].output[2])
        /\ results[i].source # 0 => results[i].output \in DOMAIN files

\* ... with the content of its URL, unless another URL took the name.
KeptInv ==
    \A i \in DOMAIN results :
        results[i].source # 0 /\ ~Clash(i) => files[results[i].output] = Content(URLs[i])

\* Every line is of a kind there is.
LinesInv ==
    /\ IsSequence(stdout)
    /\ \A i \in DOMAIN stdout : stdout[i].kind \in {"record", "body", "note"}

\* A step that records nothing writes no file.
LEMMA FilesStep ==
    ASSUME LoopInv, ResultInv, [Next]_vars
    PROVE  (Turn /\ \E r : Outcome(r)) \/ UNCHANGED <<results, files>>
<1>1. CASE Turn
  BY <1>1, TurnOutcome
<1>2. Cancel \/ CheckFlags \/ (AuthFails /\ Single) \/ Emit \/ EmitFails \/ Finish \/ Terminated
        \/ UNCHANGED vars => UNCHANGED <<results, files>>
  BY DEF Cancel, CheckFlags, AuthFails, Emit, EmitFails, Finish, Terminated, vars, out, disk
<1> QED
  BY <1>1, <1>2, NextIs

\* What it does to the files.
LEMMA OutcomeFiles ==
    ASSUME NEW r, Outcome(r)
    PROVE  /\ DOMAIN files \subseteq DOMAIN files'
           /\ r.source = 0 => files' = files
           /\ r.source # 0 => /\ r.output \in DOMAIN files'
                              /\ files'[r.output] = Content(Sources[src])
           /\ \A p \in DOMAIN files : p # r.output => files'[p] = files[p]
<1>1. CASE r.source = 0
  BY <1>1 DEF Outcome
<1>2. CASE r.source # 0
  <2>1. files' = Stored(files, r.output, Content(Sources[src]))
    BY <1>2 DEF Outcome
  <2> DEFINE new == Stored(files, r.output, Content(Sources[src]))
  <2>2. /\ DOMAIN new = DOMAIN files \cup {r.output} /\ new[r.output] = Content(Sources[src])
        /\ \A p \in DOMAIN files : p # r.output => new[p] = files[p]
    BY DEF Stored
  <2> HIDE DEF new
  <2>3. files' = new
    BY <2>1 DEF new
  <2> QED
    BY <1>2, <2>2, <2>3
<1> QED
  BY <1>1, <1>2

\* What a recorded outcome does to the results.
LEMMA OutcomeRecorded ==
    ASSUME LoopInv, ResultInv, Turn, NEW r, Outcome(r)
    PROVE  /\ at = Len(results) + 1 /\ at \in Nat
           /\ DOMAIN results = 1 .. Len(results) /\ DOMAIN results' = 1 .. at
           /\ \A i \in DOMAIN results : results'[i] = results[i]
           /\ results'[at] = r /\ r.skipped \in BOOLEAN
<1>1. pc \in {"next", "auth", "probe", "source"} /\ exit = "none"
  BY TurnStep DEF LoopInv
<1>2. at = Len(results) + 1 /\ at \in Nat /\ Len(results) \in Nat
  BY <1>1, SequenceFacts DEF LoopInv, Recorded
<1>3. results' = Append(results, r) /\ r.skipped \in BOOLEAN
  BY DEF Outcome, Record
<1>4. IsSequence(results) /\ IsSequence(results')
  BY <1>3, Appended DEF LoopInv
<1> QED
  BY <1>2, <1>3, <1>4, Appended, SequenceFacts

LEMMA ResultsStep == CommandInv /\ ResultInv /\ ResultsInv /\ [Next]_vars => ResultsInv'
<1> SUFFICES ASSUME CommandInv, ResultInv, ResultsInv, [Next]_vars PROVE ResultsInv'
  OBVIOUS
<1>0. LoopInv /\ ToStdout' = ToStdout
  BY WorldStep DEF CommandInv, world, ToStdout
<1>1. CASE UNCHANGED <<results, files>>
  BY <1>0, <1>1 DEF ResultsInv, Tells
<1>2. ASSUME Turn, NEW r, Outcome(r) PROVE ResultsInv'
  <2> SUFFICES ASSUME NEW i \in DOMAIN results'
               PROVE  /\ Tells(results[i])' /\ SafeName(results'[i].output[2])
                      /\ results'[i].source # 0 => results'[i].output \in DOMAIN files'
    BY DEF ResultsInv
  <2>1. DOMAIN files \subseteq DOMAIN files' /\ (r.source # 0 => r.output \in DOMAIN files')
    BY <1>2, OutcomeFiles
  <2>2. CASE i \in DOMAIN results
    <3>1. results'[i] = results[i]
      BY <1>0, <1>2, <2>2, OutcomeRecorded
    <3> QED
      BY <1>0, <2>1, <2>2, <3>1 DEF ResultsInv, Tells
  <2>3. CASE i = at
    <3>1. results'[i] = r
      BY <1>0, <1>2, <2>3, OutcomeRecorded
    <3> QED
      BY <1>0, <1>2, <2>1, <3>1 DEF Outcome, Tells
  <2>4. i \in DOMAIN results \/ i = at
    BY <1>0, <1>2, OutcomeRecorded
  <2> QED
    BY <2>2, <2>3, <2>4
<1> QED
  BY <1>0, <1>1, <1>2, FilesStep

\* One content behind one URL: two URLs with the same content have it in the same
\* size, and the mirrors of a URL serve what it serves.
SameContent ==
    \A c \in Commands :
        LET urls == AssembleURLs(c)
        IN  /\ \A u, v \in ToSet(urls) : u.id = v.id => u.size = v.size
            /\ Len(urls) = 1 => \A m \in DOMAIN c.mirrors : Content(c.mirrors[m]) = Content(urls[1])

LEMMA ServedContent ==
    ASSUME SameContent, CommandInv, ResultInv, Turn
    PROVE  Content(Sources[src]) = Content(URL)
<1>1. LoopInv /\ cmd \in Commands /\ at \in Nat \ {0} /\ at <= Len(URLs) /\ pc \notin {"flags", "exited"}
  BY TurnStep DEF CommandInv, LoopInv
<1>2. CASE src = 1
  BY <1>1, <1>2, CommandFacts
<1>3. CASE src # 1
  <2>1. /\ src - 1 \in 1 .. Len(cmd.mirrors) /\ Len(cmd.mirrors) \in Nat
        /\ DOMAIN cmd.mirrors = 1 .. Len(cmd.mirrors)
    <3>1. IsList(cmd.mirrors)
      BY <1>1, CommandLineConstants
    <3>2. Len(cmd.mirrors) \in Nat /\ DOMAIN cmd.mirrors = 1 .. Len(cmd.mirrors)
      BY <3>1, ListFacts
    <3>3. src \in 1 .. Len(cmd.mirrors) + 1
      BY DEF ResultInv
    <3> QED
      BY <1>3, <3>2, <3>3
  <2>2. Sources[src] = cmd.mirrors[src - 1]
    <3>1. src = (src - 1) + 1
      BY DEF ResultInv
    <3>2. \A i \in 1 .. Len(cmd.mirrors) : Sources[i + 1] = cmd.mirrors[i]
      BY <1>1, CommandFacts
    <3> QED
      BY <2>1, <3>1, <3>2
  <2>3. Single /\ URL = URLs[1]
    <3>1. cmd.mirrors # <<>>
      BY <2>1, EmptyIsSequence
    <3>2. Single
      BY <1>1, <3>1 DEF ResultInv
    <3> QED
      BY <1>1, <3>2 DEF Single, URL
  <2> QED
    BY <1>1, <2>1, <2>2, <2>3 DEF SameContent, Single, URLs
<1> QED
  BY <1>2, <1>3

LEMMA KeptStep ==
    ASSUME SameContent
    PROVE  CommandInv /\ ResultInv /\ ResultsInv /\ KeptInv /\ [Next]_vars => KeptInv'
<1> SUFFICES ASSUME CommandInv, ResultInv, ResultsInv, KeptInv, [Next]_vars PROVE KeptInv'
  OBVIOUS
<1>0. LoopInv /\ cmd \in Commands /\ URLs' = URLs
  BY WorldStep DEF CommandInv, LoopInv
<1>1. CASE UNCHANGED <<results, files>>
  BY <1>0, <1>1 DEF KeptInv, Clash
<1>2. ASSUME Turn, NEW r, Outcome(r) PROVE KeptInv'
  <2> SUFFICES ASSUME NEW i \in DOMAIN results', results'[i].source # 0, ~Clash(i)'
               PROVE  files'[results'[i].output] = Content(URLs[i])
    BY <1>0 DEF KeptInv
  <2>0. /\ DOMAIN results' = DOMAIN results \cup {at} /\ at \notin DOMAIN results
        /\ \A j \in DOMAIN results : results'[j] = results[j]
        /\ results'[at] = r /\ at \in Nat \ {0} /\ at <= Len(URLs)
    <3>1. /\ at = Len(results) + 1 /\ at \in Nat /\ Len(results) \in Nat
          /\ DOMAIN results = 1 .. Len(results) /\ DOMAIN results' = 1 .. at
          /\ \A j \in DOMAIN results : results'[j] = results[j]
          /\ results'[at] = r
      BY <1>0, <1>2, OutcomeRecorded, SequenceFacts DEF LoopInv
    <3>2. at \in Nat \ {0} /\ at <= Len(URLs)
      BY <1>0, <1>2, TurnStep DEF LoopInv
    <3> QED
      BY <3>1, <3>2
  <2>1. r.source # 0 => files'[r.output] = Content(URL)
    BY <1>2, ServedContent, OutcomeFiles
  <2>2. CASE i = at
    BY <2>0, <2>1, <2>2 DEF URL
  <2>3. CASE i # at
    <3>1. i \in DOMAIN results /\ results'[i] = results[i] /\ ~Clash(i)
      BY <1>0, <2>0, <2>3 DEF Clash
    <3>2. files[results[i].output] = Content(URLs[i]) /\ results[i].output \in DOMAIN files
      BY <3>1 DEF KeptInv, ResultsInv
    <3>3. CASE r.source = 0
      <4>1. files' = files
        BY <1>2, <3>3, OutcomeFiles
      <4> QED
        BY <3>1, <3>2, <4>1
    <3>4. CASE r.source # 0 /\ r.output # results[i].output
      <4>1. files'[results[i].output] = files[results[i].output]
        BY <1>2, <3>2, <3>4, OutcomeFiles
      <4> QED
        BY <3>1, <3>2, <4>1
    <3>5. CASE r.source # 0 /\ r.output = results[i].output
      <4>1. URLs[at].id = URLs[i].id
        BY <1>0, <2>0, <3>1, <3>5 DEF Clash
      <4>2. URLs[at] \in ToSet(AssembleURLs(cmd)) /\ URLs[i] \in ToSet(AssembleURLs(cmd))
        <5>1. DOMAIN URLs = 1 .. Len(URLs) /\ Len(URLs) \in Nat
          BY <1>0, CommandLineConstants, ListFacts DEF URLs
        <5>2. i \in DOMAIN URLs /\ at \in DOMAIN URLs
          BY <1>0, <1>2, <2>0, <3>1, <5>1, OutcomeRecorded
        <5> QED
          BY <5>2 DEF URLs, ToSet
      <4>3. Content(URLs[at]) = Content(URLs[i])
        BY <1>0, <4>1, <4>2 DEF SameContent, Content
      <4> QED
        BY <2>1, <3>1, <3>5, <4>3 DEF URL
    <3> QED
      BY <3>3, <3>4, <3>5
  <2> QED
    BY <2>2, <2>3
<1> QED
  BY <1>0, <1>1, <1>2, FilesStep

\* Every step prints at most one line, of a kind there is.
LEMMA LinesStep == LinesInv /\ [Next]_vars => LinesInv'
<1> SUFFICES ASSUME LinesInv, [Next]_vars PROVE LinesInv'
  OBVIOUS
<1>1. ASSUME NEW kind \in {"record", "body", "note"}, stdout' = Append(stdout, Says(kind, at))
      PROVE  LinesInv'
  <2>1. /\ IsSequence(stdout') /\ Len(stdout') = Len(stdout) + 1 /\ Len(stdout) \in Nat
        /\ DOMAIN stdout = 1 .. Len(stdout) /\ DOMAIN stdout' = 1 .. Len(stdout')
        /\ \A i \in 1 .. Len(stdout) : stdout'[i] = stdout[i]
        /\ stdout'[Len(stdout) + 1] = Says(kind, at)
    BY <1>1, Appended, SequenceFacts DEF LinesInv
  <2>2. Says(kind, at).kind = kind
    BY DEF Says
  <2>3. ASSUME NEW i \in DOMAIN stdout' PROVE stdout'[i].kind \in {"record", "body", "note"}
    <3>1. CASE i \in DOMAIN stdout
      BY <2>1, <3>1 DEF LinesInv
    <3>2. CASE i = Len(stdout) + 1
      BY <1>1, <2>1, <2>2, <3>2
    <3> QED
      BY <2>1, <2>3, <3>1, <3>2
  <2> QED
    BY <2>1, <2>3 DEF LinesInv
<1>2. CASE UNCHANGED stdout
  BY <1>2 DEF LinesInv
<1>3. ASSUME NEW r, NEW kinds \in {<<>>, <<"note">>, <<"body">>}, Done(r, kinds)
      PROVE  LinesInv'
  <2>1. stdout' = stdout \o [k \in DOMAIN kinds |-> Says(kinds[k], at)]
    BY <1>3 DEF Done
  <2>2. stdout' \in {stdout, Append(stdout, Says("note", at)), Append(stdout, Says("body", at))}
    <3>0. IsSequence(stdout)
      BY DEF LinesInv
    <3>1. CASE kinds = <<>>
      BY <2>1, <3>0, <3>1, Printed
    <3>2. CASE kinds = <<"note">>
      BY <2>1, <3>0, <3>2, Printed
    <3>3. CASE kinds = <<"body">>
      BY <2>1, <3>0, <3>3, Printed
    <3> QED
      BY <3>1, <3>2, <3>3
  <2> QED
    BY <1>1, <1>2, <2>2
<1>4. CASE Probe
  BY <1>2, <1>3, <1>4 DEF Probe, Skip, out
<1>5. CASE ProbeFails
  BY <1>2, <1>3, <1>5 DEF ProbeFails, Skip, out
<1>6. CASE BeginStdout
  <2>1. stdout' \in {stdout \o <<>>, stdout \o <<Says("note", at)>>}
    BY <1>6 DEF BeginStdout
  <2>2. stdout' \in {stdout, Append(stdout, Says("note", at))}
    <3>1. [k \in DOMAIN <<"note">> |-> Says(<<"note">>[k], at)] = <<Says("note", at)>>
      OBVIOUS
    <3> QED
      BY <2>1, <3>1, Printed DEF LinesInv
  <2> QED
    BY <1>1, <1>2, <2>2
<1>7. CASE Transfer
  BY <1>3, <1>7 DEF Transfer
<1>8. CASE TransferFails
  <2>1. ASSUME NEW e, NEW r, NEW emitted, SourceFails(e, r, emitted) PROVE LinesInv'
    BY <1>2, <1>3, <2>1 DEF SourceFails, out
  <2> QED
    BY <1>8, <2>1 DEF TransferFails
<1>9. CASE Emit
  BY <1>1, <1>9 DEF Emit
<1>10. CASE \/ Cancel \/ CheckFlags \/ SkipURL \/ BeginURL \/ ResolveAuth \/ AuthFails
            \/ EmitFails \/ Finish \/ Terminated \/ UNCHANGED vars
  BY <1>2, <1>10 DEF Cancel, CheckFlags, SkipURL, BeginURL, ResolveAuth, AuthFails, EmitFails,
     Finish, Terminated, vars, out
<1> QED
  BY <1>4, <1>5, <1>6, <1>7, <1>8, <1>9, <1>10 DEF Next

\* The rest of the types.
PlainInv ==
    /\ canceled \in BOOLEAN
    /\ netrc \in Netrcs \cup {<<>>}
    /\ pc \in {"flags", "next", "auth", "probe", "source", "emit", "exited"}
    /\ exit \in {"none", "ok", "failed", "rejected", "auth", "pipe"}

LEMMA PlainStep == CommandInv /\ PlainInv /\ [Next]_vars => PlainInv'
<1> SUFFICES ASSUME CommandInv, PlainInv, [Next]_vars PROVE PlainInv'
  OBVIOUS
<1>0. UNCHANGED netrc /\ LoopInv
  BY WorldStep DEF world, CommandInv
<1>1. canceled' \in BOOLEAN
  BY DEF Next, Cancel, CheckFlags, SkipURL, BeginURL, ResolveAuth, AuthFails, Probe, ProbeFails,
     BeginStdout, Transfer, TransferFails, Emit, EmitFails, Finish, Terminated, vars, PlainInv
<1>2. CASE Turn
  BY <1>0, <1>1, <1>2, TurnStep DEF Record, Goto, PlainInv
<1>3. CASE \/ Cancel \/ CheckFlags \/ (AuthFails /\ Single) \/ Emit \/ EmitFails \/ Finish
           \/ Terminated \/ UNCHANGED vars
  BY <1>0, <1>1, <1>3 DEF Cancel, CheckFlags, AuthFails, Emit, EmitFails, Finish, Terminated, vars,
     Goto, Exit, PlainInv
<1> QED
  BY <1>2, <1>3, NextIs

\* Together.
ReportInv == CommandInv /\ PlainInv /\ LinesInv /\ ResultInv /\ ResultsInv

LEMMA InitReport == Init => ReportInv /\ KeptInv
<1> SUFFICES ASSUME Init PROVE ReportInv /\ KeptInv
  OBVIOUS
<1>1. CommandInv
  BY InitCommand
<1>2. PlainInv
  BY DEF Init, PlainInv
<1>3. LinesInv /\ ResultsInv /\ KeptInv
  BY EmptyIsSequence DEF Init, LinesInv, ResultsInv, KeptInv
<1>4. ResultInv
  <2>1. /\ res = [output |-> res.output, resumed |-> res.resumed, skipped |-> res.skipped,
                  source |-> res.source, err |-> res.err]
        /\ res.output = Nothing
    BY DEF Init
  <2>2. SafeName(res.output[2])
    <3>1. res.output[2] = <<"", "">>[2]
      BY <2>1 DEF Nothing
    <3> QED
      BY <3>1 DEF SafeName
  <2>3. src \in 1 .. Len(cmd.mirrors) + 1 /\ pc = "flags"
    <3>1. Len(cmd.mirrors) \in Nat
      BY CommandLineConstants, ListFacts DEF Init
    <3> QED
      BY <3>1 DEF Init
  <2> QED
    BY <2>1, <2>2, <2>3 DEF ResultInv
<1> QED
  BY <1>1, <1>2, <1>3, <1>4 DEF ReportInv

LEMMA ReportStep == ReportInv /\ [Next]_vars => ReportInv'
  BY LoopStep, SinksStep, OutputStep, ExitStep, PlainStep, LinesStep, ResultStep, ResultsStep
     DEF ReportInv, CommandInv

LEMMA ReportInvariant == Spec => []ReportInv
  BY InitReport, ReportStep, PTL DEF Spec

\* The types, and with them that no file gets a name with a meaning of its own
\* (resolve.go:97): whatever names servers and URLs offer, what is written is one
\* element, neither "." nor ".." and without a zero byte.
THEOREM CommandTypes == Spec => []TypeOK
<1>1. ReportInv => TypeOK
  <2> SUFFICES ASSUME ReportInv PROVE TypeOK
    OBVIOUS
  <2>1. at \in 1 .. Len(URLs) + 1 /\ cmd \in Commands
    BY URLsFacts DEF ReportInv, CommandInv, LoopInv
  <2>2. PlainNames \cap {".", "..", "NUL"} = {}
    BY DEF ReportInv, ResultInv, ResultsInv, PlainNames, SafeName
  <2>3. src \in 1 .. Len(cmd.mirrors) + 1 /\ anyFailed \in BOOLEAN
    BY DEF ReportInv, CommandInv, ExitInv, ResultInv
  <2> QED
    BY <2>1, <2>2, <2>3 DEF ReportInv, PlainInv, LinesInv, TypeOK
<1> QED
  BY <1>1, ReportInvariant, PTL

\* The records tell the truth, whatever fails and whatever the disk held before:
\* what one says was served is under the name it gives until the command ends, if
\* mirrors serve what they are mirrors of.
THEOREM CommandRecordsTrue ==
    ASSUME SameContent
    PROVE  Spec => []RecordTrue
<1>1. KeptInv /\ ReportInv /\ [Next]_vars => KeptInv'
  BY KeptStep DEF ReportInv
<1>2. ReportInv /\ KeptInv => RecordTrue
  BY DEF ReportInv, ResultsInv, KeptInv, RecordTrue, Tells
<1> QED
  BY <1>1, <1>2, InitReport, ReportInvariant, PTL DEF Spec

-----------------------------------------------------------------------------
(* Whose credential a request carries.                                     *)

\* The entries that NewAuth is given.
NetrcMap == IF cmd.netrc THEN LoadNetrc(Lines(netrc)) ELSE <<>>

\* While a URL is fetched, the resolver is the one made for it.
AuthInv == pc \in {"probe", "source"} => auth = NewAuth(cmd.user, NetrcMap, AuthHosts)

\* The parser finds for every host what the netrc file says of it.  The parser is a
\* fold over the words of the file: that it does is left to TLC.
NetrcRead ==
    cmd.netrc => \A h : CredentialFor(NewAuth(NoCredential, LoadNetrc(Lines(netrc)), {}), h) = FromNetrc(h)

\* What RightCredential says of one request.
Right(r) ==
    LET to == (<<URLs[r.url]>> \o cmd.mirrors)[r.source]
    IN  r.cred = IF cmd.header # NoCredential THEN cmd.header
                 ELSE IF to.userinfo.user # "" THEN to.userinfo
                 ELSE IF cmd.user # NoCredential THEN cmd.user
                 ELSE IF cmd.netrc THEN FromNetrc(to.host) ELSE NoCredential

\* The precedence: --user for a host of the command, or else the netrc file.
LEMMA Resolved ==
    ASSUME NEW user, NEW entries, NEW hosts, NEW h \in hosts
    PROVE  CredentialFor(NewAuth(user, entries, hosts), h) =
             IF user # NoCredential THEN user
             ELSE CredentialFor(NewAuth(NoCredential, entries, {}), h)
<1>1. CanonicalHost(h) \in NewAuth(user, entries, hosts).hosts
  BY DEF NewAuth
<1> QED
  BY <1>1 DEF CredentialFor, NewAuth

LEMMA ResolvedWithout ==
    ASSUME NEW h
    PROVE  CredentialFor(NewAuth(NoCredential, <<>>, {}), h) = NoCredential
<1>1. DOMAIN <<>> = {}
  OBVIOUS
<1> QED
  BY <1>1 DEF CredentialFor, NewAuth

LEMMA RequestRight ==
    ASSUME NetrcRead, AuthInv, pc \in {"probe", "source"}, NEW i \in DOMAIN Sources
    PROVE  Right([url |-> at, source |-> i,
                  cred |-> ApplyAuth(cmd.header, Sources[i].userinfo, Sources[i].host, auth)])
<1> DEFINE to == Sources[i]
<1>1. to.host \in AuthHosts
  BY DEF AuthHosts
<1>2. CredentialFor(auth, to.host) =
        IF cmd.user # NoCredential THEN cmd.user
        ELSE CredentialFor(NewAuth(NoCredential, NetrcMap, {}), to.host)
  BY <1>1, Resolved DEF AuthInv
<1>3. CredentialFor(NewAuth(NoCredential, NetrcMap, {}), to.host) =
        IF cmd.netrc THEN FromNetrc(to.host) ELSE NoCredential
  BY ResolvedWithout DEF NetrcRead, NetrcMap
<1>4. (<<URLs[at]>> \o cmd.mirrors)[i] = to
  BY DEF Sources, URL
<1> QED
  BY <1>2, <1>3, <1>4 DEF Right, ApplyAuth

LEMMA AuthStep == AuthInv /\ [Next]_vars => AuthInv'
<1> SUFFICES ASSUME AuthInv, [Next]_vars, pc' \in {"probe", "source"} PROVE AuthInv'
  BY DEF AuthInv
<1>1. UNCHANGED world
  BY WorldStep
<1>2. CASE pc \in {"probe", "source"} /\ UNCHANGED <<at, auth>>
  BY <1>1, <1>2 DEF AuthInv, NetrcMap, AuthHosts, Sources, URL, URLs, world
<1>3. CASE ResolveAuth
  <2>1. auth' = NewAuth(cmd.user, NetrcMap, AuthHosts) /\ at' = at
    BY <1>3 DEF ResolveAuth, NetrcMap
  <2> QED
    BY <1>1, <2>1 DEF AuthInv, NetrcMap, AuthHosts, Sources, URL, URLs, world
<1>4. [Next]_vars => ResolveAuth \/ (pc \in {"probe", "source"} /\ UNCHANGED <<at, auth>>)
  BY DEF Next, Cancel, CheckFlags, SkipURL, BeginURL, AuthFails, Probe, ProbeFails, BeginStdout,
     Transfer, TransferFails, SourceFails, Skip, Done, Fail, Record, Emit, EmitFails, Finish,
     Terminated, Goto, Exit, vars, url
<1> QED
  BY <1>2, <1>3, <1>4

LEMMA NetrcKept == ASSUME UNCHANGED world PROVE \A h : FromNetrc(h)' = FromNetrc(h)
<1> SUFFICES ASSUME NEW h PROVE FromNetrc(h)' = FromNetrc(h)
  OBVIOUS
<1>1. netrc' = netrc
  BY DEF world
<1>2. \A k : LastEntry(k)' = LastEntry(k)
  BY <1>1 DEF LastEntry, SelectLastInSeq
<1> HIDE DEF LastEntry
<1> QED
  BY <1>1, <1>2 DEF FromNetrc

LEMMA CredentialStep ==
    NetrcRead /\ AuthInv /\ ReportInv /\ RightCredential /\ [Next]_vars
      => RightCredential' /\ NetrcRead'
<1> SUFFICES ASSUME NetrcRead, AuthInv, ReportInv, RightCredential, [Next]_vars
             PROVE  RightCredential' /\ NetrcRead'
  OBVIOUS
<1>0. UNCHANGED world /\ URLs' = URLs
  BY WorldStep
<1>1. NetrcRead'
  BY <1>0, NetrcKept DEF NetrcRead, world
<1>2. \A r : Right(r)' <=> Right(r)
  BY <1>0, NetrcKept DEF Right, world
<1>3. RightCredential <=> \A r \in sent : Right(r)
  BY DEF RightCredential, Right
<1>4. ASSUME \A r \in sent' : Right(r) PROVE RightCredential'
  BY <1>2, <1>4 DEF RightCredential, Right
<1>5. CASE sent' = sent
  BY <1>1, <1>3, <1>4, <1>5
<1>6. ASSUME NEW i \in DOMAIN Sources, Request(i), pc \in {"probe", "source"}
      PROVE  RightCredential'
  BY <1>3, <1>4, <1>6, RequestRight DEF Request
<1>7. 1 \in DOMAIN Sources /\ src \in DOMAIN Sources
  BY CommandFacts DEF ReportInv, CommandInv
<1>8. \/ sent' = sent
      \/ pc \in {"probe", "source"} /\ \E i \in DOMAIN Sources : Request(i)
  BY <1>7 DEF Next, Cancel, CheckFlags, SkipURL, BeginURL, ResolveAuth, AuthFails, Probe,
     ProbeFails, BeginStdout, Transfer, TransferFails, Emit, EmitFails, Finish, Terminated, vars
<1> QED
  BY <1>1, <1>5, <1>6, <1>8

\* Precedence and scope: no request carries the credential of another URL or host,
\* whatever was resolved for the URLs before, if the netrc parser is right.
THEOREM CommandCredentials == Spec /\ NetrcRead => []RightCredential
<1>1. Init => AuthInv /\ RightCredential
  BY DEF Init, AuthInv, RightCredential
<1> QED
  BY <1>1, AuthStep, CredentialStep, ReportInvariant, PTL DEF Spec

=============================================================================
