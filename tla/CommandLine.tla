---------------------------- MODULE CommandLine ----------------------------
(***************************************************************************)
(* One run of the dr command (src/cmd/root.go, src/main.go): the checks of *)
(* the flags, the URLs one after another, the credential and the output    *)
(* name of each, the JSON records and the exit code.                       *)
(*                                                                         *)
(* A URL is a record: its scheme ("blank" and "comment" are lines of an    *)
(* input file), host, userinfo and path, and what its server has: an id    *)
(* for the content, its size, a Content-Disposition name and the path that *)
(* it redirects to.  download.Run is reduced to what the command sees of   *)
(* it; modules Download and Stdout have its insides.                       *)
(***************************************************************************)
EXTENDS Integers, Credentials, OutputName

CONSTANTS
    Commands,      \* what the user may type, see TypeOK
    Netrcs,        \* the netrc files that may exist, each the entries it holds
    Lines(_),      \* the lines of a netrc file with these entries
    OldFiles,      \* what the output directory may hold at first
    Faults         \* the failures that may happen

FaultKinds == {"net",     \* a request or a transfer fails
               "netrc",   \* the netrc file cannot be read
               "stdout"}  \* a write to standard output fails

\* The arguments, then the lines of the input file that are URLs.
AssembleURLs(c) == c.args \o SelectSeq(c.lines, LAMBDA l : l.scheme \notin {"blank", "comment"})

\* Any sequence, whatever its elements.
IsList(s) == s \in Seq(ToSet(s))

\* -o . and -o .. are directories: "dir" stands for every one that exists.
ASSUME CommandLineConstants ==
    /\ Faults \subseteq FaultKinds
    /\ \A c \in Commands :
          /\ c.json \in BOOLEAN /\ IsList(AssembleURLs(c)) /\ IsList(c.mirrors)
          /\ c.user # NoCredential => c.user.user # ""
          /\ c.output \notin {".", "..", "NUL"}
          /\ \A u \in ToSet(AssembleURLs(c)) : IsList(u.disposition) /\ IsList(u.final) /\ IsList(u.path)

VARIABLES
    cmd, netrc,        \* the command, the entries of the netrc file
    files, partial,    \* contents: of finished files, of part files with their sidecar
    canceled,          \* ctx.Err()
    pc, at,            \* where RunE is, and the URL it is at
    auth,              \* Options.Auth of the URL
    src,               \* the source Run tries
    res,               \* Result of the URL
    results,           \* the outcome of each URL so far
    anyFailed,         \* the flag of the JSON loop
    stdout,            \* what was written to standard output
    sent,              \* history: the requests, with their credentials
    exit               \* how the command ended

world == <<cmd, netrc>>
disk == <<files, partial>>
url == <<auth, src, res>>
out == <<results, anyFailed, stdout>>
vars == <<world, disk, canceled, pc, at, url, out, sent, exit>>

Valid(u) == u.scheme = "http"    \* validateURL, validateScheme: https alike
Content(u) == [id |-> u.id, size |-> u.size]
Nothing == <<"", "">>            \* no output path; one is <<directory, name>>

URLs == AssembleURLs(cmd)
Single == Len(URLs) = 1
ToStdout == cmd.output = "-"
URL == URLs[at]
Sources == <<URL>> \o cmd.mirrors

NoAuth == NewAuth(NoCredential, <<>>, {})
\* Each URL gets a Result of its own, with the URL redacted.
FreshResult_Reused == [res EXCEPT !.err = "none"]
FreshResult == [output |-> Nothing, resumed |-> FALSE, skipped |-> FALSE, source |-> 0, err |-> "none"]

Init ==
    /\ cmd \in Commands
    /\ netrc \in IF cmd.netrc THEN Netrcs ELSE {<<>>}
    /\ files \in OldFiles /\ partial = <<>>
    /\ canceled = FALSE
    /\ pc = "flags" /\ at = 1
    /\ auth = NoAuth /\ src = 1
    /\ res = [output |-> Nothing, resumed |-> FALSE, skipped |-> FALSE, source |-> 0, err |-> "none"]
    /\ results = <<>> /\ anyFailed = FALSE /\ stdout = <<>>
    /\ sent = {} /\ exit = "none"

Exit(how) == exit' = how /\ pc' = "exited"
Goto(where) == pc' = where /\ UNCHANGED exit

-----------------------------------------------------------------------------
\* Signals.

Cancel ==
    /\ ~canceled /\ pc \notin {"flags", "exited"}
    /\ canceled' = TRUE
    /\ UNCHANGED <<world, disk, pc, at, url, out, sent, exit>>

-----------------------------------------------------------------------------
\* The guards of RunE, before anything is requested.

BadFlags == cmd.malformed \/ cmd.input = "unreadable" \/ Len(URLs) = 0
BadMirrors ==
    /\ cmd.mirrors # <<>>
    /\ ~Single \/ \E m \in DOMAIN cmd.mirrors : ~Valid(cmd.mirrors[m])
BadBatch == ~Single /\ (ToStdout \/ cmd.checksum \/ cmd.output \notin {"", "dir"})
BadSingle == Single /\ ~cmd.json /\ (~Valid(URLs[1]) \/ (ToStdout /\ cmd.checksum))
BadSinks == cmd.json /\ ToStdout

Rejected == BadFlags \/ BadMirrors \/ BadSinks \/ BadBatch \/ BadSingle

CheckFlags ==
    /\ pc = "flags"
    /\ IF Rejected THEN Exit("rejected") ELSE Goto("next")
    /\ UNCHANGED <<world, disk, canceled, at, url, out, sent>>

-----------------------------------------------------------------------------
\* The loop over the URLs; a command with one URL is one turn of it.

\* The record of a URL, or its line in the results of runBatch.
Record(r) ==
    /\ results' = Append(results, r)
    /\ anyFailed' = (anyFailed \/ r.err # "none")
    /\ Goto(IF cmd.json THEN "emit" ELSE "next")
    /\ at' = IF cmd.json THEN at ELSE at + 1

Fail(why) == Record([FreshResult EXCEPT !.err = why])

\* A batch records the rest as failures once the context is cancelled.
CanceledURL == ~Single /\ canceled

SkipURL_Breaks ==
    /\ pc = "next" /\ at <= Len(URLs)
    /\ \/ CanceledURL /\ Goto("next") /\ at' = Len(URLs) + 1 /\ UNCHANGED <<results, anyFailed>>
       \/ ~CanceledURL /\ ~Valid(URL) /\ Fail("invalid")
    /\ UNCHANGED <<world, disk, canceled, url, stdout, sent>>

SkipURL ==
    /\ pc = "next" /\ at <= Len(URLs)
    /\ \/ CanceledURL /\ Fail("canceled")
       \/ ~CanceledURL /\ ~Valid(URL) /\ Fail("invalid")
    /\ UNCHANGED <<world, disk, canceled, url, stdout, sent>>

BeginURL ==
    /\ pc = "next" /\ at <= Len(URLs) /\ ~CanceledURL /\ Valid(URL)
    /\ Goto("auth")
    /\ UNCHANGED <<world, disk, canceled, at, url, out, sent>>

\* NewAuth with the hosts of this URL and of the mirrors, then Run is called.
AuthHosts == {Sources[i].host : i \in DOMAIN Sources}

ResolveAuth ==
    /\ pc = "auth" /\ ~cmd.badUser
    /\ auth' = NewAuth(cmd.user, IF cmd.netrc THEN LoadNetrc(Lines(netrc)) ELSE <<>>, AuthHosts)
    /\ res' = FreshResult /\ src' = 1
    /\ Goto("probe")
    /\ UNCHANGED <<world, disk, canceled, at, out, sent>>

\* A batch goes on; a single URL ends the command, without a record.
AuthFails ==
    /\ pc = "auth" /\ (cmd.badUser \/ (cmd.netrc /\ "netrc" \in Faults))
    /\ IF Single THEN Exit("auth") /\ UNCHANGED <<at, results, anyFailed>> ELSE Fail("auth")
    /\ UNCHANGED <<world, disk, canceled, url, stdout, sent>>

\* The record goes out before the next URL is begun.
Says(kind, i) == [kind |-> kind, url |-> i]

Emit ==
    /\ pc = "emit"
    /\ stdout' = Append(stdout, Says("record", at))
    /\ at' = at + 1
    /\ Goto("next")
    /\ UNCHANGED <<world, disk, canceled, url, results, anyFailed, sent>>

EmitFails ==
    /\ pc = "emit" /\ "stdout" \in Faults
    /\ Exit("pipe")
    /\ UNCHANGED <<world, disk, canceled, at, url, out, sent>>

\* One that failed: the flag of the JSON loop, the count of writeSummary, or the
\* error that Run returned.
SomeFailed_Last == results[Len(results)].err # "none"
SomeFailed == IF cmd.json THEN anyFailed ELSE \E i \in DOMAIN results : results[i].err # "none"

Finish ==
    /\ pc = "next" /\ at > Len(URLs)
    /\ Exit(IF SomeFailed THEN "failed" ELSE "ok")
    /\ UNCHANGED <<world, disk, canceled, at, url, out, sent>>

-----------------------------------------------------------------------------
\* download.Run, as far as the command sees it.

\* Every request, to the primary or to a mirror.
Request(i) ==
    sent' = sent \cup {[url |-> at, source |-> i, cred |->
                        ApplyAuth(cmd.header, Sources[i].userinfo, Sources[i].host, auth)]}

\* resolveOutputPath; a probe that failed told neither a name nor a redirection.
OutputPath(disposition, final) ==
    IF cmd.output \in {"", "dir"}
    THEN <<cmd.output, DerivedName(disposition, final, URL.path)>>
    ELSE <<"", cmd.output>>

Has(dir, path) == path \in DOMAIN dir

\* alreadyComplete; --checksum comes with the digest of the URL's content, and
\* decides alone.  A probe that answers tells the size.
Complete(path, probed) ==
    /\ ~cmd.force /\ Has(files, path)
    /\ IF cmd.checksum THEN files[path] = Content(URL)
       ELSE probed /\ files[path].size = URL.size

\* What a run prints goes to Options.Out: standard output, unless --json makes the
\* run quiet or -o - moves it to standard error.
Notes_Stdout == ~cmd.quiet /\ ~cmd.json
Notes == ~cmd.quiet /\ ~cmd.json /\ ~ToStdout

Done(r, kinds) ==
    /\ stdout' = stdout \o [k \in DOMAIN kinds |-> Says(kinds[k], at)]
    /\ res' = r
    /\ Record(r)
    /\ UNCHANGED <<auth, src>>

Skip(r) == Done([r EXCEPT !.skipped = TRUE], IF Notes THEN <<"note">> ELSE <<>>)

\* What may go wrong with a request or a transfer.
Failures == (IF "net" \in Faults THEN {"failed"} ELSE {}) \cup (IF canceled THEN {"canceled"} ELSE {})

\* The probe of the primary: name the output, skip what is complete.
Probe ==
    /\ pc = "probe" /\ ~ToStdout /\ ~canceled
    /\ Request(1)
    /\ LET path == OutputPath(URL.disposition, URL.final)
           named == [res EXCEPT !.output = path]
       IN  IF Complete(path, TRUE) THEN Skip(named)
           ELSE /\ res' = named /\ Goto("source")
                /\ UNCHANGED <<at, auth, src, out>>
    /\ UNCHANGED <<world, disk, canceled>>

ProbeFails ==
    /\ pc = "probe" /\ ~ToStdout
    /\ Request(1)
    /\ \E e \in Failures :
          IF e = "canceled" \/ canceled THEN Done([res EXCEPT !.err = "canceled"], <<>>)
          ELSE IF Len(Sources) = 1 THEN Done([res EXCEPT !.err = e], <<>>)
          ELSE LET path == OutputPath(<<>>, <<>>)
                   named == [res EXCEPT !.output = path]
               IN  IF Complete(path, FALSE) THEN Skip(named)
                   ELSE /\ res' = named /\ Goto("source")
                        /\ UNCHANGED <<at, auth, src, out>>
    /\ UNCHANGED <<world, disk, canceled>>

\* The diagnostics and the progress line of the stream.
BeginStdout ==
    /\ pc = "probe" /\ ToStdout
    /\ Goto("source")
    /\ stdout' = stdout \o (IF Notes THEN <<Says("note", at)>> ELSE <<>>)
    /\ UNCHANGED <<world, disk, canceled, at, url, results, anyFailed, sent>>

\* The directory once a file of it is written.
Stored(dir, path, content) ==
    [p \in DOMAIN dir \cup {path} |-> IF p = path THEN content ELSE dir[p]]

\* A source that does not fit the part file and sidecar found there is refused if
\* it is the only one; with mirrors it starts afresh.
Leftover == IF Has(partial, res.output) THEN {partial[res.output]} ELSE {}
Changed == Leftover \notin {{}, {Content(Sources[src])}} /\ Len(Sources) = 1

Transfer ==
    /\ pc = "source" /\ ~canceled /\ (ToStdout \/ ~Changed)
    /\ Request(src)
    /\ LET served == [res EXCEPT !.source = src,
                                 !.resumed = @ \/ Leftover = {Content(Sources[src])}]
       IN  IF ToStdout
           THEN Done(res, <<"body">>) /\ UNCHANGED disk
           ELSE /\ files' = Stored(files, res.output, Content(Sources[src]))
                /\ partial' = [p \in DOMAIN partial \ {res.output} |-> partial[p]]
                /\ Done(served, IF Notes THEN <<"note">> ELSE <<>>)
    /\ UNCHANGED <<world, canceled>>

\* The next source, unless the error is of the context or bytes went out.
SourceFails(e, r, emitted) ==
    IF ~canceled /\ src < Len(Sources) /\ ~emitted
    THEN src' = src + 1 /\ res' = r /\ Goto("source") /\ UNCHANGED <<at, auth, out>>
    ELSE Done([r EXCEPT !.err = e], IF emitted THEN <<"body">> ELSE <<>>)

TransferFails ==
    /\ pc = "source"
    /\ Request(src)
    /\ \/ /\ Changed /\ ~ToStdout /\ ~canceled
          /\ SourceFails("changed", res, FALSE) /\ UNCHANGED disk
       \/ \E e \in Failures, some \in BOOLEAN :
             \* nothing arrived, or a part of it
             LET honored == ~ToStdout /\ Leftover = {Content(Sources[src])}
             IN  /\ some => ~Changed \/ ToStdout
                 /\ SourceFails(e, IF some THEN [res EXCEPT !.resumed = @ \/ honored] ELSE res,
                                some /\ ToStdout)
                 /\ partial' = IF some /\ ~ToStdout
                               THEN Stored(partial, res.output, Content(Sources[src])) ELSE partial
                 /\ UNCHANGED files
    /\ UNCHANGED <<world, canceled>>

-----------------------------------------------------------------------------

Terminated == pc = "exited" /\ UNCHANGED vars

Next ==
    \/ Cancel \/ CheckFlags \/ SkipURL \/ BeginURL \/ ResolveAuth \/ AuthFails
    \/ Probe \/ ProbeFails \/ BeginStdout \/ Transfer \/ TransferFails
    \/ Emit \/ EmitFails \/ Finish \/ Terminated

Spec == Init /\ [][Next]_vars

-----------------------------------------------------------------------------

PlainNames == {r.output[2] : r \in {res} \cup {results[i] : i \in DOMAIN results}}

\* With a plain type: every name is one element, safe in any directory.
TypeOK ==
    /\ cmd \in Commands /\ netrc \in Netrcs \cup {<<>>}
    /\ canceled \in BOOLEAN /\ anyFailed \in BOOLEAN
    /\ pc \in {"flags", "next", "auth", "probe", "source", "emit", "exited"}
    /\ at \in 1 .. Len(URLs) + 1 /\ src \in 1 .. Len(cmd.mirrors) + 1
    /\ \A i \in DOMAIN stdout : stdout[i].kind \in {"record", "body", "note"}
    /\ exit \in {"none", "ok", "failed", "rejected", "auth", "pipe"}
    /\ PlainNames \cap {".", "..", "NUL"} = {}

\* "Every URL is attempted" (README.md:104): the URLs are accounted for one by one
\* and in order, each record out before the next URL is begun, also when the batch
\* is cancelled.  A command that NewAuth (root.go:211) or a closed pipe ends owes
\* no more records: the former contradicts docs/REFERENCE.md:24.
Accounted ==
    /\ exit \in {"ok", "failed"} => Len(results) = Len(URLs)
    /\ cmd.json => /\ Len(stdout) \in {Len(results) - 1, Len(results)}
                   /\ \A i \in DOMAIN stdout : stdout[i].url = i
                   /\ pc \in {"auth", "probe", "source"} => Len(stdout) = at - 1

\* "dr exits non-zero if any URL failed" (README.md:104), and only then.
ExitTells ==
    /\ exit = "ok" => \A i \in DOMAIN results : results[i].err = "none"
    /\ exit = "failed" => \E i \in DOMAIN results : results[i].err # "none"

\* "In --json mode stdout carries only the NDJSON records" (docs/REFERENCE.md:24),
\* "the payload is never corrupted" with -o - (README.md:115): the standard output
\* never mixes two kinds of lines, nor the bodies of two sources.
StdoutPure ==
    /\ cmd.json => \A i \in DOMAIN stdout : stdout[i].kind = "record"
    /\ ToStdout => Len(stdout) <= 1 /\ \A i \in DOMAIN stdout : stdout[i].kind = "body"

\* Precedence and scope of credentials (README.md:147-164): every request carries
\* the header, or else the userinfo of its own URL if it names a user, or else
\* --user, or else what the netrc file says of its host: the last entry for it, or
\* else the last default entry, wherever it stands and whatever comments and
\* macros surround it.
LastEntry(h) == SelectLastInSeq(netrc, LAMBDA e : CanonicalHost(e.host) = h)
FromNetrc(h) ==
    LET says(i) == IF i = 0 THEN NoCredential ELSE [user |-> netrc[i].user, pass |-> netrc[i].pass]
        own == says(LastEntry(CanonicalHost(h)))
    IN  IF own # NoCredential THEN own ELSE says(LastEntry(Default))
RightCredential ==
    \A r \in sent :
        LET to == (<<URLs[r.url]>> \o cmd.mirrors)[r.source]
        IN  r.cred = IF cmd.header # NoCredential THEN cmd.header
                     ELSE IF to.userinfo.user # "" THEN to.userinfo
                     ELSE IF cmd.user # NoCredential THEN cmd.user
                     ELSE IF cmd.netrc THEN FromNetrc(to.host) ELSE NoCredential

\* A record tells about its own URL ("a fresh res per iteration prevents bleed",
\* root.go:248) and tells the truth: a source served the bytes if and only if the
\* download succeeded and was not skipped, and then the file it names holds this
\* URL's content until the end, unless a URL with another content has the same name.
Clash(i) == \E j \in DOMAIN results \ {i} :
    results[j].output = results[i].output /\ URLs[j].id # URLs[i].id
RecordTrue ==
    \A i \in DOMAIN results :
        LET r == results[i]
        IN  /\ r.err # "none" => ~r.skipped /\ r.source = 0
            /\ r.err = "none" /\ ~ToStdout => r.skipped # (r.source # 0)
            /\ r.source # 0 /\ ~Clash(i) => files[r.output] = Content(URLs[i])

=============================================================================
