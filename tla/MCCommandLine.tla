--------------------------- MODULE MCCommandLine ---------------------------
(* Small commands, servers and netrc files for CommandLine.                *)
EXTENDS CommandLine

Cred(user) == [user |-> user, pass |-> "p"]

Plain(id, host, path) ==
    [scheme |-> "http", host |-> host, userinfo |-> NoCredential, path |-> path,
     id |-> id, size |-> id, disposition |-> <<>>, final |-> path]

\* A plain URL; one of another host with userinfo; one whose server offers a name
\* with dots; one that has the first one's name and size, not its content; one
\* that names nothing; a mirror; a scheme that is not served.
One == Plain(1, "a", <<"x", "f">>)
Two == [Plain(2, "B", <<"g">>) EXCEPT !.userinfo = Cred("info")]
Dots == [Plain(3, "B", <<"h">>) EXCEPT !.disposition = <<"..", "d", "..">>, !.final = <<"e">>]
Same == [Plain(4, "a:80", <<"f">>) EXCEPT !.size = 1]
Bare == Plain(5, "b", <<"">>)
Mirror == Plain(1, "b", <<"m">>)
Ftp == [One EXCEPT !.scheme = "ftp"]
Blank == [One EXCEPT !.scheme = "blank"]
Comment == [One EXCEPT !.scheme = "comment"]

Basic == [args |-> <<One>>, lines |-> <<>>, input |-> "none", mirrors |-> <<>>, json |-> FALSE,
          output |-> "", checksum |-> FALSE, quiet |-> FALSE, force |-> FALSE, malformed |-> FALSE,
          header |-> NoCredential, user |-> NoCredential, badUser |-> FALSE, netrc |-> FALSE]

\* One URL or several; JSON or not.
Lists == {<<One>>, <<Ftp>>, <<Dots>>, <<>>, <<One, Two>>, <<One, Ftp, Two>>, <<One, Same>>, <<One, One>>}
Listed == {[Basic EXCEPT !.args = a, !.json = j, !.output = o] :
              a \in Lists, j \in BOOLEAN, o \in {"", "dir", "-"}}
Files == {[Basic EXCEPT !.args = a, !.lines = <<Comment, Bare, Blank, Two>>, !.input = i, !.json = j] :
              a \in {<<>>, <<Dots>>}, j \in BOOLEAN, i \in {"file", "unreadable"}}
Mirrored == {[Basic EXCEPT !.args = a, !.mirrors = <<m>>, !.json = j, !.output = o, !.netrc = n] :
              a \in {<<One>>, <<One, Two>>}, m \in {Mirror, Ftp}, j \in BOOLEAN,
              o \in {"", "-"}, n \in BOOLEAN}
Flagged == {[Basic EXCEPT !.malformed = TRUE], [Basic EXCEPT !.quiet = TRUE], [Basic EXCEPT !.force = TRUE]}
              \cup {[Basic EXCEPT !.args = a, !.checksum = TRUE, !.output = o] :
                       a \in {<<One>>, <<One, Two>>}, o \in {"-", "f"}}
              \cup {[Basic EXCEPT !.mirrors = <<Mirror>>, !.checksum = TRUE]}
Secret == {[Basic EXCEPT !.args = a, !.header = h, !.user = u, !.badUser = b, !.netrc = n, !.json = j] :
              a \in {<<One>>, <<Two, Dots>>}, h \in {NoCredential, Cred("head")},
              u \in {NoCredential, Cred("user")}, b \in BOOLEAN, n \in BOOLEAN, j \in BOOLEAN}
AllCommands == Listed \cup Files \cup Mirrored \cup Flagged \cup Secret

Hosts == "A" :> "a" @@ "B" :> "b" @@ "a:80" :> "a"

\* netrc files of up to two entries, one of them empty or repeated.
Entries == {[host |-> h, user |-> u, pass |-> p] :
               h \in {"a", "A", "b", Default}, u \in {"", "u"}, p \in {"", "q"}}
First == {[host |-> h, user |-> "first", pass |-> "q"] : h \in {"A", Default}}
TwoEntries == {<<>>} \cup {<<e, f>> : e \in First, f \in Entries}

\* An entry over two lines, with a comment, and after it a macro.
Words(key, value) == IF value = "" THEN <<>> ELSE <<key, value>>
EntryLines(e) ==
    <<(IF e.host = Default THEN <<"default">> ELSE <<"machine", e.host>>) \o <<"#", "login", "x">>,
      Words("login", e.user) \o Words("account", e.user) \o Words("password", e.pass),
      <<"macdef", "m", "x">>, <<"machine", "b", "login", "x">>, <<>>>>
FileLines(entries) == FlattenSeq([i \in DOMAIN entries |-> EntryLines(entries[i])])

AnyFiles == {<<>>} \cup {<<"", "f">> :> [id |-> i, size |-> 1] : i \in {1, 9}}
AllFaults == FaultKinds
=============================================================================
