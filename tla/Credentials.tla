----------------------------- MODULE Credentials -----------------------------
(* Whose credential a request carries: the .netrc grammar                   *)
(* (src/download/netrc.go) and the precedence and scope of credentials      *)
(* (src/download/auth.go).  A netrc file is a sequence of lines, a line a   *)
(* sequence of words; the words are strings, "#" one that begins a comment. *)
EXTENDS Sequences, SequencesExt, TLC

CONSTANT Canonical   \* the canonical form of a host that is written otherwise

CanonicalHost(h) == IF h \in DOMAIN Canonical THEN Canonical[h] ELSE h

NoCredential == [user |-> "", pass |-> ""]
Default == ""    \* the host that the "default" entry is kept under

-----------------------------------------------------------------------------
\* tokenizeLine: a word that begins with # ends the line.
Fields(l) == IF Contains(l, "#") THEN SubSeq(l, 1, SelectInSeq(l, LAMBDA w : w = "#") - 1) ELSE l

\* netrcTokens: after "macdef <name>" nothing is kept, up to the next blank line.
NetrcTokens(lines) ==
    LET AddLine(acc, l) ==
            LET words == Fields(l)
                macro == SelectInSeq(words, LAMBDA w : w = "macdef")
            IN  IF acc.skip THEN [acc EXCEPT !.skip = l # <<>>]
                ELSE IF macro = 0 THEN [acc EXCEPT !.tokens = @ \o words]
                ELSE [tokens |-> acc.tokens \o SubSeq(words, 1, IF macro < Len(words) THEN macro + 1 ELSE macro),
                      skip |-> TRUE]
    IN  FoldLeft(AddLine, [tokens |-> <<>>, skip |-> FALSE], lines).tokens

\* parseNetrc keeps the entry being read (cur, inBlock, host), the map it fills
\* (out), and the word that the next token is the argument of (want).
Flush(acc) == IF acc.inBlock THEN [acc EXCEPT !.out = (acc.host :> acc.cur) @@ @] ELSE acc

Block_KeepsEntry(acc) == [Flush(acc) EXCEPT !.inBlock = TRUE]
Block(acc) == [Flush(acc) EXCEPT !.inBlock = TRUE, !.cur = NoCredential]

Keyword(acc, t) ==
    CASE t = "machine" -> [Block(acc) EXCEPT !.want = "machine"]
      [] t = "default" -> [Block(acc) EXCEPT !.host = Default]
      [] t \in {"login", "password"} -> [acc EXCEPT !.want = t]
      [] OTHER -> [acc EXCEPT !.want = "ignored"]

Argument(acc, t) ==
    CASE acc.want = "machine" -> [acc EXCEPT !.host = CanonicalHost(t), !.want = "keyword"]
      [] acc.want = "login" -> [acc EXCEPT !.cur.user = t, !.want = "keyword"]
      [] acc.want = "password" -> [acc EXCEPT !.cur.pass = t, !.want = "keyword"]
      [] OTHER -> [acc EXCEPT !.want = "keyword"]

ParseNetrc(lines) ==
    LET Start == [out |-> <<>>, cur |-> NoCredential, inBlock |-> FALSE, host |-> Default, want |-> "keyword"]
        Token(acc, t) == IF acc.want = "keyword" THEN Keyword(acc, t) ELSE Argument(acc, t)
    IN  Flush(FoldLeft(Token, Start, NetrcTokens(lines))).out

\* loadNetrc of a file that can be read, or that does not exist: an entry with
\* neither login nor password is dropped.
LoadNetrc(lines) ==
    LET out == ParseNetrc(lines)
    IN  [h \in {h \in DOMAIN out : out[h] # NoCredential} |-> out[h]]

-----------------------------------------------------------------------------
\* NewAuth; a resolver without a user and without entries finds nothing, which
\* is what the nil one does.
NewAuth(user, netrc, hosts) ==
    [user |-> user, hosts |-> {CanonicalHost(h) : h \in hosts}, netrc |-> netrc]

CredentialFor(auth, h) ==
    LET host == CanonicalHost(h)
    IN  IF auth.user # NoCredential /\ host \in auth.hosts THEN auth.user
        ELSE IF host \in DOMAIN auth.netrc THEN auth.netrc[host]
        ELSE IF Default \in DOMAIN auth.netrc THEN auth.netrc[Default]
        ELSE NoCredential

\* applyAuth: a header the user gave, the userinfo of the URL, the resolver.
ApplyAuth(header, userinfo, h, auth) ==
    IF header # NoCredential THEN header
    ELSE IF userinfo.user # "" THEN userinfo
    ELSE CredentialFor(auth, h)

=============================================================================
