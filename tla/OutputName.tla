----------------------------- MODULE OutputName -----------------------------
(* The name a download is saved under (src/download/resolve.go).  A name is *)
(* the sequence of the elements between its separators, "/" or "\";         *)
(* <<>> is one that is missing, "NUL" an element with a zero byte.          *)
EXTENDS Sequences, SequencesExt

FallbackName == "download"

\* path.Base: the last element, trailing separators do not count.
Base(name) ==
    LET last == SelectLastInSeq(name, LAMBDA e : e # "")
    IN  IF last = 0 THEN "" ELSE name[last]

\* sanitizeFilename: "" when nothing safe remains.
SanitizeFilename_Dots(name) == IF Contains(name, "NUL") THEN "" ELSE Base(name)
SanitizeFilename(name) ==
    IF Contains(name, "NUL") \/ Base(name) \in {".", ".."} THEN "" ELSE Base(name)

\* urlBasename: a path that ends in a slash names nothing.
UrlBasename(path) == IF path = <<>> \/ Last(path) = "" THEN <<>> ELSE <<Base(path)>>

\* derivedName: Content-Disposition, the URL redirected to, the URL.
DerivedName(disposition, final, url) ==
    LET names == <<SanitizeFilename(disposition), SanitizeFilename(UrlBasename(final)),
                   SanitizeFilename(UrlBasename(url)), FallbackName>>
    IN  names[SelectInSeq(names, LAMBDA n : n # "")]

=============================================================================
