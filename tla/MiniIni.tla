------------------------------- MODULE MiniIni -------------------------------
(***************************************************************************)
(* What minIni reads from and writes into one settings file                *)
(* (minIni/minIni.c).  A file is the sequence of its lines; a line is a    *)
(* section head, a key with its value, or blank.  Names and values stand   *)
(* for the strings of the file: their spelling, quoting and comments are   *)
(* left out.  The copy buffer of ini_puts (cache_accum, cache_flush) moves *)
(* lines unchanged and is seen only in the blank line it leaves when it    *)
(* was empty at the end of the file.                                       *)
(***************************************************************************)
EXTENDS Naturals, Sequences

CONSTANT Width      \* Width[k][v]: the length of the text of value v of key k

Sec(s)    == <<"sec", s, 0>>
Key(k, v) == <<"key", k, v>>
Blank     == <<"blank", "", 0>>

\* The section a setting of the application lives in (app_file_ini.c).
SectionOf(k) == IF k \in {"ssid", "password"} THEN "data" ELSE "relay"

\* Lines of file f that hold the head of section s: the first one counts.
SectionAt(f, s) == { i \in DOMAIN f : f[i] = Sec(s) }
First(S)        == CHOOSE i \in S : \A j \in S : i <= j

\* Where a search for key k that starts behind line i stops: at the key's
\* line, at the next section, or behind the last line.
StopAt(f, k, i) ==
  LET S == { j \in DOMAIN f : j > i /\ (f[j][1] = "sec" \/ (f[j][1] = "key" /\ f[j][2] = k)) }
  IN IF S = {} THEN Len(f) + 1 ELSE First(S)

\* getkeystring: the line of key k of its section, 0 if there is none.
KeyLine(f, k) ==
  IF SectionAt(f, SectionOf(k)) = {} THEN 0
  ELSE LET j == StopAt(f, k, First(SectionAt(f, SectionOf(k))))
       IN IF j <= Len(f) /\ f[j][1] = "key" THEN j ELSE 0

\* ini_gets: the value of key k, 0 when the file or the key is not there.
Value(f, k) == IF KeyLine(f, k) = 0 THEN 0 ELSE f[KeyLine(f, k)][3]

\* The blank line forced behind a copy that was empty at the end of the file.
Pad(copied) == IF copied = <<>> THEN <<Blank>> ELSE <<>>

\* Mutant of Copied: the line the search stopped at is never copied.
CopiedDropsHead(f, k, v) ==
  LET S == SectionAt(f, SectionOf(k)) IN
  IF S = {} THEN f \o Pad(f) \o <<Sec(SectionOf(k)), Key(k, v)>>
  ELSE LET j == StopAt(f, k, First(S))
       IN  SubSeq(f, 1, j - 1) \o <<Key(k, v)>> \o SubSeq(f, j + 1, Len(f))

\* ini_puts, the copy: every line of f with the line of key k replaced by the
\* new one, added at the end of its section, or behind a new section.
Copied(f, k, v) ==
  LET S == SectionAt(f, SectionOf(k)) IN
  IF S = {} THEN f \o Pad(f) \o <<Sec(SectionOf(k)), Key(k, v)>>
  ELSE LET i == First(S)
           j == StopAt(f, k, i)
       IN  SubSeq(f, 1, j - 1)
           \o (IF j > Len(f) THEN Pad(SubSeq(f, i + 1, j - 1)) ELSE <<>>)
           \o <<Key(k, v)>>
           \o SubSeq(f, IF j <= Len(f) /\ f[j][1] = "key" THEN j + 1 ELSE j, Len(f))

\* ini_puts, the short cut: the key's line rewritten in place when the new
\* text is exactly as long as the old one.
Fits(f, k, v)      == KeyLine(f, k) # 0 /\ Width[k][Value(f, k)] = Width[k][v]
Rewritten(f, k, v) == [j \in 1..Len(f) |-> IF j = KeyLine(f, k) THEN Key(k, v) ELSE f[j]]

\* ini_puts on a file that is not there: a new file with this one setting.
NewFile(k, v) == <<Sec(SectionOf(k)), Key(k, v)>>

\* A file that minIni has written: no section and no key is there twice, and
\* every key is where getkeystring looks for it.
WellFormed(f) ==
  \A i \in DOMAIN f :
    /\ f[i][1] = "sec" => \A j \in DOMAIN f : f[j] = f[i] => j = i
    /\ f[i][1] = "key" => KeyLine(f, f[i][2]) = i
=============================================================================
