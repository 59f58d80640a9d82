----------------------------- MODULE Credentials ----------------------------
(***************************************************************************)
(* What registration and the bootstrap accept as a username, an address    *)
(* and a password: auth/validate.c and the policy of auth/password.c with  *)
(* its list of breached passwords.  Strings are sequences of byte values.  *)
(***************************************************************************)
EXTENDS Integers, Sequences, SequencesExt

CONSTANTS
    NameMin, NameMax,          \* 3 and 32
    NameSize,                  \* PS_USERNAME_MAX, the buffer with its NUL
    EmailMax, EmailSize,       \* 254 and PS_EMAIL_MAX
    Reserved                   \* RESERVED_USERNAMES

At_ == 64
Dot == 46
LF == 10
CR == 13

Lower(c) == IF c \in 65 .. 90 THEN c + 32 ELSE c
LowerAll(s) == [i \in DOMAIN s |-> Lower(s[i])]

\* The copy into a buffer of the given size.
Truncated(s, size) == IF Len(s) < size THEN s ELSE SubSeq(s, 1, size - 1)

Alnum(c) == c \in 97 .. 122 \/ c \in 48 .. 57

\* ps_username_validate: the verdict and what is written to out.
Username(raw, check_reserved) ==
    LET out == LowerAll(Truncated(raw, NameSize))
        verdict == IF Len(raw) < NameMin THEN "TOO_SHORT"
                   ELSE IF Len(raw) > NameMax THEN "TOO_LONG"
                   ELSE IF \E i \in DOMAIN out : ~Alnum(out[i]) /\ out[i] \notin {95, 45}
                   THEN "BAD_CHARSET"
                   ELSE IF ~Alnum(out[1]) THEN "STARTS_NON_ALPHANUMERIC"
                   ELSE IF check_reserved /\ out \in Reserved THEN "RESERVED"
                   ELSE "VALID"
    IN  [verdict |-> verdict, out |-> out]

SpaceOrTab == {32, 9}

\* The positions a trimmed string keeps.
Trim(s) ==
    LET kept == {i \in DOMAIN s : s[i] \notin SpaceOrTab}
    IN  IF kept = {} THEN <<>> ELSE SubSeq(s, Min(kept), Max(kept))

IndexesOf(s, c) == {i \in DOMAIN s : s[i] = c}

\* ps_email_validate
Email(raw) ==
    LET trimmed == Trim(raw)
        out == LowerAll(Truncated(trimmed, EmailSize))
        ats == IndexesOf(out, At_)
        at == Min(ats)
        verdict == IF Len(trimmed) > EmailMax THEN "TOO_LONG"
                   ELSE IF ats = {} \/ ats # {at} THEN "MALFORMED"
                   ELSE IF at = 1 \/ at = Len(out) \/ ~\E i \in IndexesOf(out, Dot) : i > at
                   THEN "MALFORMED"
                   ELSE "VALID"
    IN  [verdict |-> verdict, out |-> out]
-----------------------------------------------------------------------------
(***************************************************************************)
(* ps_password_denylist_load and ps_password_policy_check.                 *)
(***************************************************************************)
CString_(s) ==
    LET nul == IndexesOf(s, 0) IN IF nul = {} THEN s ELSE SubSeq(s, 1, Min(nul) - 1)

\* A line that ended in LF loses a CR before it; the last one, which did not,
\* keeps what it has.
Ended(line) ==
    IF line # <<>> /\ Last(line) = CR THEN Front(line) ELSE line

\* The lines of the file, the empty ones dropped.  A short fread is not noticed:
\* `file` is what it returned.
FileLines(file) ==
    LET ends == SetToSortSeq(IndexesOf(file, LF), <)
        start(k) == IF k = 1 THEN 1 ELSE ends[k - 1] + 1
        ended == [k \in DOMAIN ends |-> CString_(Ended(SubSeq(file, start(k), ends[k] - 1)))]
        rest == CString_(SubSeq(file, start(Len(ends) + 1), Len(file)))
    IN  SelectSeq(Append(ended, rest), LAMBDA line : line # <<>>)

\* strcmp
Before(s, t) ==
    \/ IsStrictPrefix(s, t)
    \/ \E i \in DOMAIN s \cap DOMAIN t :
          s[i] < t[i] /\ \A k \in 1 .. i - 1 : s[k] = t[k]

Unsorted_LoadDenylist(file) == FileLines(file)

LoadDenylist(file) == SortSeq(FileLines(file), Before)

RECURSIVE Search(_, _, _, _)

\* denylist_contains: binary search in lines lo + 1 .. hi.
Search(lines, candidate, lo, hi) ==
    LET mid == lo + (hi - lo) \div 2
        line == lines[mid + 1]
    IN  IF lo >= hi THEN FALSE
        ELSE IF line = candidate THEN TRUE
        ELSE IF Before(line, candidate) THEN Search(lines, candidate, mid + 1, hi)
        ELSE Search(lines, candidate, lo, mid)

\* memory: the copy of the password can be allocated.
PasswordPolicy(password, min, max, lines, memory) ==
    IF Len(password) < min THEN "TOO_SHORT"
    ELSE IF Len(password) > max THEN "TOO_LONG"
    ELSE IF ~memory THEN "ERROR"
    ELSE IF Search(lines, CString_(LowerAll(password)), 0, Len(lines)) THEN "BREACHED"
    ELSE "OK"
-----------------------------------------------------------------------------
\* A name that passes is written as what passes again, unchanged; it is one of
\* the names [a-z0-9][a-z0-9_-]*, of the right length, and not reserved in any
\* spelling (validate.h:23).
NameRule(raw) ==
    LET r == Username(raw, TRUE)
        letters == [i \in DOMAIN raw |-> Lower(raw[i])]
    IN  /\ r.verdict = "VALID" <=>
             /\ Len(raw) \in NameMin .. NameMax
             /\ Alnum(letters[1])
             /\ \A i \in DOMAIN letters : Alnum(letters[i]) \/ letters[i] \in {95, 45}
             /\ letters \notin Reserved
        /\ r.verdict = "VALID" => r.out = letters /\ Username(r.out, TRUE) = r

\* An address that passes is local@domain with a dot in the domain, neither
\* part empty, as what passes again unchanged (validate.h:43).
EmailRule(raw) ==
    LET r == Email(raw)
        parts == {i \in DOMAIN r.out : r.out[i] = At_}
    IN  r.verdict = "VALID" =>
          /\ Email(r.out) = r
          /\ Len(r.out) <= EmailMax
          /\ \E i \in parts :
                /\ parts = {i} /\ i > 1
                /\ \E k \in i + 1 .. Len(r.out) : r.out[k] = Dot

\* candidate stands in the file as a line of its own: from the start or an LF
\* to an LF, a CR LF, or the end.
IsLine(file, candidate) ==
    \E i \in DOMAIN file :
        LET j == i + Len(candidate)
        IN  /\ candidate # <<>> /\ LF \notin ToSet(candidate)
            /\ j <= Len(file) + 1 /\ SubSeq(file, i, j - 1) = candidate
            /\ i = 1 \/ file[i - 1] = LF
            /\ \/ j = Len(file) + 1
               \/ file[j] = LF /\ Last(candidate) # CR
               \/ file[j] = CR /\ j < Len(file) /\ file[j + 1] = LF

\* A password is refused as breached exactly when its lower-case form is a
\* line of the file, whatever the order of the lines, and is not accepted
\* when that could not be looked up (password.h:35).
DenylistRule(file, password) ==
    LET policy(memory) == PasswordPolicy(password, 0, Len(password), LoadDenylist(file), memory)
    IN  /\ policy(TRUE) = IF IsLine(file, CString_(LowerAll(password))) THEN "BREACHED" ELSE "OK"
        /\ policy(FALSE) # "OK"
=============================================================================
