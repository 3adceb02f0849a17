----------------------------- MODULE FileNames -----------------------------
(***************************************************************************)
(* What the two file programs and the chat client make of a file's name:   *)
(* which files of a directory a rule selects (CDir::OpenDir, MatchStr),    *)
(* and under which name an uploaded file is stored by the file server,     *)
(* reported to the chat server, and asked for in a video merge.            *)
(*                                                                         *)
(* A string is a sequence of characters; there are two letters, one of     *)
(* which also occurs in upper case, and the characters with a meaning.     *)
(***************************************************************************)
EXTENDS Integers, SequencesExt, FiniteSetsExt

CONSTANTS NameLen, \* bound: characters of a name
          RuleLen, \* bound: characters of a rule
          PathLen  \* bound: characters of a clientpath or srvpath

ASSUME NamesAssumption == NameLen \in Nat /\ RuleLen \in Nat /\ PathLen \in Nat

\* string::find and strstr: the first place of t in s at or after i, or 0.
Find(s, t, i) ==
  LET places == {k \in i .. Len(s) + 1 - Len(t) : SubSeq(s, k, k + Len(t) - 1) = t}
  IN IF places = {} THEN 0 ELSE Min(places)

\* CCmdStr::SplitToCmd: the fields between separators, empty ones included.
SplitToCmd(s, sep) ==
  LET from[k \in 1 .. Len(s) + 1] ==
        LET i == Find(s, sep, k)
        IN IF i = 0 THEN <<SubSeq(s, k, Len(s))>>
           ELSE <<SubSeq(s, k, i - 1)>> \o from[i + Len(sep)]
  IN from[1]

ToUpper(s) == [i \in DOMAIN s |-> IF s[i] = "a" THEN "A" ELSE s[i]]

\* Mutant: the next part is looked for from the start of the last one.
MatchField_Overlap(name, parts) ==
  LET n == Len(parts)
      after[j \in 0 .. n] ==
        IF j = 0 THEN 1 ELSE IF after[j - 1] = 0 THEN 0
        ELSE IF \/ j = 1 /\ ~ IsPrefix(parts[j], name)
                \/ j = n /\ ~ IsSuffix(parts[j], name)
             THEN 0 ELSE Find(name, parts[j], after[j - 1])
  IN after[n] # 0

\* The loop of MatchStr over the parts of one field: where the search for the
\* next part begins, or 0 when a part was not found.  A last part longer than
\* the name is compared with what is in front of the name in memory; whatever
\* that gives, find does not find it.
MatchField(name, parts) ==
  LET n == Len(parts)
      after[j \in 0 .. n] ==
        IF j = 0 THEN 1 ELSE IF after[j - 1] = 0 THEN 0
        ELSE LET i == Find(name, parts[j], after[j - 1])
             IN IF \/ j = 1 /\ ~ IsPrefix(parts[j], name)
                   \/ j = n /\ ~ IsSuffix(parts[j], name)
                   \/ i = 0
                THEN 0 ELSE i + Len(parts[j])
  IN after[n] # 0

MatchStr(str, rules) ==
  /\ rules # <<>>
  /\ \/ rules = <<"*">>
     \/ LET fields == SplitToCmd(ToUpper(rules), <<",">>)
        IN \E i \in DOMAIN fields :
             /\ fields[i] # <<>>
             /\ MatchField(ToUpper(str), SplitToCmd(fields[i], <<"*">>))

\* UpdateStr without bloop: every place, from left to right.
UpdateStr(s, old, new) ==
  LET from[k \in 1 .. Len(s) + 1] ==
        LET i == Find(s, old, k)
        IN IF i = 0 THEN SubSeq(s, k, Len(s))
           ELSE SubSeq(s, k, i - 1) \o new \o from[i + Len(old)]
  IN from[1]

\* UpdateStr with bloop: again from the start until there is none; nothing at
\* all if `new' contains `old'.
UpdateAll(s, old, new) ==
  LET left[n \in 0 .. Len(s)] ==
        IF n = 0 THEN s
        ELSE LET i == Find(left[n - 1], old, 1)
             IN IF i = 0 THEN left[n - 1]
                ELSE SubSeq(left[n - 1], 1, i - 1) \o new
                     \o SubSeq(left[n - 1], i + Len(old), Len(left[n - 1]))
  IN IF Find(new, old, 1) # 0 THEN s ELSE left[Len(s)]

\* _OpenDir: the path of an entry of a directory.
Entry(dir, name) == UpdateAll(dir \o <<"/", "/">> \o name, <<"/", "/">>, <<"/">>)

\* Mutant: UpdateStr is called with bloop.
ServerName_Loop(path, clientpath, srvpath) == UpdateAll(path, clientpath, srvpath)

\* RecvFilesMain: where the server puts a file.
ServerName(path, clientpath, srvpath) == UpdateStr(path, clientpath, srvpath)

\* _putfile: the path the client reports; only the first place is replaced.
ReportedName(path, clientpath, srvpath) ==
  LET i == Find(path, clientpath, 1)
  IN IF i = 0 THEN path
     ELSE SubSeq(path, 1, i - 1) \o srvpath
          \o SubSeq(path, i + Len(clientpath), Len(path))

\* videomerge: a file is split at its last slash, uploaded by directory and
\* name, and asked for under the server's directory.
AskedName(name, srvpath) == srvpath \o <<"/">> \o name

-----------------------------------------------------------------------------
(* The inputs: names without slashes, and directories as users write them. *)

Names == UNION {[1 .. n -> {"a", "b"}] : n \in 1 .. NameLen}
Rules == UNION {[1 .. n -> {"A", "b", "*", ","}] : n \in 1 .. RuleLen}
Dirs == {d \in UNION {[1 .. n -> {"/", "a", "b"}] : n \in 1 .. PathLen} :
           d[Len(d)] # "/" /\ Find(d, <<"/", "/">>, 1) = 0}

\* What a rule means: `*' is any string, and a field matches the whole name.
\* Each character of the field stands for what is between two places.
Glob(name, field) ==
  \E place \in [1 .. Len(field) + 1 -> 1 .. Len(name) + 1] :
    /\ place[1] = 1 /\ place[Len(field) + 1] = Len(name) + 1
    /\ \A j \in DOMAIN field :
         IF field[j] = "*" THEN place[j] <= place[j + 1]
         ELSE place[j + 1] = place[j] + 1 /\ field[j] = name[place[j]]

-----------------------------------------------------------------------------
(* Properties.                                                             *)

\* A file is selected if and only if its name, in upper case, matches a field
\* of the rule as _public.cpp:338-341 describes; or begins and ends with a
\* field that has no `*', which is more than the comment says: the rule
\* "ab" also selects "abab".
MatchAgrees ==
  \A name \in Names, rules \in Rules :
    LET fields == SplitToCmd(ToUpper(rules), <<",">>)
        n == ToUpper(name)
    IN MatchStr(name, rules) <=>
         \E i \in DOMAIN fields :
           /\ fields[i] # <<>>
           /\ \/ Glob(n, fields[i])
              \/ "*" \notin Range(fields[i]) /\ IsPrefix(fields[i], n) /\ IsSuffix(fields[i], n)

\* An uploaded file is where the client reports it to be and where a merge
\* looks for it, if and only if its directory is not written again in what
\* follows it in the path, or is the server's directory (fileserver.cpp:386,
\* main.cpp:618-626, 748-749).
NamesAgree ==
  \A dir, srvpath \in Dirs, name \in Names :
    LET path == Entry(dir, name)
        stored == ServerName(path, dir, srvpath)
    IN /\ ReportedName(path, dir, srvpath) = AskedName(name, srvpath)
       /\ stored = AskedName(name, srvpath)
            <=> Find(path, dir, Len(dir) + 1) = 0 \/ dir = srvpath
=============================================================================
