--------------------------- MODULE OutputAddress ---------------------------
(***************************************************************************)
(* Output-address validation of a process config (validateConfig, lines  *)
(* 669-724, and validateOutputAddress, lines 743-812 of                   *)
(* src/restream/restream.go).  An address is a sequence of tokens; a      *)
(* token is one character or a word whose inner characters no check looks *)
(* at ("dev", "file:", the URL start "u:", the tee option group "[o]").   *)
(* Where the code compares strings character by character (the /dev/ and *)
(* basedir prefixes) the tokens are spelled out first.                    *)
(*                                                                         *)
(* The loop runs over the outputs of the config and, for each, over the   *)
(* base directories of the disk filesystems, feeding each call the       *)
(* address the previous call returned.  TLC only: the path helpers are   *)
(* recursive.                                                              *)
(***************************************************************************)
EXTENDS Naturals, Sequences, SequencesExt

CONSTANTS
  Cwd,       \* the working directory filepath.Abs resolves against
  BaseLists, \* the possible lists of disk filesystem base directories
  Outputs    \* the lists of output addresses a config may carry

\* How each token is spelled, character by character.
Spell ==
  [t \in {"/", "d", "dev", "2", ".", "|", "-", "file:", "u:", "pipe:", "[o]"} |->
     CASE t = "dev"   -> <<"d", "e", "v">>
       [] t = "file:" -> <<"f", "i", "l", "e", ":">>
       [] t = "u:"    -> <<"u", ":">>
       [] t = "pipe:" -> <<"p", "i", "p", "e", ":">>
       [] t = "[o]"   -> <<"[", "o", "]">>
       [] OTHER       -> <<t>>]

Str(a) == FlattenSeq([i \in DOMAIN a |-> Spell[a[i]]])

\* strings.HasPrefix on the spelled-out strings.
HasPrefix(a, p) == IsPrefix(Str(p), Str(a))

\* strings.Split: the pieces between the separators, empty ones included.
RECURSIVE Split(_, _)
Split(s, sep) ==
  IF \A i \in DOMAIN s : s[i] # sep THEN <<s>>
  ELSE LET k == CHOOSE i \in DOMAIN s : s[i] = sep /\ \A j \in 1..i-1 : s[j] # sep
       IN <<SubSeq(s, 1, k - 1)>> \o Split(SubSeq(s, k + 1, Len(s)), sep)

\* strings.Join.
Join(ps, sep) ==
  IF ps = <<>> THEN <<>>
  ELSE FoldLeft(LAMBDA acc, p : acc \o <<sep>> \o p, Head(ps), Tail(ps))

\* filepath.Clean of a rooted path: drop empty and "." elements, let ".."
\* remove the element before it (nothing at the root), join under "/".
Clean(p) ==
  LET elems == SelectSeq(Split(p, "/"), LAMBDA e : e # <<>> /\ e # <<".">>)
      kept  == FoldLeft(LAMBDA st, e : IF e = <<".", ".">>
                                       THEN IF st = <<>> THEN st ELSE Front(st)
                                       ELSE Append(st, e),
                        <<>>, elems)
  IN IF kept = <<>> THEN <<"/">>
     ELSE FlattenSeq([i \in DOMAIN kept |-> <<"/">> \o kept[i]])

IsAbs(p) == p # <<>> /\ p[1] = "/"

\* filepath.Abs: a relative path is joined to the working directory; the
\* result is cleaned.
Abs(p) == IF IsAbs(p) THEN Clean(p) ELSE Clean(Cwd \o <<"/">> \o p)

\* url.HasScheme (net/url, outside this repository): the address starts
\* with a scheme, a letter followed by letters and a colon.  Of the tokens,
\* "u:", "pipe:" and "file:" start one: a second "file:" left after line
\* 772 strips the first makes the address a URL.
HasScheme(a) == a # <<>> /\ a[1] \in {"u:", "pipe:", "file:"}

\* The leading "[...]" option group of a tee element, and the rest.
Options(a) == IF a # <<>> /\ a[1] = "[o]" THEN <<"[o]">> ELSE <<>>

StripOptions(a) == SubSeq(a, Len(Options(a)) + 1, Len(a))

TrimFile(a) == IF a # <<>> /\ a[1] = "file:" THEN Tail(a) ELSE a

IsTee(a) == (\E i \in DOMAIN a : a[i] = "|") \/ Options(a) # <<>>

Dev == <<"/", "dev", "/">>

Result(a, file, err) == [addr |-> a, file |-> file, err |-> err]

\* validateOutputAddress(address, basedir).  A tee is split at "|", each
\* element validated without its option group, and rejoined; the first
\* failing element fails the whole address, which is returned unchanged.
\* The engine's allow-list (ffmpeg.ValidateOutputAddress) and url.Validate
\* accept every address here.
RECURSIVE ValidateOutputAddress(_, _)
ValidateOutputAddress(address, basedir) ==
  IF IsTee(address)
  THEN LET es == Split(address, "|")
           rs == [i \in DOMAIN es |-> ValidateOutputAddress(StripOptions(es[i]), basedir)]
       IN IF \E i \in DOMAIN rs : rs[i].err THEN Result(address, FALSE, TRUE)
          ELSE Result(Join([i \in DOMAIN es |-> Options(es[i]) \o rs[i].addr], "|"),
                      \E i \in DOMAIN rs : rs[i].file, FALSE)
  ELSE LET a == TrimFile(address) IN
       IF HasScheme(a) THEN Result(a, FALSE, FALSE)
       ELSE IF a = <<"-">> THEN Result(<<"pipe:">>, FALSE, FALSE)
       ELSE LET p == Abs(a) IN
            IF HasPrefix(p, Dev) THEN Result(<<"file:">> \o p, FALSE, FALSE)
            ELSE IF ~HasPrefix(p, basedir) THEN Result(p, FALSE, TRUE)
            ELSE Result(<<"file:">> \o p, TRUE, FALSE)

-----------------------------------------------------------------------------
VARIABLES
  bases,    \* base directories of r.fs.diskfs
  output,   \* the output addresses of the config
  o,        \* index of the output being validated; 0 before the loop
  f,        \* index of the next filesystem to try; 0 before the address check
  address,  \* io.Address, the loop's copy of the output
  maxFails, \* filesystems that rejected the current output
  err,      \* whether the last validateOutputAddress call failed
  hasFiles, \* whether some output is a file
  result    \* "running", then "ok" or "error" when validateConfig returns

vars == <<bases, output, o, f, address, maxFails, err, hasFiles, result>>

\* The directories tried: the disk bases, or "/" when there is none.
Dirs == IF bases = <<>> THEN <<<<"/">>>> ELSE bases

Init ==
  /\ bases \in BaseLists
  /\ output \in Outputs
  /\ o = 0
  /\ f = 0
  /\ address = <<>>
  /\ maxFails = 0
  /\ err = FALSE
  /\ hasFiles = FALSE
  /\ result = "running"

\* At least one output must be defined.
CheckOutputs ==
  /\ result = "running" /\ o = 0
  /\ IF output = <<>> THEN result' = "error" /\ UNCHANGED o
     ELSE o' = 1 /\ UNCHANGED result
  /\ UNCHANGED <<bases, output, f, address, maxFails, err, hasFiles>>

\* A BeginOutput that keeps the count of the previous output's rejections.
BeginOutputNoReset ==
  /\ result = "running" /\ o \in DOMAIN output /\ f = 0
  /\ address' = output[o]
  /\ IF output[o] = <<>> THEN result' = "error" /\ UNCHANGED f
     ELSE f' = 1 /\ UNCHANGED result
  /\ UNCHANGED <<bases, output, o, maxFails, err, hasFiles>>

\* The loop copies the output; an empty address fails the config.
BeginOutput ==
  /\ result = "running" /\ o \in DOMAIN output /\ f = 0
  /\ address' = output[o]
  /\ maxFails' = 0
  /\ IF output[o] = <<>> THEN result' = "error" /\ UNCHANGED f
     ELSE f' = 1 /\ UNCHANGED result
  /\ UNCHANGED <<bases, output, o, err, hasFiles>>

\* One filesystem validates the address the previous one returned.
ValidateAt ==
  /\ result = "running" /\ o \in DOMAIN output /\ f \in DOMAIN Dirs
  /\ LET r == ValidateOutputAddress(address, Dirs[f]) IN
       /\ address' = r.addr
       /\ err' = r.err
       /\ maxFails' = maxFails + (IF r.err THEN 1 ELSE 0)
       /\ hasFiles' = (hasFiles \/ r.file)
  /\ f' = f + 1
  /\ UNCHANGED <<bases, output, o, result>>

\* The output fails when every filesystem rejected it.  The copy in
\* address is dropped: nothing is written back into output.
EndOutput ==
  /\ result = "running" /\ o \in DOMAIN output /\ f = Len(Dirs) + 1
  /\ IF maxFails = Len(Dirs) THEN result' = "error" /\ UNCHANGED <<o, f>>
     ELSE o' = o + 1 /\ f' = 0 /\ UNCHANGED result
  /\ UNCHANGED <<bases, output, address, maxFails, err, hasFiles>>

\* Every output passed: validateConfig returns hasFiles.
Finish ==
  /\ result = "running" /\ o = Len(output) + 1 /\ o > 0
  /\ result' = "ok"
  /\ UNCHANGED <<bases, output, o, f, address, maxFails, err, hasFiles>>

Next == CheckOutputs \/ BeginOutput \/ ValidateAt \/ EndOutput \/ Finish

Spec == Init /\ [][Next]_vars


-----------------------------------------------------------------------------
Tokens == DOMAIN Spell

TypeOK ==
  /\ bases \in BaseLists
  /\ output \in Seq(Seq(Tokens))
  /\ o \in 0..Len(output) + 1
  /\ f \in 0..Len(Dirs) + 1
  /\ address \in Seq(Tokens)
  /\ maxFails \in 0..Len(Dirs)
  /\ err \in BOOLEAN
  /\ hasFiles \in BOOLEAN
  /\ result \in {"running", "ok", "error"}

\* The elements of an address that name a file: each tee element, without
\* its option group, that starts with "file:", as the path after it.
FilePaths(a) ==
  LET es == {StripOptions(e) : e \in ToSet(Split(a, "|"))}
  IN {Tail(e) : e \in {e \in es : e # <<>> /\ e[1] = "file:"}}

\* The elements of a path, component by component.
Elements(p) == SelectSeq(Split(p, "/"), LAMBDA e : e # <<>>)

\* p lies under the directory d, judged element by element.
Inside(p, d) == IsPrefix(Elements(d), Elements(p))

\* The verdict of the chained loop is the one spec 4.1 gives: an output is
\* invalid exactly when every disk filesystem, validating the original
\* address on its own, rejects it, and the config uses the disk exactly
\* when one of those validations yields a file.  The code instead feeds
\* each filesystem the address the previous one returned, and that is not
\* the same: with bases /d then /2, "file:file:/2" is a URL for /d, which
\* returns "file:/2", and a file inside /2 for the next base, though no
\* base alone reports a file.  TLC finds this property violated.
VerdictAsSpecified ==
  result # "running" =>
    /\ (result = "error") =
         \/ output = <<>>
         \/ \E i \in DOMAIN output :
              \/ output[i] = <<>>
              \/ \A d \in ToSet(Dirs) : ValidateOutputAddress(output[i], d).err
    /\ result = "ok" =>
         (hasFiles = \E i \in DOMAIN output, d \in ToSet(Dirs) :
                       ValidateOutputAddress(output[i], d).file)

\* Spec 4.1: a file path of an accepted output must lie under the base
\* directory that accepted it (a /dev/ path excepted).  The code checks
\* this with strings.HasPrefix on the path (line 803), and skips the check
\* for an address that is a URL once one "file:" is stripped (line 772),
\* such as "file:file:/2".
FilesInsideBase ==
  result = "ok" =>
    \A i \in DOMAIN output : \E d \in ToSet(Dirs) :
      LET r == ValidateOutputAddress(output[i], d) IN
        /\ ~r.err
        /\ \A p \in FilePaths(r.addr) : HasPrefix(p, Dev) \/ Inside(p, d)

\* Spec 4.1: the accepted form of an output address overwrites the
\* original in the config.  The loop of validateConfig assigns it to io,
\* the range variable, a copy of the config's element.
NormalisedFormStored ==
  result = "ok" =>
    \A i \in DOMAIN output : \E d \in ToSet(Dirs) :
      LET r == ValidateOutputAddress(output[i], d) IN
        ~r.err /\ output[i] = r.addr

=============================================================================
