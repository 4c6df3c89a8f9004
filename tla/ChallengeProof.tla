---------------------------- MODULE ChallengeProof ----------------------------
(***************************************************************************)
(* The handler of internal/challengeproof: requests for ownership proofs,  *)
(* answered from files, beside an operator who publishes, rewrites and     *)
(* removes the files.                                                      *)
(*                                                                         *)
(* The operator and the file system are outside the repository.  A file is *)
(* a sequence of bytes under an inode; a request that has a file open goes *)
(* on reading that inode whatever becomes of its name.                     *)
(***************************************************************************)
EXTENDS Naturals, Sequences, FiniteSets

CONSTANTS
  Requests,   \* calls of ServeHTTP
  Names,      \* well-formed challenge identifiers
  Inodes,     \* what file names lead to
  Proofs,     \* what the operator writes, valid or not
  MaxRunes,   \* maximumProofCharacters
  None        \* no file, no request, no answer

\* A letter of one byte, and the two bytes of the widest rune of the model.
Bytes == {"letter", "lead", "tail"}
UTFMax == 2

\* maximumProofBytes
MaxBytes == UTFMax * MaxRunes

\* Requests that never come to a file.
OtherKinds == {"agent-path", "not-get", "bad-id"}

\* An answer: its status, or "agent" if it is the agent's, and a proof if it serves one.
Reply(status, body) == [status |-> status, body |-> body]
Replies == [status: {"200", "404", "405", "500", "agent"}, body: Seq(Bytes)]

ASSUME NoneAssumption ==
  None \notin Names \cup Inodes \cup Seq(Bytes) \cup OtherKinds \cup Replies
ASSUME KindsAssumption == Names \cap OtherKinds = {}
ASSUME ProofsAssumption == Proofs \subseteq Seq(Bytes)
ASSUME MaxRunesAssumption == MaxRunes \in Nat \ {0}

VARIABLES
  dir,       \* the directory: name -> inode or None
  data,      \* the bytes of each inode
  unwritten, \* what the operator has still to write to the file of each name
  pc,        \* where each request is
  asked,     \* what each request asks for
  file,      \* the inode a request has open, or None
  proof,     \* what a request has read so far
  answer,    \* status and body, or None
  seen,      \* history: what the name held at the moments of the request
  disturbed  \* history: the read failed, or the file was cut below what was read

files    == <<dir, data, unwritten>>
requests == <<pc, asked, file, proof, answer>>
vars     == <<files, requests, seen, disturbed>>

Init ==
  /\ dir       = [n \in Names |-> None]
  /\ data      = [i \in Inodes |-> <<>>]
  /\ unwritten = [n \in Names |-> <<>>]
  /\ pc        = [r \in Requests |-> "idle"]
  /\ asked     = [r \in Requests |-> None]
  /\ file      = [r \in Requests |-> None]
  /\ proof     = [r \in Requests |-> <<>>]
  /\ answer    = [r \in Requests |-> None]
  /\ seen      = [r \in Requests |-> {}]
  /\ disturbed = [r \in Requests |-> FALSE]

held(n) == IF dir[n] = None THEN None ELSE data[dir[n]]

-----------------------------------------------------------------------------
(* The operator (external), who finishes one edit of a name before the next. *)

unused(i) == (\A n \in Names : dir[n] # i) /\ (\A r \in Requests : file[r] # i)

\* What the histories record of an edit, from the files after it.
Recorded ==
  /\ seen' = [r \in Requests |->
       IF pc[r] \in {"received", "reading"} /\ asked[r] \in Names
       THEN seen[r] \cup {IF dir'[asked[r]] = None THEN None ELSE data'[dir'[asked[r]]]}
       ELSE seen[r]]
  /\ disturbed' = [r \in Requests |->
       disturbed[r] \/ (file[r] # None /\ Len(data'[file[r]]) < Len(proof[r]))]

\* A finished file is renamed to n.
Publish(n, i, p) ==
  /\ unwritten[n] = <<>> /\ unused(i)
  /\ data' = [data EXCEPT ![i] = p]
  /\ dir' = [dir EXCEPT ![n] = i]
  /\ UNCHANGED <<unwritten, requests>> /\ Recorded

\* The file n is created, or cut to nothing, and will be written in place.
Rewrite(n, i, p) ==
  /\ unwritten[n] = <<>>
  /\ IF dir[n] = None THEN unused(i) ELSE i = dir[n]
  /\ data' = [data EXCEPT ![i] = <<>>]
  /\ dir' = [dir EXCEPT ![n] = i]
  /\ unwritten' = [unwritten EXCEPT ![n] = p]
  /\ UNCHANGED requests /\ Recorded

Write(n) ==
  /\ unwritten[n] # <<>>
  /\ data' = [data EXCEPT ![dir[n]] = Append(@, Head(unwritten[n]))]
  /\ unwritten' = [unwritten EXCEPT ![n] = Tail(@)]
  /\ UNCHANGED <<dir, requests>> /\ Recorded

Remove(n) ==
  /\ unwritten[n] = <<>> /\ dir[n] # None
  /\ dir' = [dir EXCEPT ![n] = None]
  /\ UNCHANGED <<data, unwritten, requests>> /\ Recorded

Operator ==
  \E n \in Names :
    \/ \E i \in Inodes, p \in Proofs : Publish(n, i, p) \/ Rewrite(n, i, p)
    \/ Write(n) \/ Remove(n)

-----------------------------------------------------------------------------
(* The handler.                                                            *)

utf8Valid(s) ==
  \A k \in DOMAIN s :
    /\ s[k] = "lead" => k + 1 \in DOMAIN s /\ s[k + 1] = "tail"
    /\ s[k] = "tail" => k - 1 \in DOMAIN s /\ s[k - 1] = "lead"

\* RuneCount of valid UTF-8.
runeCount(s) == Cardinality({k \in DOMAIN s : s[k] # "tail"})

\* Mutant: the limit on characters is applied to bytes.
validBytes(s) == s # <<>> /\ Len(s) <= MaxRunes /\ utf8Valid(s)

validProof(s) ==
  /\ s # <<>> /\ Len(s) <= MaxBytes /\ utf8Valid(s)
  /\ runeCount(s) <= MaxRunes

\* Mutant: reading stops at the longest valid proof, so a longer file goes unnoticed.
limitWithoutSentinel == MaxBytes

\* Mutant: the whole file is read into memory.
noLimit == MaxBytes + 2

\* Where the LimitReader ends.
readLimit == MaxBytes + 1

Answer(r, a) ==
  /\ answer' = [answer EXCEPT ![r] = a]
  /\ pc' = [pc EXCEPT ![r] = "answered"]
  /\ file' = [file EXCEPT ![r] = None]
  /\ UNCHANGED <<files, asked, seen>>

Arrive(r, kind) ==
  /\ pc[r] = "idle"
  /\ pc' = [pc EXCEPT ![r] = "received"]
  /\ asked' = [asked EXCEPT ![r] = kind]
  /\ seen' = [seen EXCEPT ![r] = IF kind \in Names THEN {held(kind)} ELSE {}]
  /\ UNCHANGED <<files, file, proof, answer, disturbed>>

\* The agent's own handler answers every path outside the prefix.
otherStatus(kind) ==
  CASE kind = "agent-path" -> "agent"
    [] kind = "not-get"    -> "405"
    [] kind = "bad-id"     -> "404"

Decline(r) ==
  /\ pc[r] = "received" /\ asked[r] \in OtherKinds
  /\ Answer(r, Reply(otherStatus(asked[r]), <<>>))
  /\ UNCHANGED <<proof, disturbed>>

Missing(r) ==
  /\ pc[r] = "received" /\ asked[r] \in Names
  /\ dir[asked[r]] = None
  /\ Answer(r, Reply("404", <<>>))
  /\ UNCHANGED <<proof, disturbed>>

Open(r) ==
  /\ pc[r] = "received" /\ asked[r] \in Names
  /\ dir[asked[r]] # None
  /\ file' = [file EXCEPT ![r] = dir[asked[r]]]
  /\ pc' = [pc EXCEPT ![r] = "reading"]
  /\ UNCHANGED <<files, asked, proof, answer, seen, disturbed>>

\* Opening, reading or closing fails with an error of the file system.
Fail(r) ==
  /\ pc[r] = "reading" \/ (pc[r] = "received" /\ asked[r] \in Names)
  /\ disturbed' = [disturbed EXCEPT ![r] = TRUE]
  /\ Answer(r, Reply("500", <<>>))
  /\ UNCHANGED proof

least(a, b) == IF a < b THEN a ELSE b

\* Mutant: every read of ReadAll starts at the beginning of the file.
readFromTheStart(r) ==
  /\ pc[r] = "reading"
  /\ \E k \in Len(proof[r]) + 1 .. least(readLimit, Len(data[file[r]])) :
       proof' = [proof EXCEPT ![r] = @ \o SubSeq(data[file[r]], 1, k - Len(@))]
  /\ UNCHANGED <<files, pc, asked, file, answer, seen, disturbed>>

\* One read within ReadAll: some of the bytes that are there.
Read(r) ==
  /\ pc[r] = "reading"
  /\ \E k \in Len(proof[r]) + 1 .. least(readLimit, Len(data[file[r]])) :
       proof' = [proof EXCEPT ![r] = @ \o SubSeq(data[file[r]], Len(@) + 1, k)]
  /\ UNCHANGED <<files, pc, asked, file, answer, seen, disturbed>>

\* The limit, or the end of the file: close, validate, answer.
Finish(r) ==
  /\ pc[r] = "reading"
  /\ Len(proof[r]) >= least(readLimit, Len(data[file[r]]))
  /\ Answer(r, IF validProof(proof[r]) THEN Reply("200", proof[r]) ELSE Reply("500", <<>>))
  /\ UNCHANGED <<proof, disturbed>>

ServeHTTP(r) ==
  Decline(r) \/ Missing(r) \/ Open(r) \/ Fail(r) \/ Read(r) \/ Finish(r)

Next ==
  \/ Operator
  \/ \E r \in Requests : ServeHTTP(r) \/ \E kind \in Names \cup OtherKinds : Arrive(r, kind)

Spec == Init /\ [][Next]_vars

-----------------------------------------------------------------------------
(* Properties.                                                             *)

\* Type invariant.  However the file grows while it is read, a request holds at most
\* one byte more than the longest proof.
TypeOK ==
  /\ dir \in [Names -> Inodes \cup {None}]
  /\ data \in [Inodes -> Seq(Bytes)]
  /\ unwritten \in [Names -> Seq(Bytes)]
  /\ pc \in [Requests -> {"idle", "received", "reading", "answered"}]
  /\ asked \in [Requests -> Names \cup OtherKinds \cup {None}]
  /\ file \in [Requests -> Inodes \cup {None}]
  /\ proof \in [Requests -> Seq(Bytes)]
  /\ answer \in [Requests -> Replies \cup {None}]
  /\ seen \in [Requests -> SUBSET (Seq(Bytes) \cup {None})]
  /\ disturbed \in [Requests -> BOOLEAN]
  /\ \A r \in Requests :
       /\ Len(proof[r]) <= MaxBytes + 1
       /\ (file[r] # None) = (pc[r] = "reading")
       /\ (answer[r] # None) = (pc[r] = "answered")

\* What a request is owed for content c: a proof is one to MaxRunes characters.
owed(c) ==
  CASE c = None -> Reply("404", <<>>)
    [] c # None /\ utf8Valid(c) /\ runeCount(c) \in 1 .. MaxRunes -> Reply("200", c)
    [] OTHER -> Reply("500", <<>>)

\* A request is answered as if it had been carried out at one moment between its
\* arrival and its answer: a proof is served exactly and in full, never as the prefix
\* of a longer file, and replacing a proof never makes it missing or invalid.  That
\* holds for proofs that are renamed, removed or growing while they are read.  A file that
\* is cut short under a reader is exempt, as the code may then serve what the file never
\* was (ServedBytesWereThere), and so is a failing file system.
AnswersOneMoment ==
  \A r \in Requests :
    pc[r] = "answered" /\ asked[r] \in Names /\ ~disturbed[r] =>
      answer[r] \in {owed(c) : c \in seen[r]}

\* Each byte of s was at its place in something that the name held during the request.
wasThere(r, s) ==
  \A k \in DOMAIN s : \E c \in seen[r] : c # None /\ k \in DOMAIN c /\ c[k] = s[k]

\* What a request may serve at all.
servable(r, s) ==
  utf8Valid(s) /\ runeCount(s) \in 1 .. MaxRunes /\ wasThere(r, s)

\* A file that is rewritten in place between two reads of one request can be served as a
\* mixture of the old proof and the new, since nothing in the handler keeps the two reads
\* together.  That is the worst of it: also then what is served is a well-formed proof of
\* the permitted length, and each of its bytes stood at its place in the file of that name
\* at some moment of the request, so nothing of another name, of an earlier request or of
\* before the arrival gets in.
ServedBytesWereThere ==
  \A r \in Requests :
    pc[r] = "answered" /\ asked[r] \in Names /\ answer[r].status = "200" =>
      servable(r, answer[r].body)

\* The strengthening under which both are inductive.  FileInv: a file has one name at
\* most, and only a file that has one is being written.
FileInv ==
  /\ \A m, n \in Names : dir[m] # None /\ dir[m] = dir[n] => m = n
  /\ \A n \in Names : unwritten[n] # <<>> => dir[n] # None

isPrefix(s, t) == Len(s) <= Len(t) /\ \A k \in 1 .. Len(s) : s[k] = t[k]

\* RequestInv: a request reads what its name held at some moment since its arrival, under
\* no other name; what it has read was there, and unless the file was cut, is the
\* beginning of what the file holds now.
RequestInv(r) ==
  /\ pc[r] \in {"idle", "received"} => proof[r] = <<>>
  /\ pc[r] \in {"received", "reading"} /\ asked[r] \in Names => held(asked[r]) \in seen[r]
  /\ pc[r] = "reading" =>
       /\ asked[r] \in Names
       /\ data[file[r]] \in seen[r]
       /\ \A n \in Names : dir[n] = file[r] => n = asked[r]
       /\ wasThere(r, proof[r])
       /\ ~disturbed[r] => isPrefix(proof[r], data[file[r]])

ReadingInv ==
  /\ TypeOK
  /\ FileInv
  /\ \A r \in Requests : RequestInv(r)
  /\ AnswersOneMoment
  /\ ServedBytesWereThere
=============================================================================
