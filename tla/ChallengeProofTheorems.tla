------------------------- MODULE ChallengeProofTheorems -------------------------
(***************************************************************************)
(* Theorems about ChallengeProof, for any number of requests, names and    *)
(* files, whatever the operator writes, and every limit on characters.     *)
(***************************************************************************)
EXTENDS ChallengeProof, FiniteSetTheorems, SequenceTheorems, TLAPS

\* None differs from whatever it is the absence of.
LEMMA NoneIsApart ==
  /\ None \notin Names /\ None \notin Inodes /\ None \notin OtherKinds
  /\ \A s \in Seq(Bytes) : s # None
  /\ \A a \in Replies : a # None
BY NoneAssumption

-----------------------------------------------------------------------------
(* Bytes and characters.                                                   *)

\* Counting two disjoint sets.
LEMMA DisjointUnion ==
  ASSUME NEW S, NEW T, IsFiniteSet(S), IsFiniteSet(T), S \cap T = {}
  PROVE  Cardinality(S \cup T) = Cardinality(S) + Cardinality(T)
<1>1. Cardinality(S) \in Nat /\ Cardinality(T) \in Nat /\ Cardinality({}) = 0
  BY FS_CardinalityType, FS_EmptySet
<1>2. Cardinality(S \cup T) = Cardinality(S) + Cardinality(T) - Cardinality(S \cap T)
  BY FS_Union
<1>3. Cardinality(S \cap T) = 0
  BY <1>1, Zenon
<1> QED
  BY <1>1, <1>2, <1>3

\* Valid UTF-8 is not longer than the widest rune for each of its characters, and has
\* a character unless it is empty.
LEMMA RunesBoundBytes ==
  ASSUME NEW s \in Seq(Bytes), utf8Valid(s)
  PROVE  /\ runeCount(s) \in Nat
         /\ Len(s) <= UTFMax * runeCount(s)
         /\ s # <<>> => runeCount(s) >= 1
<1> DEFINE D == 1 .. Len(s)
           tails == {k \in D : s[k] = "tail"}
           others == {k \in D : s[k] # "tail"}
           f == [k \in tails |-> k - 1]
<1>1. Len(s) \in Nat /\ DOMAIN s = D
  BY LenProperties
<1>2. IsFiniteSet(D) /\ Cardinality(D) = Len(s)
  BY <1>1, FS_Interval
<1>3. /\ IsFiniteSet(tails) /\ IsFiniteSet(others)
      /\ Cardinality(tails) \in Nat /\ Cardinality(others) \in Nat
  BY <1>2, FS_Subset, FS_CardinalityType
<1>4. runeCount(s) = Cardinality(others)
  BY <1>1 DEF runeCount
<1>5. Len(s) = Cardinality(tails) + Cardinality(others)
  <2>1. D = tails \cup others /\ tails \cap others = {}
    OBVIOUS
  <2> HIDE DEF D, tails, others
  <2>2. Cardinality(tails \cup others) = Cardinality(tails) + Cardinality(others)
    BY <1>3, <2>1, DisjointUnion
  <2> QED
    BY <1>2, <2>1, <2>2
<1>6. Cardinality(tails) <= Cardinality(others)
  <2>1. ASSUME NEW k \in tails PROVE k - 1 \in others
    BY <1>1, <2>1 DEF utf8Valid
  <2>2. f \in Injection(tails, others)
    BY <2>1 DEF Injection, IsInjective
  <2> QED
    BY <1>3, <2>2, FS_Injection
<1>7. ASSUME s # <<>> PROVE Cardinality(others) >= 1
  <2>1. Len(s) > 0
    BY <1>1, <1>7, EmptySeq
  <2> HIDE DEF tails, others
  <2> QED
    BY <1>3, <1>5, <1>6, <2>1
<1> HIDE DEF tails, others
<1> QED
  BY <1>3, <1>4, <1>5, <1>6, <1>7 DEF UTFMax

\* The handler's checks are what a proof is owed: the limit on bytes refuses nothing
\* that the limit on characters allows.
LEMMA ValidIsOwed ==
  ASSUME NEW s \in Seq(Bytes)
  PROVE  validProof(s) <=> utf8Valid(s) /\ runeCount(s) \in 1 .. MaxRunes
<1>1. MaxRunes \in Nat /\ MaxBytes = 2 * MaxRunes
  BY MaxRunesAssumption DEF MaxBytes, UTFMax
<1>2. CASE utf8Valid(s)
  <2>1. /\ runeCount(s) \in Nat /\ Len(s) <= 2 * runeCount(s)
        /\ s # <<>> => runeCount(s) >= 1
    BY <1>2, RunesBoundBytes DEF UTFMax
  <2>2. s = <<>> => runeCount(s) = 0
    <3>1. ASSUME s = <<>> PROVE {k \in DOMAIN s : s[k] # "tail"} = {}
      BY <3>1
    <3> QED
      BY <3>1, FS_EmptySet DEF runeCount
  <2> QED
    BY <1>1, <1>2, <2>1, <2>2, LenProperties DEF validProof
<1> QED
  BY <1>2 DEF validProof

\* A longer text is owed no proof.
LEMMA LongIsInvalid ==
  ASSUME NEW s \in Seq(Bytes), Len(s) > MaxBytes
  PROVE  ~validProof(s)
<1>1. MaxBytes \in Nat /\ Len(s) \in Nat
  BY MaxRunesAssumption, LenProperties DEF MaxBytes, UTFMax
<1> QED
  BY <1>1 DEF validProof

LEMMA OwedCases ==
  /\ owed(None) = Reply("404", <<>>)
  /\ \A s \in Seq(Bytes) :
       owed(s) = IF validProof(s) THEN Reply("200", s) ELSE Reply("500", <<>>)
BY ValidIsOwed, NoneIsApart DEF owed

-----------------------------------------------------------------------------
(* The type invariant.                                                     *)

LEMMA Bounds == MaxBytes \in Nat /\ readLimit = MaxBytes + 1 /\ readLimit \in Nat
BY MaxRunesAssumption DEF MaxBytes, UTFMax, readLimit

LEMMA LeastBounds ==
  ASSUME NEW a \in Nat, NEW b \in Nat
  PROVE  least(a, b) \in Nat /\ least(a, b) <= a /\ least(a, b) <= b /\ least(a, b) \in {a, b}
BY DEF least

\* A read adds some of the bytes that follow those that were read.
LEMMA ReadExtends ==
  ASSUME NEW p \in Seq(Bytes), NEW d \in Seq(Bytes),
         NEW k \in Len(p) + 1 .. least(readLimit, Len(d))
  PROVE  LET q == p \o SubSeq(d, Len(p) + 1, k) IN
         /\ q \in Seq(Bytes) /\ Len(q) = k /\ k <= MaxBytes + 1 /\ k <= Len(d)
         /\ \A j \in 1 .. Len(p) : q[j] = p[j]
         /\ \A j \in Len(p) + 1 .. k : q[j] = d[j]
<1>1. Len(p) \in Nat /\ Len(d) \in Nat
  BY LenProperties
<1>2. /\ k \in Nat /\ k <= readLimit /\ k <= Len(d) /\ Len(p) + 1 <= k
  <2> DEFINE l == least(readLimit, Len(d))
  <2>1. l \in Nat /\ l <= readLimit /\ l <= Len(d) /\ readLimit \in Nat
    BY <1>1, Bounds, LeastBounds
  <2>2. k \in Len(p) + 1 .. l
    OBVIOUS
  <2> HIDE DEF l
  <2> QED
    BY <1>1, <2>1, <2>2
<1> DEFINE t == SubSeq(d, Len(p) + 1, k)
           q == p \o t
<1>3. /\ t \in Seq(Bytes) /\ Len(t) = k - Len(p)
      /\ \A j \in 1 .. k - Len(p) : t[j] = d[Len(p) + j]
  <2>1. Len(p) + 1 \in 1 .. Len(d) + 1 /\ k \in Len(p) .. Len(d)
    BY <1>1, <1>2
  <2>2. \A j \in Len(p) + 1 .. k : d[j] \in Bytes
    BY <1>1, <1>2, ElementOfSeq
  <2> QED
    BY <1>1, <1>2, <2>1, <2>2, SubSeqProperties
<1> HIDE DEF t
<1>4. /\ q \in Seq(Bytes) /\ Len(q) = Len(p) + Len(t)
      /\ \A j \in 1 .. Len(p) + Len(t) : q[j] = IF j <= Len(p) THEN p[j] ELSE t[j - Len(p)]
  BY <1>3, ConcatProperties
<1> HIDE DEF q
<1>5. ASSUME NEW j \in Len(p) + 1 .. k PROVE q[j] = d[j]
  <2>1. q[j] = t[j - Len(p)] /\ j - Len(p) \in 1 .. k - Len(p)
    BY <1>1, <1>2, <1>3, <1>4
  <2>2. t[j - Len(p)] = d[Len(p) + (j - Len(p))] /\ Len(p) + (j - Len(p)) = j
    BY <1>1, <1>2, <1>3, <2>1
  <2> QED
    BY <2>1, <2>2
<1>6. \A j \in 1 .. Len(p) : q[j] = p[j]
  BY <1>1, <1>2, <1>3, <1>4
<1> QED
  BY <1>1, <1>2, <1>3, <1>4, <1>5, <1>6, Bounds DEF q, t

LEMMA ReadStep ==
  ASSUME TypeOK, NEW r \in Requests, Read(r)
  PROVE  \E q \in Seq(Bytes) :
           /\ proof' = [proof EXCEPT ![r] = q]
           /\ Len(q) <= MaxBytes + 1 /\ Len(q) <= Len(data[file[r]])
           /\ Len(proof[r]) < Len(q)
           /\ \A j \in 1 .. Len(proof[r]) : q[j] = proof[r][j]
           /\ \A j \in Len(proof[r]) + 1 .. Len(q) : q[j] = data[file[r]][j]
<1> DEFINE p == proof[r]
           d == data[file[r]]
<1>1. p \in Seq(Bytes) /\ d \in Seq(Bytes)
  BY DEF Read, TypeOK
<1>2. PICK k \in Len(p) + 1 .. least(readLimit, Len(d)) :
        proof' = [proof EXCEPT ![r] = p \o SubSeq(d, Len(p) + 1, k)]
  BY DEF Read
<1> HIDE DEF p, d
<1> DEFINE q == p \o SubSeq(d, Len(p) + 1, k)
<1>3. /\ q \in Seq(Bytes) /\ Len(q) = k /\ k <= MaxBytes + 1 /\ k <= Len(d)
      /\ \A j \in 1 .. Len(p) : q[j] = p[j]
      /\ \A j \in Len(p) + 1 .. k : q[j] = d[j]
  BY <1>1, <1>2, ReadExtends
<1>4. proof' = [proof EXCEPT ![r] = q]
  BY <1>2
<1>5. Len(p) < k
  BY <1>1, <1>2, LenProperties, Bounds, LeastBounds
<1> HIDE DEF q
<1> QED
  BY <1>3, <1>4, <1>5 DEF p, d

LEMMA TypeInit == Init => TypeOK
<1> SUFFICES ASSUME Init PROVE TypeOK
  OBVIOUS
<1>1. <<>> \in Seq(Bytes) /\ Len(<<>>) = 0
  BY EmptySeq
<1> QED
  BY <1>1, Bounds, NoneIsApart DEF Init, TypeOK

\* What an edit does to the histories.
LEMMA RecordedType ==
  ASSUME TypeOK, Recorded,
         dir' \in [Names -> Inodes \cup {None}], data' \in [Inodes -> Seq(Bytes)]
  PROVE  /\ seen' \in [Requests -> SUBSET (Seq(Bytes) \cup {None})]
         /\ disturbed' \in [Requests -> BOOLEAN]
<1>1. \A n \in Names : (IF dir'[n] = None THEN None ELSE data'[dir'[n]]) \in Seq(Bytes) \cup {None}
  OBVIOUS
<1>2. \A r \in Requests : seen[r] \subseteq Seq(Bytes) \cup {None}
  BY DEF TypeOK
<1> QED
  BY <1>1, <1>2 DEF Recorded

\* An edit leaves one name alone at most, and writes texts.
LEMMA TypeOperator == TypeOK /\ Operator => TypeOK'
<1> SUFFICES ASSUME TypeOK, NEW n \in Names,
                    \/ \E i \in Inodes, p \in Proofs : Publish(n, i, p) \/ Rewrite(n, i, p)
                    \/ Write(n) \/ Remove(n)
             PROVE  TypeOK'
  BY DEF Operator
<1>1. ASSUME NEW i \in Inodes, NEW p \in Proofs, Publish(n, i, p) PROVE TypeOK'
  <2>1. dir' \in [Names -> Inodes \cup {None}] /\ data' \in [Inodes -> Seq(Bytes)]
    BY <1>1, ProofsAssumption DEF Publish, TypeOK
  <2> QED
    BY <1>1, <2>1, RecordedType DEF Publish, TypeOK, requests
<1>2. ASSUME NEW i \in Inodes, NEW p \in Proofs, Rewrite(n, i, p) PROVE TypeOK'
  <2>1. p \in Seq(Bytes) /\ <<>> \in Seq(Bytes)
    BY ProofsAssumption
  <2>2. dir' \in [Names -> Inodes \cup {None}] /\ data' \in [Inodes -> Seq(Bytes)]
    BY <1>2, <2>1 DEF Rewrite, TypeOK
  <2> QED
    BY <1>2, <2>1, <2>2, RecordedType DEF Rewrite, TypeOK, requests
<1>3. ASSUME Write(n) PROVE TypeOK'
  <2>1. unwritten[n] \in Seq(Bytes) /\ unwritten[n] # <<>>
    BY <1>3 DEF Write, TypeOK
  <2>2. Head(unwritten[n]) \in Bytes /\ Tail(unwritten[n]) \in Seq(Bytes)
    BY <2>1, HeadTailProperties
  <2>3. \A i \in Inodes : Append(data[i], Head(unwritten[n])) \in Seq(Bytes)
    BY <2>2, AppendProperties DEF TypeOK
  <2>4. data' \in [Inodes -> Seq(Bytes)] /\ unwritten' \in [Names -> Seq(Bytes)]
    BY <1>3, <2>2, <2>3 DEF Write, TypeOK
  <2> QED
    BY <1>3, <2>4, RecordedType DEF Write, TypeOK, requests
<1>4. ASSUME Remove(n) PROVE TypeOK'
  <2>1. dir' \in [Names -> Inodes \cup {None}] /\ data' \in [Inodes -> Seq(Bytes)]
    BY <1>4 DEF Remove, TypeOK
  <2> QED
    BY <1>4, <2>1, RecordedType DEF Remove, TypeOK, requests
<1> QED
  BY <1>1, <1>2, <1>3, <1>4

\* A request that is being handled is answered with a reply.
LEMMA TypeAnswer ==
  ASSUME TypeOK, NEW r \in Requests, NEW a \in Replies, Answer(r, a), UNCHANGED proof,
         disturbed' \in [Requests -> BOOLEAN]
  PROVE  TypeOK'
BY NoneIsApart DEF Answer, TypeOK, files

LEMMA ReplyTypes ==
  /\ \A status \in {"200", "404", "405", "500", "agent"}, body \in Seq(Bytes) :
       Reply(status, body) \in Replies
  /\ <<>> \in Seq(Bytes)
BY DEF Reply, Replies

LEMMA TypeServe == TypeOK /\ (\E r \in Requests : ServeHTTP(r)) => TypeOK'
<1> SUFFICES ASSUME TypeOK, NEW r \in Requests, ServeHTTP(r) PROVE TypeOK'
  OBVIOUS
<1>1. proof[r] \in Seq(Bytes) /\ disturbed \in [Requests -> BOOLEAN]
  BY DEF TypeOK
<1>2. CASE Decline(r)
  <2>1. otherStatus(asked[r]) \in {"200", "404", "405", "500", "agent"}
    BY <1>2 DEF Decline, OtherKinds, otherStatus
  <2> QED
    BY <1>1, <1>2, <2>1, TypeAnswer, ReplyTypes DEF Decline
<1>3. CASE Missing(r)
  BY <1>1, <1>3, TypeAnswer, ReplyTypes DEF Missing
<1>4. CASE Open(r)
  <2>1. dir[asked[r]] \in Inodes /\ dir[asked[r]] # None
    BY <1>4 DEF Open, TypeOK
  <2> QED
    BY <1>4, <2>1 DEF Open, TypeOK, files
<1>5. CASE Fail(r)
  BY <1>1, <1>5, TypeAnswer, ReplyTypes DEF Fail
<1>6. CASE Read(r)
  <2>1. PICK q \in Seq(Bytes) : proof' = [proof EXCEPT ![r] = q] /\ Len(q) <= MaxBytes + 1
    BY <1>6, ReadStep
  <2> QED
    BY <1>6, <2>1 DEF Read, TypeOK, files
<1>7. CASE Finish(r)
  <2>1. (IF validProof(proof[r]) THEN Reply("200", proof[r]) ELSE Reply("500", <<>>)) \in Replies
    BY <1>1, ReplyTypes
  <2> QED
    BY <1>1, <1>7, <2>1, TypeAnswer DEF Finish
<1> QED
  BY <1>2, <1>3, <1>4, <1>5, <1>6, <1>7 DEF ServeHTTP

LEMMA TypeStep == TypeOK /\ [Next]_vars => TypeOK'
<1> SUFFICES ASSUME TypeOK, [Next]_vars PROVE TypeOK'
  OBVIOUS
<1>1. CASE Operator
  BY <1>1, TypeOperator
<1>2. CASE \E r \in Requests : ServeHTTP(r)
  BY <1>2, TypeServe
<1>3. ASSUME NEW r \in Requests, NEW kind \in Names \cup OtherKinds, Arrive(r, kind) PROVE TypeOK'
  <2>1. (IF kind \in Names THEN {held(kind)} ELSE {}) \in SUBSET (Seq(Bytes) \cup {None})
    BY DEF held, TypeOK
  <2> QED
    BY <1>3, <2>1 DEF Arrive, TypeOK, files
<1>4. CASE UNCHANGED vars
  BY <1>4 DEF vars, files, requests, TypeOK
<1> QED
  BY <1>1, <1>2, <1>3, <1>4 DEF Next

\* A request never holds more than one byte beyond the longest proof.
THEOREM TypeCorrect == Spec => []TypeOK
<1> QED
  BY TypeInit, TypeStep, PTL DEF Spec

-----------------------------------------------------------------------------
(* The inductive invariant: edits.                                         *)

Edit(n) ==
  \/ \E i \in Inodes, p \in Proofs : Publish(n, i, p) \/ Rewrite(n, i, p)
  \/ Write(n) \/ Remove(n)

\* An edit of a name leads it to the same file, to none, or to one that nobody uses, and
\* changes no other file than the one it leads to then; a file that had that name before
\* is cut to nothing or grows by a byte.
LEMMA EditFacts ==
  ASSUME TypeOK, FileInv, NEW n \in Names, Edit(n)
  PROVE  /\ UNCHANGED requests /\ Recorded
         /\ \A m \in Names : m # n => dir'[m] = dir[m] /\ unwritten'[m] = unwritten[m]
         /\ dir'[n] \in {dir[n], None} \/ (dir'[n] \in Inodes /\ unused(dir'[n]))
         /\ unwritten'[n] # <<>> => dir'[n] # None
         /\ \A i \in Inodes : data'[i] # data[i] =>
              /\ dir'[n] = i
              /\ \/ unused(i)
                 \/ /\ dir[n] = i
                    /\ data'[i] = <<>> \/ \E b \in Bytes : data'[i] = Append(data[i], b)
<1>1. CASE \E i \in Inodes, p \in Proofs : Publish(n, i, p)
  BY <1>1, NoneIsApart DEF Publish, TypeOK
<1>2. CASE \E i \in Inodes, p \in Proofs : Rewrite(n, i, p)
  BY <1>2, NoneIsApart DEF Rewrite, TypeOK
<1>3. CASE Write(n)
  <2>1. unwritten[n] \in Seq(Bytes) /\ unwritten[n] # <<>> /\ dir[n] \in Inodes
    BY <1>3 DEF Write, TypeOK, FileInv
  <2>2. Head(unwritten[n]) \in Bytes
    BY <2>1, HeadTailProperties
  <2>3. /\ UNCHANGED <<dir, requests>> /\ Recorded
        /\ data' = [data EXCEPT ![dir[n]] = Append(data[dir[n]], Head(unwritten[n]))]
        /\ \A m \in Names : m # n => unwritten'[m] = unwritten[m]
    BY <1>3 DEF Write, TypeOK
  <2>4. \A i \in Inodes : data'[i] # data[i] =>
          i = dir[n] /\ data'[i] = Append(data[i], Head(unwritten[n]))
    BY <2>3 DEF TypeOK
  <2> QED
    BY <2>1, <2>2, <2>3, <2>4, NoneIsApart
<1>4. CASE Remove(n)
  BY <1>4 DEF Remove, TypeOK
<1> QED
  BY <1>1, <1>2, <1>3, <1>4 DEF Edit

LEMMA FileStep ==
  ASSUME TypeOK, FileInv, NEW n \in Names, Edit(n)
  PROVE  FileInv'
<1>1. /\ \A m \in Names : m # n => dir'[m] = dir[m] /\ unwritten'[m] = unwritten[m]
      /\ dir'[n] \in {dir[n], None} \/ (dir'[n] \in Inodes /\ unused(dir'[n]))
      /\ unwritten'[n] # <<>> => dir'[n] # None
  BY EditFacts
<1>2. ASSUME NEW m \in Names, NEW k \in Names, dir'[m] # None, dir'[m] = dir'[k]
      PROVE  m = k
  BY <1>1, <1>2 DEF FileInv, unused
<1>3. \A m \in Names : unwritten'[m] # <<>> => dir'[m] # None
  BY <1>1 DEF FileInv
<1> QED
  BY <1>2, <1>3 DEF FileInv

\* What the histories record of an edit.
LEMMA RecordedFacts ==
  ASSUME Recorded, NEW r \in Requests
  PROVE  /\ seen[r] \subseteq seen'[r]
         /\ pc[r] \in {"received", "reading"} /\ asked[r] \in Names =>
              (IF dir'[asked[r]] = None THEN None ELSE data'[dir'[asked[r]]]) \in seen'[r]
         /\ pc[r] \notin {"received", "reading"} => seen'[r] = seen[r]
         /\ disturbed[r] => disturbed'[r]
         /\ file[r] # None /\ ~disturbed'[r] => ~(Len(data'[file[r]]) < Len(proof[r]))
<1>1. seen'[r] = IF pc[r] \in {"received", "reading"} /\ asked[r] \in Names
                 THEN seen[r] \cup {IF dir'[asked[r]] = None THEN None
                                    ELSE data'[dir'[asked[r]]]}
                 ELSE seen[r]
  BY DEF Recorded
<1>2. disturbed'[r] = (disturbed[r] \/ (file[r] # None /\ Len(data'[file[r]]) < Len(proof[r])))
  BY DEF Recorded
<1> QED
  BY <1>1, <1>2

\* What a request has read stays the beginning of its file, unless the file is cut.
LEMMA PrefixStep ==
  ASSUME NEW p \in Seq(Bytes), NEW d \in Seq(Bytes), NEW e \in Seq(Bytes),
         isPrefix(p, d), ~(Len(e) < Len(p)),
         e = d \/ e = <<>> \/ \E b \in Bytes : e = Append(d, b)
  PROVE  isPrefix(p, e)
<1>1. Len(p) \in Nat /\ Len(d) \in Nat /\ Len(e) \in Nat
  BY LenProperties
<1>2. CASE e = <<>>
  BY <1>1, <1>2, EmptySeq DEF isPrefix
<1>3. ASSUME NEW b \in Bytes, e = Append(d, b) PROVE isPrefix(p, e)
  BY <1>1, <1>3, AppendProperties DEF isPrefix
<1> QED
  BY <1>2, <1>3

\* What was there when a request has seen less was there when it has seen more.
LEMMA WasThereStays ==
  ASSUME NEW r, NEW s, wasThere(r, s), seen[r] \subseteq seen'[r]
  PROVE  \A k \in DOMAIN s : \E c \in seen'[r] : c # None /\ k \in DOMAIN c /\ c[k] = s[k]
BY DEF wasThere

LEMMA RequestEdit ==
  ASSUME ReadingInv, TypeOK', NEW n \in Names, Edit(n), NEW r \in Requests
  PROVE  RequestInv(r)'
<1>1. /\ TypeOK /\ FileInv /\ RequestInv(r)
      /\ UNCHANGED <<pc, asked, file, proof>> /\ Recorded
  BY EditFacts DEF ReadingInv, requests
<1>2. pc[r] \in {"received", "reading"} /\ asked[r] \in Names => held(asked[r])' \in seen'[r]
  BY <1>1, RecordedFacts DEF held
<1>3. ASSUME pc[r] = "reading"
      PROVE  /\ asked[r] \in Names
             /\ data'[file[r]] \in seen'[r]
             /\ \A m \in Names : dir'[m] = file[r] => m = asked[r]
             /\ \A k \in DOMAIN proof[r] :
                  \E e \in seen'[r] : e # None /\ k \in DOMAIN e /\ e[k] = proof[r][k]
             /\ ~disturbed'[r] => isPrefix(proof[r], data'[file[r]])
  <2> DEFINE i == file[r]
             c == asked[r]
  <2>1. /\ c \in Names /\ data[i] \in seen[r]
        /\ \A m \in Names : dir[m] = i => m = c
        /\ ~disturbed[r] => isPrefix(proof[r], data[i])
    BY <1>1, <1>3 DEF RequestInv
  <2>2. i \in Inodes /\ i # None /\ ~unused(i)
    BY <1>1, <1>3 DEF TypeOK, unused
  <2>3. \A m \in Names : dir'[m] = i => m = c /\ dir[m] = i
    BY <1>1, <2>1, <2>2, EditFacts
  <2>4. data'[i] # data[i] =>
          /\ dir'[c] = i
          /\ data'[i] = <<>> \/ \E b \in Bytes : data'[i] = Append(data[i], b)
    BY <1>1, <2>1, <2>2, EditFacts
  <2>5. data'[i] \in seen'[r]
    <3>1. CASE data'[i] = data[i]
      BY <1>1, <2>1, <3>1, RecordedFacts
    <3>2. CASE data'[i] # data[i]
      BY <1>1, <1>3, <2>1, <2>2, <2>4, <3>2, RecordedFacts
    <3> QED
      BY <3>1, <3>2
  <2>6. ~disturbed'[r] => isPrefix(proof[r], data'[i])
    <3> SUFFICES ASSUME ~disturbed'[r] PROVE isPrefix(proof[r], data'[i])
      OBVIOUS
    <3>1. /\ proof[r] \in Seq(Bytes) /\ data[i] \in Seq(Bytes) /\ data'[i] \in Seq(Bytes)
      BY <1>1, <2>2 DEF TypeOK
    <3>2. ~disturbed[r] /\ ~(Len(data'[i]) < Len(proof[r]))
      BY <1>1, <2>2, RecordedFacts
    <3> QED
      BY <2>1, <2>4, <3>1, <3>2, PrefixStep
  <2>7. \A k \in DOMAIN proof[r] :
          \E e \in seen'[r] : e # None /\ k \in DOMAIN e /\ e[k] = proof[r][k]
    <3>1. wasThere(r, proof[r]) /\ seen[r] \subseteq seen'[r]
      BY <1>1, <1>3, RecordedFacts DEF RequestInv
    <3> QED
      BY <3>1, WasThereStays
  <2> QED
    BY <2>1, <2>3, <2>5, <2>6, <2>7
<1>4. pc[r] \in {"idle", "received"} => proof[r] = <<>>
  BY <1>1 DEF RequestInv
<1> QED
  BY <1>1, <1>2, <1>3, <1>4 DEF RequestInv, wasThere

LEMMA EditStep == ReadingInv /\ TypeOK' /\ Operator => ReadingInv'
<1> SUFFICES ASSUME ReadingInv, TypeOK', NEW n \in Names, Edit(n) PROVE ReadingInv'
  BY DEF Operator, Edit
<1>1. FileInv'
  BY FileStep DEF ReadingInv
<1>2. UNCHANGED <<pc, asked, answer>> /\ Recorded
  BY EditFacts DEF ReadingInv, requests
<1>3. AnswersOneMoment'
  BY <1>2, RecordedFacts DEF ReadingInv, AnswersOneMoment
<1>4. ServedBytesWereThere'
  BY <1>2, RecordedFacts DEF ReadingInv, ServedBytesWereThere, servable, wasThere
<1> QED
  BY <1>1, <1>3, <1>4, RequestEdit DEF ReadingInv

-----------------------------------------------------------------------------
(* The inductive invariant: requests.                                      *)

\* What a request is owed for the moments it has seen.
LEMMA OneMoment ==
  AnswersOneMoment <=>
    \A r \in Requests :
      pc[r] = "answered" /\ asked[r] \in Names /\ ~disturbed[r] =>
        \E c \in seen[r] : answer[r] = owed(c)
BY DEF AnswersOneMoment

\* A request keeps its part of the invariant while others move.
LEMMA OthersKept ==
  ASSUME NEW r, RequestInv(r), UNCHANGED files,
         pc'[r] = pc[r], asked'[r] = asked[r], file'[r] = file[r],
         proof'[r] = proof[r], seen'[r] = seen[r], disturbed'[r] = disturbed[r]
  PROVE  RequestInv(r)'
BY DEF RequestInv, files, held, wasThere

\* A request moves on, and is not answered yet.
LEMMA MoveKeeps ==
  ASSUME ReadingInv, TypeOK', NEW r \in Requests, UNCHANGED <<files, answer>>,
         \A s \in Requests \ {r} :
           /\ pc'[s] = pc[s] /\ asked'[s] = asked[s] /\ file'[s] = file[s]
           /\ proof'[s] = proof[s] /\ seen'[s] = seen[s] /\ disturbed'[s] = disturbed[s],
         pc'[r] # "answered", RequestInv(r)'
  PROVE  ReadingInv'
<1>1. ASSUME NEW s \in Requests PROVE RequestInv(s)'
  <2>1. CASE s = r
    BY <2>1
  <2>2. CASE s # r
    BY <2>2, OthersKept DEF ReadingInv
  <2> QED
    BY <2>1, <2>2
<1>2. AnswersOneMoment'
  BY DEF ReadingInv, AnswersOneMoment
<1>3. FileInv'
  BY DEF ReadingInv, FileInv, files
<1>4. ServedBytesWereThere'
  BY DEF ReadingInv, ServedBytesWereThere, servable, wasThere
<1> QED
  BY <1>1, <1>2, <1>3, <1>4 DEF ReadingInv

\* A request is answered as one moment of it is owed, or is exempt, and with what it may
\* serve.
LEMMA AnswerKeeps ==
  ASSUME ReadingInv, TypeOK', NEW r \in Requests, NEW a, Answer(r, a), UNCHANGED proof,
         \A s \in Requests \ {r} : disturbed'[s] = disturbed[s],
         asked[r] \in Names /\ ~disturbed'[r] => \E c \in seen[r] : a = owed(c),
         asked[r] \in Names /\ a.status = "200" => servable(r, a.body)
  PROVE  ReadingInv'
<1>1. /\ TypeOK /\ UNCHANGED <<files, asked, seen, proof>>
      /\ pc'[r] = "answered" /\ answer'[r] = a
      /\ \A s \in Requests \ {r} : pc'[s] = pc[s] /\ file'[s] = file[s] /\ answer'[s] = answer[s]
  BY DEF Answer, ReadingInv, TypeOK
<1>2. ASSUME NEW s \in Requests PROVE RequestInv(s)'
  <2>1. CASE s = r
    BY <1>1, <2>1 DEF RequestInv
  <2>2. CASE s # r
    BY <1>1, <2>2, OthersKept DEF ReadingInv
  <2> QED
    BY <2>1, <2>2
<1>3. AnswersOneMoment'
  <2>1. ASSUME NEW s \in Requests, pc'[s] = "answered", asked'[s] \in Names, ~disturbed'[s]
        PROVE  \E c \in seen'[s] : answer'[s] = owed(c)
    <3>1. CASE s = r
      BY <1>1, <2>1, <3>1
    <3>2. CASE s # r
      BY <1>1, <2>1, <3>2, OneMoment DEF ReadingInv
    <3> QED
      BY <3>1, <3>2
  <2> QED
    BY <2>1 DEF AnswersOneMoment
<1>4. FileInv'
  BY <1>1 DEF ReadingInv, FileInv, files
<1>5. ServedBytesWereThere'
  <2>1. ASSUME NEW s \in Requests, pc'[s] = "answered", asked'[s] \in Names,
               answer'[s].status = "200"
        PROVE  servable(s, answer'[s].body)
    <3>1. CASE s = r
      BY <1>1, <2>1, <3>1
    <3>2. CASE s # r
      BY <1>1, <2>1, <3>2 DEF ReadingInv, ServedBytesWereThere
    <3> QED
      BY <3>1, <3>2
  <2> QED
    BY <1>1, <2>1 DEF ServedBytesWereThere, servable, wasThere
<1> QED
  BY <1>2, <1>3, <1>4, <1>5 DEF ReadingInv

LEMMA ArriveStep ==
  ASSUME ReadingInv, TypeOK', NEW r \in Requests, NEW kind \in Names \cup OtherKinds,
         Arrive(r, kind)
  PROVE  ReadingInv'
<1>1. /\ TypeOK /\ UNCHANGED <<files, file, proof, answer, disturbed>>
      /\ pc'[r] = "received" /\ asked'[r] = kind
      /\ seen'[r] = IF kind \in Names THEN {held(kind)} ELSE {}
      /\ \A s \in Requests \ {r} : pc'[s] = pc[s] /\ asked'[s] = asked[s] /\ seen'[s] = seen[s]
  BY DEF Arrive, ReadingInv, TypeOK
<1>2. proof[r] = <<>>
  BY DEF Arrive, ReadingInv, RequestInv
<1>3. RequestInv(r)'
  BY <1>1, <1>2 DEF RequestInv, held, files
<1> QED
  BY <1>1, <1>3, MoveKeeps

\* A file is opened under the one name it has.
LEMMA OpenStep ==
  ASSUME ReadingInv, TypeOK', NEW r \in Requests, Open(r)
  PROVE  ReadingInv'
<1>1. /\ TypeOK /\ FileInv /\ RequestInv(r)
      /\ pc[r] = "received" /\ asked[r] \in Names /\ dir[asked[r]] # None
      /\ UNCHANGED <<files, asked, proof, answer, seen, disturbed>>
      /\ pc'[r] = "reading" /\ file'[r] = dir[asked[r]]
      /\ \A s \in Requests \ {r} : pc'[s] = pc[s] /\ file'[s] = file[s]
  BY DEF Open, ReadingInv, TypeOK
<1>2. /\ proof[r] = <<>> /\ data[dir[asked[r]]] \in seen[r]
      /\ \A n \in Names : dir[n] = dir[asked[r]] => n = asked[r]
  BY <1>1 DEF RequestInv, FileInv, held
<1>3. isPrefix(<<>>, data[dir[asked[r]]])
  <2>1. dir[asked[r]] \in Inodes
    BY <1>1 DEF TypeOK
  <2>2. Len(data[dir[asked[r]]]) \in Nat
    BY <1>1, <2>1, LenProperties DEF TypeOK
  <2> QED
    BY <2>2, EmptySeq DEF isPrefix
<1>4. RequestInv(r)'
  BY <1>1, <1>2, <1>3, EmptySeq DEF RequestInv, files, held, wasThere
<1> QED
  BY <1>1, <1>4, MoveKeeps

\* What is read next continues what was read.
LEMMA ReadKeeps ==
  ASSUME ReadingInv, TypeOK', NEW r \in Requests, Read(r)
  PROVE  ReadingInv'
<1>1. /\ TypeOK /\ RequestInv(r) /\ pc[r] = "reading"
      /\ UNCHANGED <<files, pc, asked, file, answer, seen, disturbed>>
  BY DEF Read, ReadingInv
<1>2. PICK q \in Seq(Bytes) :
        /\ proof' = [proof EXCEPT ![r] = q]
        /\ Len(q) <= Len(data[file[r]]) /\ Len(proof[r]) < Len(q)
        /\ \A j \in 1 .. Len(proof[r]) : q[j] = proof[r][j]
        /\ \A j \in Len(proof[r]) + 1 .. Len(q) : q[j] = data[file[r]][j]
  BY <1>1, ReadStep
<1>3. proof'[r] = q /\ \A s \in Requests \ {r} : proof'[s] = proof[s]
  BY <1>1, <1>2 DEF TypeOK
<1>4. isPrefix(proof[r], data[file[r]]) => isPrefix(q, data[file[r]])
  <2>1. Len(q) \in Nat /\ Len(proof[r]) \in Nat
    BY <1>1, <1>2, LenProperties DEF TypeOK
  <2> QED
    BY <1>2, <2>1 DEF isPrefix
<1>5. wasThere(r, q)
  <2> DEFINE p == proof[r]
             d == data[file[r]]
  <2>1. /\ p \in Seq(Bytes) /\ d \in Seq(Bytes) /\ d \in seen[r] /\ d # None
        /\ wasThere(r, p)
    BY <1>1, NoneIsApart DEF TypeOK, RequestInv
  <2>2. /\ DOMAIN p = 1 .. Len(p) /\ DOMAIN d = 1 .. Len(d) /\ DOMAIN q = 1 .. Len(q)
        /\ Len(p) \in Nat /\ Len(d) \in Nat /\ Len(q) \in Nat
    BY <2>1, LenProperties
  <2>3. ASSUME NEW k \in DOMAIN q
        PROVE  \E c \in seen[r] : c # None /\ k \in DOMAIN c /\ c[k] = q[k]
    <3>1. CASE k <= Len(p)
      BY <1>2, <2>1, <2>2, <3>1 DEF wasThere
    <3>2. CASE ~(k <= Len(p))
      BY <1>2, <2>1, <2>2, <3>2
    <3> QED
      BY <3>1, <3>2
  <2> QED
    BY <2>3 DEF wasThere
<1>6. RequestInv(r)'
  BY <1>1, <1>3, <1>4, <1>5 DEF RequestInv, files, held, wasThere
<1> QED
  BY <1>1, <1>3, <1>6, MoveKeeps

\* A beginning that is as long as the text is the text; one of the length of the limit
\* is too long to be a proof, as the text is.
LEMMA FinishOwed ==
  ASSUME NEW p \in Seq(Bytes), NEW d \in Seq(Bytes), isPrefix(p, d),
         Len(p) >= least(readLimit, Len(d))
  PROVE  owed(d) = IF validProof(p) THEN Reply("200", p) ELSE Reply("500", <<>>)
<1>1. Len(p) \in Nat /\ Len(d) \in Nat /\ Len(p) <= Len(d)
  BY LenProperties DEF isPrefix
<1>2. CASE Len(p) = Len(d)
  <2>1. p = d
    BY <1>1, <1>2, SeqEqual DEF isPrefix
  <2> QED
    BY <2>1, OwedCases
<1>3. CASE Len(p) # Len(d)
  <2>1. Len(p) >= MaxBytes + 1 /\ Len(d) > MaxBytes /\ Len(p) > MaxBytes
    <3>1. least(readLimit, Len(d)) \in {readLimit, Len(d)}
      BY <1>1, Bounds, LeastBounds
    <3> QED
      BY <1>1, <1>3, <3>1, Bounds
  <2>2. ~validProof(p) /\ ~validProof(d)
    BY <2>1, LongIsInvalid
  <2> QED
    BY <2>2, OwedCases
<1> QED
  BY <1>2, <1>3

LEMMA ServeStep ==
  ASSUME ReadingInv, TypeOK', NEW r \in Requests, ServeHTTP(r)
  PROVE  ReadingInv'
<1>1. TypeOK /\ RequestInv(r)
  BY DEF ReadingInv
<1>2. CASE Decline(r)
  <2>1. asked[r] \notin Names
    BY <1>2, KindsAssumption DEF Decline
  <2> QED
    BY <1>2, <2>1, AnswerKeeps DEF Decline
<1>3. CASE Missing(r)
  <2>1. None \in seen[r] /\ owed(None) = Reply("404", <<>>)
    BY <1>1, <1>3, OwedCases DEF Missing, RequestInv, held
  <2>2. Reply("404", <<>>).status # "200"
    BY DEF Reply
  <2> QED
    BY <1>3, <2>1, <2>2, AnswerKeeps DEF Missing
<1>4. CASE Open(r)
  BY <1>4, OpenStep
<1>5. CASE Fail(r)
  <2>1. disturbed'[r] /\ \A s \in Requests \ {r} : disturbed'[s] = disturbed[s]
    BY <1>1, <1>5 DEF Fail, TypeOK
  <2>2. Reply("500", <<>>).status # "200"
    BY DEF Reply
  <2> QED
    BY <1>5, <2>1, <2>2, AnswerKeeps DEF Fail
<1>6. CASE Read(r)
  BY <1>6, ReadKeeps
<1>7. CASE Finish(r)
  <2> DEFINE d == data[file[r]]
             a == IF validProof(proof[r]) THEN Reply("200", proof[r]) ELSE Reply("500", <<>>)
  <2>1. /\ pc[r] = "reading" /\ Len(proof[r]) >= least(readLimit, Len(d))
        /\ Answer(r, a) /\ UNCHANGED <<proof, disturbed>>
    BY <1>7 DEF Finish
  <2>2. proof[r] \in Seq(Bytes) /\ d \in Seq(Bytes) /\ d \in seen[r]
    BY <1>1, <2>1 DEF TypeOK, RequestInv
  <2>3. ~disturbed[r] => isPrefix(proof[r], d)
    BY <1>1, <2>1 DEF RequestInv
  <2> HIDE DEF d
  <2>4. ~disturbed[r] => a = owed(d)
    BY <2>1, <2>2, <2>3, FinishOwed
  <2>5. a.status = "200" => servable(r, a.body)
    BY <1>1, <2>1, <2>2, ValidIsOwed DEF Reply, RequestInv, servable
  <2> HIDE DEF a
  <2> QED
    BY <2>1, <2>2, <2>4, <2>5, AnswerKeeps
<1> QED
  BY <1>2, <1>3, <1>4, <1>5, <1>6, <1>7 DEF ServeHTTP

LEMMA ReadingInit == Init => ReadingInv
<1> SUFFICES ASSUME Init PROVE ReadingInv
  OBVIOUS
<1>1. /\ FileInv /\ AnswersOneMoment /\ ServedBytesWereThere
      /\ \A r \in Requests : RequestInv(r)
  BY DEF Init, FileInv, AnswersOneMoment, ServedBytesWereThere, RequestInv
<1> QED
  BY <1>1, TypeInit DEF ReadingInv

LEMMA ReadingStep == ReadingInv /\ [Next]_vars => ReadingInv'
<1> SUFFICES ASSUME ReadingInv, [Next]_vars PROVE ReadingInv'
  OBVIOUS
<1>1. TypeOK'
  BY TypeStep DEF ReadingInv
<1>2. CASE Operator
  BY <1>1, <1>2, EditStep
<1>3. ASSUME NEW r \in Requests, ServeHTTP(r) PROVE ReadingInv'
  BY <1>1, <1>3, ServeStep
<1>4. ASSUME NEW r \in Requests, NEW kind \in Names \cup OtherKinds, Arrive(r, kind)
      PROVE  ReadingInv'
  BY <1>1, <1>4, ArriveStep
<1>5. CASE UNCHANGED vars
  BY <1>5 DEF vars, files, requests, ReadingInv, TypeOK, FileInv, RequestInv, held,
              AnswersOneMoment, ServedBytesWereThere, servable, wasThere
<1> QED
  BY <1>2, <1>3, <1>4, <1>5 DEF Next

\* Every request that is reading reads what its name held at some moment since the
\* request arrived, however often the operator renames, removes or rewrites files.
THEOREM ReadingInvariant == Spec => []ReadingInv
<1> QED
  BY ReadingInit, ReadingStep, PTL DEF Spec

\* The handler answers as if it had looked at the file at one moment of the request,
\* unless that file was cut under it or the file system failed.
THEOREM AnswersAreOfOneMoment == Spec => []AnswersOneMoment
<1>1. ReadingInv => AnswersOneMoment
  BY DEF ReadingInv
<1> QED
  BY <1>1, ReadingInvariant, PTL

\* Whatever the operator does to a file between two reads, a proof that is served is well
\* formed and no byte of it is from elsewhere.
THEOREM ServedBytes == Spec => []ServedBytesWereThere
<1>1. ReadingInv => ServedBytesWereThere
  BY DEF ReadingInv
<1> QED
  BY <1>1, ReadingInvariant, PTL
=============================================================================
