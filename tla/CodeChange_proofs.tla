------------------------- MODULE CodeChange_proofs -------------------------
(***************************************************************************)
(* One issue from its files to its pull request, for every repository and  *)
(* configuration, every reply of the agent, and any number of files,       *)
(* goroutines, pushes, faults and apply requests.                          *)
(*                                                                         *)
(* None of the properties is inductive.  The invariant Inv has two parts   *)
(* that do not read each other's variables:                                *)
(*                                                                         *)
(*   ReadInv   what a read knows while it runs: the walk has every wanted  *)
(*             file that has not changed, or one of the directories that   *)
(*             wait leads to it; the selection has all of them, or the     *)
(*             limit many; each file of the pool is fetched, waits in the  *)
(*             channel or is with a goroutine, unless an error was stored. *)
(*   ApplyInv  what every apply request knows at each of its calls of what *)
(*             the branch shows: the operations before its own are there,  *)
(*             a SHA it holds is that of the file unless another request   *)
(*             has carried the operation out, and a refusal has a reason.  *)
(*                                                                         *)
(* They meet in Analyze, where the files that were read become those the   *)
(* reply is checked against: that none of them is without content is the   *)
(* fact about the read that ApplyInv needs.                                *)
(*                                                                         *)
(* The loops of the code are folds; what each of them computes is shown by *)
(* an instance of SequenceFolds with what the loop keeps.                  *)
(***************************************************************************)
EXTENDS CodeChange, SequenceTheorems, FiniteSetTheorems, TLAPS

(* The repository: no file is newer than the branch.                       *)
RepositoryOK == head \in 1..MaxHead /\ faults \in 0..MaxFaults /\ repo \in [Files -> 0..head]

-----------------------------------------------------------------------------

(* t is what a loop keeps of s: the elements at these positions, in some   *)
(* order, each once.                                                       *)
Places(pos, t, s, at) ==
    /\ pos \in [1..Len(t) -> at]
    /\ \A k \in 1..Len(t) : t[k] = s[pos[k]]
    /\ \A k, l \in 1..Len(t) : pos[k] = pos[l] => k = l
    /\ \A i \in at : \E k \in 1..Len(t) : pos[k] = i

(* After its first m elements; all of them, if all of them are accepted.   *)
Kept(t, m, c) ==
    /\ t \in Seq(c[1])
    /\ \E pos : Places(pos, t, c[2], c[3] \cap (1..m))
    /\ 1..m \subseteq c[3] => Len(t) = m /\ \A k \in 1..m : t[k] = c[2][k]

Joined == INSTANCE SequenceFolds WITH op <- Join, Inv <- Kept

(* Keep is the fold that the instance is about.                            *)
LEMMA KeepIsFold ==
  ASSUME NEW s, NEW at
  PROVE  Keep(s, at) = Joined!Fold(<<>>, [i \in 1..Len(s) |-> IF i \in at THEN <<s[i]>> ELSE <<>>])
  BY Zenon DEF Keep, Joined!Fold, FoldLeft, Joined!FoldLeft, MapThenFoldSet, Joined!MapThenFoldSet, Max, Joined!Max

(* One more element is accepted.                                           *)
LEMMA PlacesNext ==
  ASSUME NEW S, NEW t \in Seq(S), NEW s, NEW at, NEW pos, Places(pos, t, s, at), NEW i, i \notin at, s[i] \in S
  PROVE  \E q : Places(q, Append(t, s[i]), s, at \cup {i})
<1> DEFINE n == Len(t)
           u == Append(t, s[i])
           q == [k \in 1..n+1 |-> IF k = n + 1 THEN i ELSE pos[k]]
<1>1. n \in Nat /\ 1..n+1 = (1..n) \cup {n+1} /\ n + 1 \notin 1..n
  OBVIOUS
<1>2. Len(u) = n + 1 /\ u[n+1] = s[i] /\ \A k \in 1..n : u[k] = t[k]
  BY AppendProperties
<1>3. pos \in [1..n -> at] /\ (\A k \in 1..n : t[k] = s[pos[k]])
      /\ (\A k, l \in 1..n : pos[k] = pos[l] => k = l) /\ \A j \in at : \E k \in 1..n : pos[k] = j
  BY DEF Places
<1>4. q[n+1] = i /\ \A k \in 1..n : q[k] = pos[k] /\ pos[k] # i
  BY <1>1, <1>3
<1>5. q \in [1..n+1 -> at \cup {i}]
  BY <1>1, <1>3
<1> HIDE DEF u, q, n
<1>6. \A k \in 1..n+1 : u[k] = s[q[k]]
  BY <1>1, <1>2, <1>3, <1>4
<1>7. \A k, l \in 1..n+1 : q[k] = q[l] => k = l
  BY <1>1, <1>3, <1>4
<1>8. \A j \in at \cup {i} : \E k \in 1..n+1 : q[k] = j
  BY <1>1, <1>3, <1>4
<1>9. Places(q, u, s, at \cup {i})
  BY <1>2, <1>5, <1>6, <1>7, <1>8 DEF Places
<1> QED  BY <1>9 DEF u

(* One more element is looked at.                                          *)
LEMMA KeptNext ==
  ASSUME NEW S, NEW s \in Seq(S), NEW at, NEW m \in 0..Len(s)-1, NEW t, Kept(t, m, <<S, s, at>>)
  PROVE  Kept(Join(t, IF m + 1 \in at THEN <<s[m+1]>> ELSE <<>>), m + 1, <<S, s, at>>)
<1>0. m + 1 \in 1..Len(s) /\ 1..m+1 = (1..m) \cup {m+1} /\ m + 1 \notin 1..m
  OBVIOUS
<1>1. t \in Seq(S) /\ Len(t) \in Nat
  BY DEF Kept
<1>2. PICK pos : Places(pos, t, s, at \cap (1..m))
  BY DEF Kept
<1>3. 1..m \subseteq at => Len(t) = m /\ \A k \in 1..m : t[k] = s[k]
  BY DEF Kept
<1>4. CASE m + 1 \notin at
  <2>1. Join(t, <<>>) = t
    BY <1>1, ConcatEmptySeq DEF Join
  <2>2. at \cap (1..m+1) = at \cap (1..m) /\ ~(1..m+1 \subseteq at)
    BY <1>0, <1>4
  <2>3. Kept(t, m + 1, <<S, s, at>>)
    BY <1>1, <1>2, <2>2 DEF Kept
  <2> QED  BY <1>4, <2>1, <2>3
<1>5. CASE m + 1 \in at
  <2> DEFINE u == Append(t, s[m+1])
  <2>1. s[m+1] \in S
    BY <1>0, ElementOfSeq
  <2>2. u \in Seq(S) /\ Len(u) = Len(t) + 1 /\ u[Len(t)+1] = s[m+1] /\ \A k \in 1..Len(t) : u[k] = t[k]
    BY <1>1, <2>1, AppendProperties
  <2>3. u = Join(t, <<s[m+1]>>)
    BY <1>1, <2>1, AppendIsConcat DEF Join
  <2>4. m + 1 \notin at \cap (1..m) /\ at \cap (1..m+1) = (at \cap (1..m)) \cup {m+1}
    BY <1>0, <1>5
  <2>5. \E q : Places(q, u, s, (at \cap (1..m)) \cup {m+1})
    BY <1>1, <1>2, <2>1, <2>4, PlacesNext
  <2> HIDE DEF u
  <2>6. 1..m+1 \subseteq at => Len(u) = m + 1 /\ \A k \in 1..m+1 : u[k] = s[k]
    BY <1>0, <1>3, <2>2
  <2>7. Kept(u, m + 1, <<S, s, at>>)
    BY <2>2, <2>4, <2>5, <2>6 DEF Kept
  <2> QED  BY <1>5, <2>3, <2>7
<1> QED  BY <1>4, <1>5

(* So a whole loop keeps what it should.                                   *)
LEMMA KeepKeeps ==
  ASSUME NEW S, NEW s \in Seq(S), NEW at
  PROVE  Kept(Keep(s, at), Len(s), <<S, s, at>>)
<1> DEFINE parts == [i \in 1..Len(s) |-> IF i \in at THEN <<s[i]>> ELSE <<>>]
           c == <<S, s, at>>
           n == Len(s)
<1>1. Kept(<<>>, 0, c)
  <2>1. <<>> \in Seq(S) /\ Len(<<>>) = 0 /\ 1..0 = {}
    OBVIOUS
  <2>2. <<>> \in [1..0 -> at \cap (1..0)]
    OBVIOUS
  <2>3. Places(<<>>, <<>>, s, at \cap (1..0))
    BY <2>1, <2>2 DEF Places
  <2> QED  BY <2>1, <2>3 DEF Kept
<1>2. \A m \in 0..n-1 : \A t : Kept(t, m, c) => Kept(Join(t, parts[m+1]), m+1, c)
  BY KeptNext
<1>3. DOMAIN parts = 1..n /\ n \in Nat
  OBVIOUS
<1> HIDE DEF parts, c, n
<1>4. Kept(Joined!Fold(<<>>, parts), n, c)
  BY <1>1, <1>2, <1>3, Joined!FoldInvariant
<1>5. Keep(s, at) = Joined!Fold(<<>>, parts)
  BY KeepIsFold DEF parts
<1> QED  BY <1>4, <1>5 DEF n, c

(* What a loop over s keeps are the elements at the positions it accepts.  *)
LEMMA KeepElements ==
  ASSUME NEW S, NEW s \in Seq(S), NEW at \in SUBSET (1..Len(s))
  PROVE  Keep(s, at) \in Seq(S) /\ \E pos : Places(pos, Keep(s, at), s, at)
<1>1. Kept(Keep(s, at), Len(s), <<S, s, at>>)
  BY KeepKeeps
<1>2. at \cap (1..Len(s)) = at
  OBVIOUS
<1> QED  BY <1>1, <1>2 DEF Kept

(* A loop that accepts all of s returns s.                                 *)
LEMMA KeepAll ==
  ASSUME NEW S, NEW s \in Seq(S) PROVE Keep(s, 1..Len(s)) = s
<1> DEFINE t == Keep(s, 1..Len(s))
<1>1. Kept(t, Len(s), <<S, s, 1..Len(s)>>)
  BY KeepKeeps
<1> HIDE DEF t
<1>2. t \in Seq(S) /\ Len(t) = Len(s) /\ \A k \in 1..Len(s) : t[k] = s[k]
  BY <1>1 DEF Kept
<1>3. t = s
  BY <1>2, SeqEqual
<1> QED  BY <1>3 DEF t

-----------------------------------------------------------------------------
(* The operations that are accepted *)

OperationAt(paths) ==
    [path : paths, action : STRING, content : DOMAIN Text, diff : STRING, explained : BOOLEAN]
NamedBy(reply) == {NormalizePlanPath(reply[i].path) : i \in 1..Len(reply)}

(* Operations are merged from those of the reply, on the paths it names.   *)
MergedOf(merged, m, reply) == merged \in Seq(OperationAt(NamedBy(reply)))

Merged == INSTANCE SequenceFolds WITH op <- MergeNext, Inv <- MergedOf

(* NormalizeGeneratedFiles is a fold.                                      *)
LEMMA MergeIsFold ==
  ASSUME NEW reply PROVE NormalizeGeneratedFiles(reply) = Merged!Fold(<<>>, reply)
  BY Zenon DEF NormalizeGeneratedFiles, Merged!Fold, FoldLeft, Merged!FoldLeft, MapThenFoldSet,
               Merged!MapThenFoldSet, Max, Merged!Max

(* Two operations on one path merge into one on that path.                 *)
LEMMA MergeType ==
  ASSUME NEW paths, NEW previous \in OperationAt(paths), NEW file \in OperationAt(paths)
  PROVE  Merge(previous, file) \in OperationAt(paths)
  BY DEF Merge, OperationAt

(* The next operation of the reply is merged, or added.                    *)
LEMMA MergeNextType ==
  ASSUME NEW paths, NEW merged \in Seq(OperationAt(paths)),
         NEW raw \in OperationAt(Seq(STRING)), NormalizePlanPath(raw.path) \in paths
  PROVE  MergeNext(merged, raw) \in Seq(OperationAt(paths))
<1> DEFINE file == [raw EXCEPT !.path = NormalizePlanPath(@)]
           both == [i \in 1..Len(merged) |-> IF merged[i].path = file.path THEN Merge(merged[i], file) ELSE merged[i]]
<1>1. file \in OperationAt(paths)
  BY DEF OperationAt
<1>2. MergeNext(merged, raw) = both \/ MergeNext(merged, raw) = Append(merged, file)
  BY Zenon DEF MergeNext
<1> HIDE DEF file
<1>3. \A i \in 1..Len(merged) : merged[i] \in OperationAt(paths)
  OBVIOUS
<1>4. both \in Seq(OperationAt(paths))
  <2>1. \A i \in 1..Len(merged) : both[i] \in OperationAt(paths)
    BY <1>1, <1>3, MergeType
  <2>2. both = [i \in 1..Len(merged) |-> both[i]]
    OBVIOUS
  <2> HIDE DEF both
  <2> QED  BY <2>1, <2>2, IsASeq
<1>5. Append(merged, file) \in Seq(OperationAt(paths))
  BY <1>1
<1> QED  BY <1>2, <1>4, <1>5

(* So all operations name paths that the reply names.                      *)
LEMMA MergedTypes ==
  ASSUME NEW reply \in Seq(OperationAt(Seq(STRING)))
  PROVE  NormalizeGeneratedFiles(reply) \in Seq(OperationAt(NamedBy(reply)))
<1> DEFINE n == Len(reply)
<1>1. MergedOf(<<>>, 0, reply)
  BY DEF MergedOf
<1>2. \A m \in 0..n-1 : \A v : MergedOf(v, m, reply) => MergedOf(MergeNext(v, reply[m+1]), m+1, reply)
  <2> SUFFICES ASSUME NEW m \in 0..n-1, NEW v, MergedOf(v, m, reply)
               PROVE  MergedOf(MergeNext(v, reply[m+1]), m+1, reply)
    OBVIOUS
  <2>1. m + 1 \in 1..Len(reply)
    OBVIOUS
  <2>2. reply[m+1] \in OperationAt(Seq(STRING)) /\ NormalizePlanPath(reply[m+1].path) \in NamedBy(reply)
    BY <2>1 DEF NamedBy
  <2> QED  BY <2>2, MergeNextType DEF MergedOf
<1>3. DOMAIN reply = 1..n /\ n \in Nat
  OBVIOUS
<1> HIDE DEF n
<1>4. MergedOf(Merged!Fold(<<>>, reply), n, reply)
  BY <1>1, <1>2, <1>3, Merged!FoldInvariant
<1> QED  BY <1>4, MergeIsFold DEF MergedOf

(* What the checks of executeCodeGenerationTask make sure of.              *)
Acceptable(ops, files) ==
    /\ ops \in Seq(OperationAt(Files))
    /\ \A i \in 1..Len(ops) : AllowedAction(ops[i], files) /\ ~IsNoop(ops[i], files)
    /\ \A i, j \in 1..Len(ops) : ops[i].path = ops[j].path => i = j

(* Whatever the agent replies, what is stored is acceptable: AcceptedFiles *)
(* ends with ValidateGeneratedFiles, or stores nothing.                    *)
LEMMA AcceptedAreAcceptable ==
  ASSUME NEW reply \in Replies, NEW files
  PROVE  Acceptable(AcceptedFiles(reply, files), files)
<1> DEFINE O == OperationAt(NamedBy(reply))
           merged == NormalizeGeneratedFiles(reply)
           effective == DropNoopGeneratedFiles(merged, files)
           whole == DropUnsafePartialModifyFiles(effective, files)
<1>1. reply \in Seq(OperationAt(Seq(STRING)))
  BY RepliesAssumption DEF OperationAt
<1>2. \A p \in NamedBy(reply) : SafePlanPath(p) => p \in Files
  BY RepliesAssumption DEF NamedBy
<1>3. merged \in Seq(O)
  BY <1>1, MergedTypes
<1>4. effective \in Seq(O) /\ \A i \in 1..Len(effective) : ~IsNoop(effective[i], files)
  <2> DEFINE at == {i \in 1..Len(merged) : ~IsNoop(merged[i], files)}
  <2>1. effective = Keep(merged, at)
    BY Zenon DEF DropNoopGeneratedFiles
  <2>2. at \in SUBSET (1..Len(merged)) /\ \A i \in at : ~IsNoop(merged[i], files)
    OBVIOUS
  <2> HIDE DEF merged, effective, O, at
  <2>3. effective \in Seq(O) /\ \E pos : Places(pos, effective, merged, at)
    BY <1>3, <2>1, <2>2, KeepElements
  <2>4. PICK pos : Places(pos, effective, merged, at)
    BY <2>3
  <2>5. \A k \in 1..Len(effective) : pos[k] \in at /\ effective[k] = merged[pos[k]]
    BY <2>4 DEF Places
  <2> QED  BY <2>2, <2>3, <2>5
<1> HIDE DEF effective
<1>5. whole \in Seq(O) /\ \A i \in 1..Len(whole) : ~IsNoop(whole[i], files)
  <2> DEFINE at == {i \in 1..Len(effective) : ~IsUnsafePartial(effective[i], files)}
  <2>1. whole = Keep(effective, at)
    BY Zenon DEF DropUnsafePartialModifyFiles
  <2>2. at \in SUBSET (1..Len(effective))
    OBVIOUS
  <2> HIDE DEF merged, whole, O, at
  <2>3. whole \in Seq(O) /\ \E pos : Places(pos, whole, effective, at)
    BY <1>4, <2>1, <2>2, KeepElements
  <2>4. PICK pos : Places(pos, whole, effective, at)
    BY <2>3
  <2>5. \A k \in 1..Len(whole) : pos[k] \in 1..Len(effective) /\ whole[k] = effective[pos[k]]
    BY <2>2, <2>4 DEF Places
  <2> QED  BY <1>4, <2>3, <2>5
<1>6. AcceptedFiles(reply, files) = IF ValidateGeneratedFiles(whole, files) THEN whole ELSE <<>>
  BY Zenon DEF AcceptedFiles, effective
<1> HIDE DEF merged, whole
<1>7. CASE ValidateGeneratedFiles(whole, files)
  <2>1. \A i \in 1..Len(whole) : /\ SafePlanPath(whole[i].path)
                                 /\ \A j \in 1..i-1 : whole[j].path # whole[i].path
                                 /\ AllowedAction(whole[i], files)
    BY <1>7 DEF ValidateGeneratedFiles
  <2>2. \A i \in 1..Len(whole) : whole[i] \in O
    BY <1>5, ElementOfSeq
  <2>3. \A i \in 1..Len(whole) : whole[i] \in OperationAt(Files)
    BY <1>2, <2>1, <2>2 DEF OperationAt
  <2>4. whole \in Seq(OperationAt(Files))
    <3>1. whole = [i \in 1..Len(whole) |-> whole[i]] /\ Len(whole) \in Nat
      BY <1>5
    <3> QED  BY <2>3, <3>1, IsASeq
  <2>5. \A i, j \in 1..Len(whole) : whole[i].path = whole[j].path => i = j
    <3>1. Len(whole) \in Nat
      BY <1>5
    <3> SUFFICES ASSUME NEW i \in 1..Len(whole), NEW j \in 1..Len(whole), whole[i].path = whole[j].path, i # j
                 PROVE  FALSE
      OBVIOUS
    <3>2. i \in 1..j-1 \/ j \in 1..i-1
      BY <3>1
    <3> QED  BY <2>1, <3>2
  <2> QED  BY <1>5, <1>6, <1>7, <2>1, <2>4, <2>5 DEF Acceptable
<1>8. CASE ~ValidateGeneratedFiles(whole, files)
  <2>1. AcceptedFiles(reply, files) = <<>>
    BY <1>6, <1>8
  <2>2. <<>> \in Seq(OperationAt(Files)) /\ Len(<<>>) = 0 /\ 1..0 = {}
    OBVIOUS
  <2> QED  BY <2>1, <2>2 DEF Acceptable
<1> QED  BY <1>7, <1>8

(* Nothing of what is accepted is dropped when it is applied.              *)
LEMMA NothingDropped ==
  ASSUME NEW ops, NEW files, Acceptable(ops, files)
  PROVE  DropNoopGeneratedFiles(ops, files) = ops
<1>1. {i \in 1..Len(ops) : ~IsNoop(ops[i], files)} = 1..Len(ops)
  BY DEF Acceptable
<1>2. DropNoopGeneratedFiles(ops, files) = Keep(ops, 1..Len(ops))
  BY <1>1 DEF DropNoopGeneratedFiles
<1>3. ops \in Seq(OperationAt(Files))
  BY DEF Acceptable
<1> QED  BY <1>2, <1>3, KeepAll

-----------------------------------------------------------------------------
(* The files of the request *)

(* The last of some positions is one of them.                              *)
LEMMA MaxOfPositions ==
  ASSUME NEW m \in Nat, NEW t \in SUBSET (1..m), t # {} PROVE Max(t) \in 1..m
<1>1. Max(t) = Joined!Max(t)
  BY Zenon DEF Max, Joined!Max
<1>2. Joined!Max(t) \in t
  BY Joined!MaxIn
<1> QED  BY <1>1, <1>2

(* Every content that was read is the one of a file that was there.        *)
FilesRead(files) == Len(files) \in Nat /\ \A i \in 1..Len(files) : files[i].content # Absent

(* contentByPath finds the content of a file that was read, and nothing    *)
(* for another path.                                                       *)
LEMMA ContentOfExisting ==
  ASSUME NEW path, NEW files, FilesRead(files)
  PROVE  /\ Exists(path, files) => ContentByPath(path, files) # Absent
         /\ ~Exists(path, files) => ContentByPath(path, files) = Absent
<1> DEFINE named == {i \in 1..Len(files) : NormalizePlanPath(files[i].path) = path}
<1>1. Exists(path, files) <=> named # {}
  BY DEF Exists
<1>2. ContentByPath(path, files) = IF named = {} THEN Empty ELSE files[Max(named)].content
  BY Zenon DEF ContentByPath
<1>3. named \in SUBSET (1..Len(files))
  OBVIOUS
<1> HIDE DEF named
<1>4. named # {} => Max(named) \in 1..Len(files)
  BY <1>3, MaxOfPositions DEF FilesRead
<1> QED  BY <1>1, <1>2, <1>4 DEF FilesRead, Empty, Absent

(* An accepted operation is possible on the files that were read, and      *)
(* changes the file it names.                                              *)
LEMMA AcceptedIsEffective ==
  ASSUME NEW files, FilesRead(files), NEW op \in OperationAt(Files),
         AllowedAction(op, files), ~IsNoop(op, files),
         NEW contents, contents[op.path] = ContentByPath(op.path, files)
  PROVE  Effective(contents, op)
<1>1. op.path \in Files /\ op.content \in DOMAIN Text
  BY DEF OperationAt
<1>2. CASE op.action = "create"
  <2>1. contents[op.path] = Absent /\ Text[op.content].lines # 0
    BY <1>2, ContentOfExisting DEF AllowedAction, BlankText
  <2>2. Text[op.content].plain # Text[Absent].plain
    BY <1>1, <2>1, TextAssumption DEF Absent, Empty
  <2> QED  BY <1>1, <1>2, <2>1, <2>2 DEF Effective
<1>3. CASE op.action = "modify"
  BY <1>1, <1>3, ContentOfExisting DEF AllowedAction, IsNoop, Effective
<1>4. CASE op.action = "delete"
  BY <1>1, <1>4, ContentOfExisting DEF AllowedAction, Effective
<1> QED  BY <1>2, <1>3, <1>4 DEF AllowedAction

(* Operations on distinct paths leave alone what they do not name, and     *)
(* leave in each file they name what they say.                             *)
WrittenOf(content, m, c) ==
    /\ DOMAIN content = DOMAIN c[1] /\ content = [f \in DOMAIN content |-> content[f]]
    /\ \A f \in DOMAIN content : (\A k \in 1..m : c[2][k].path # f) => content[f] = c[1][f]
    /\ \A k \in 1..m : content[c[2][k].path] = Target(c[2][k])

Writes == INSTANCE SequenceFolds WITH op <- Written, Inv <- WrittenOf

(* The commit is a fold.                                                   *)
LEMMA WritesAreFold ==
  ASSUME NEW base, NEW ops PROVE FoldLeft(Written, base, ops) = Writes!Fold(base, ops)
  BY Zenon DEF Writes!Fold, FoldLeft, Writes!FoldLeft, MapThenFoldSet, Writes!MapThenFoldSet, Max, Writes!Max

Distinct(ops) == \A i, j \in 1..Len(ops) : ops[i].path = ops[j].path => i = j

(* After a commit every file named by an operation is as that operation    *)
(* leaves it, and every other file as it was.                              *)
LEMMA WrittenPointwise ==
  ASSUME NEW D, NEW R, NEW base \in [D -> R], NEW ops, Len(ops) \in Nat, DOMAIN ops = 1..Len(ops), Distinct(ops),
         \A i \in 1..Len(ops) : ops[i].path \in D
  PROVE  WrittenOf(FoldLeft(Written, base, ops), Len(ops), <<base, ops>>)
<1> DEFINE n == Len(ops)
           c == <<base, ops>>
<1>1. WrittenOf(base, 0, c)
  BY DEF WrittenOf
<1>1a. DOMAIN base = D
  OBVIOUS
<1>2. \A m \in 0..n-1 : \A v : WrittenOf(v, m, c) => WrittenOf(Written(v, ops[m+1]), m+1, c)
  <2> SUFFICES ASSUME NEW m \in 0..n-1, NEW v, WrittenOf(v, m, c)
               PROVE  WrittenOf(Written(v, ops[m+1]), m+1, c)
    OBVIOUS
  <2> DEFINE p == ops[m+1].path
             w == Written(v, ops[m+1])
  <2>1. m + 1 \in 1..n /\ 1..m+1 = (1..m) \cup {m+1} /\ m + 1 \notin 1..m /\ 1..m \subseteq 1..n
    OBVIOUS
  <2>2. p \in DOMAIN base /\ \A k \in 1..m : ops[k].path # p
    BY <1>1a, <2>1 DEF Distinct
  <2>3. DOMAIN v = DOMAIN base
    BY DEF WrittenOf
  <2>3a. w = [f \in DOMAIN w |-> w[f]]
    BY DEF WrittenOf, Written
  <2>4. DOMAIN w = DOMAIN v /\ w[p] = Target(ops[m+1]) /\ \A f \in DOMAIN v : f # p => w[f] = v[f]
    BY <2>2, <2>3 DEF Written
  <2>5. \A f \in DOMAIN v : (\A k \in 1..m : ops[k].path # f) => v[f] = base[f]
    BY DEF WrittenOf
  <2>6. \A k \in 1..m : v[ops[k].path] = Target(ops[k])
    BY DEF WrittenOf
  <2>7. \A k \in 1..m : ops[k].path \in DOMAIN v
    BY <1>1a, <2>1, <2>3
  <2> HIDE DEF w, n, c
  <2>8. \A f \in DOMAIN w : (\A k \in 1..m+1 : ops[k].path # f) => w[f] = base[f]
    BY <2>1, <2>4, <2>5
  <2>9. \A k \in 1..m+1 : w[ops[k].path] = Target(ops[k])
    BY <2>1, <2>2, <2>4, <2>6, <2>7
  <2>10. WrittenOf(w, m+1, c)
    BY <2>3, <2>3a, <2>4, <2>8, <2>9 DEF WrittenOf, c
  <2> QED  BY <2>10 DEF w
<1>3. DOMAIN ops = 1..n /\ n \in Nat
  OBVIOUS
<1> HIDE DEF n, c
<1>4. WrittenOf(Writes!Fold(base, ops), n, c)
  BY <1>1, <1>2, <1>3, Writes!FoldInvariant
<1> QED  BY <1>4, WritesAreFold DEF n, c

-----------------------------------------------------------------------------
(* Accepted operations carried out one after the other: each is effective. *)
CarriedOf(v, m, c) ==
    /\ DOMAIN v = {"possible", "contents"} /\ v.possible /\ DOMAIN v.contents = Files
    /\ \A f \in Files : (\A k \in 1..m : c[2][k].path # f) => v.contents[f] = c[1][f]

Carries == INSTANCE SequenceFolds WITH op <- Carry, Inv <- CarriedOf

(* AcceptedIsApplicable folds, too.                                        *)
LEMMA CarriesAreFold ==
  ASSUME NEW base, NEW ops PROVE FoldLeft(Carry, base, ops) = Carries!Fold(base, ops)
  BY Zenon DEF Carries!Fold, FoldLeft, Carries!FoldLeft, MapThenFoldSet, Carries!MapThenFoldSet, Max, Carries!Max

(* Acceptable operations can be carried out one after the other.           *)
LEMMA AllCarried ==
  ASSUME NEW files, FilesRead(files), NEW ops, Acceptable(ops, files)
  PROVE  LET before == [f \in Files |-> ContentByPath(f, files)]
         IN  FoldLeft(Carry, [possible |-> TRUE, contents |-> before], ops).possible
<1> DEFINE before == [f \in Files |-> ContentByPath(f, files)]
           base == [possible |-> TRUE, contents |-> before]
           n == Len(ops)
           c == <<before, ops>>
<1>1. CarriedOf(base, 0, c)
  BY DEF CarriedOf
<1>2. \A m \in 0..n-1 : \A v : CarriedOf(v, m, c) => CarriedOf(Carry(v, ops[m+1]), m+1, c)
  <2> SUFFICES ASSUME NEW m \in 0..n-1, NEW v, CarriedOf(v, m, c)
               PROVE  CarriedOf(Carry(v, ops[m+1]), m+1, c)
    OBVIOUS
  <2> DEFINE op == ops[m+1]
             w == [v EXCEPT !.contents = Written(@, op)]
  <2>0. ops \in Seq(OperationAt(Files)) /\ n \in Nat
    BY DEF Acceptable
  <2>1. m + 1 \in 1..n /\ 1..m+1 = (1..m) \cup {m+1} /\ m + 1 \notin 1..m /\ 1..m \subseteq 1..n
    BY <2>0
  <2>2. op \in OperationAt(Files) /\ AllowedAction(op, files) /\ ~IsNoop(op, files)
    BY <2>0, <2>1, ElementOfSeq DEF Acceptable
  <2>3. op.path \in Files /\ \A k \in 1..m : ops[k].path # op.path
    BY <2>1, <2>2 DEF Acceptable, OperationAt
  <2>4. v.contents[op.path] = ContentByPath(op.path, files)
    BY <2>3 DEF CarriedOf
  <2>5. v.possible /\ Effective(v.contents, op)
    BY <2>2, <2>4, AcceptedIsEffective DEF CarriedOf
  <2>6. Carry(v, op) = w
    BY <2>5 DEF Carry
  <2>7. DOMAIN v = {"possible", "contents"} /\ DOMAIN v.contents = Files
    BY DEF CarriedOf
  <2>8. DOMAIN w = {"possible", "contents"} /\ w.possible = v.possible /\ w.contents = Written(v.contents, op)
    BY <2>7
  <2>9. DOMAIN w.contents = Files /\ \A f \in Files : f # op.path => w.contents[f] = v.contents[f]
    BY <2>7, <2>8 DEF Written
  <2>10. \A f \in Files : (\A k \in 1..m : ops[k].path # f) => v.contents[f] = before[f]
    BY DEF CarriedOf
  <2> HIDE DEF w, n, before
  <2>11. \A f \in Files : (\A k \in 1..m+1 : ops[k].path # f) => w.contents[f] = before[f]
    BY <2>1, <2>9, <2>10
  <2>12. CarriedOf(w, m+1, c)
    BY <2>5, <2>8, <2>9, <2>11 DEF CarriedOf
  <2> QED  BY <2>6, <2>12
<1>3. DOMAIN ops = 1..n /\ n \in Nat
  BY DEF Acceptable
<1> HIDE DEF n, c, base
<1>4. CarriedOf(Carries!Fold(base, ops), n, c)
  BY <1>1, <1>2, <1>3, Carries!FoldInvariant
<1>5. FoldLeft(Carry, base, ops).possible
  BY <1>4, CarriesAreFold DEF CarriedOf
<1> QED  BY <1>5, Zenon DEF base

-----------------------------------------------------------------------------
(* The invariant of the apply requests *)

Contents == DOMAIN Text \cup (0..MaxHead)
Results == {"none", "ok", "fault", "refused", "closed"}
RequestType(ops) ==
    [pc : ApplyPC, ops : {<<>>, ops}, existed : BOOLEAN, next : Nat, sha : Contents, tries : 0..2, result : Results]
BranchType == [made : BOOLEAN, from : [Files -> 0..MaxHead], content : [Files -> Contents]]

(* The branch b shows what op leaves.                                      *)
Shown(op, b) == b.made /\ b.content[op.path] = Target(op)
AllShown(ops, b) == \A i \in 1..Len(ops) : Shown(ops[i], b)

(* A file of the branch is as it was, or as an operation left it.          *)
BranchOK(ops, b) ==
    /\ b \in BranchType
    /\ \A f \in Files : \/ b.content[f] = b.from[f]
                        \/ \E i \in 1..Len(ops) : ops[i].path = f /\ Shown(ops[i], b)

(* What request a knows, of the operations ops, the branch b and the pull  *)
(* request p: where it is in its calls, what the branch shows by then, and *)
(* that the SHA it holds is of that file unless another one has written.   *)
RequestOK(a, ops, b, p) ==
    /\ a \in RequestType(ops) /\ a.next <= Len(a.ops)
    /\ a.pc = "idle" => a = IdleRequest
    /\ a.pc # "idle" => a.ops = ops /\ ops # <<>>
    /\ a.pc \notin {"idle", "branch", "save"} => b.made
    /\ a.pc \in {"create", "sha", "put"} =>
          /\ a.next \in 1..Len(ops)
          /\ ops[a.next].action = "create" <=> a.pc = "create"
          /\ \A j \in 1..a.next-1 : Shown(ops[j], b)
    /\ a.pc \in {"branch", "lookup", "commit"} => a.tries = 0
    /\ a.pc = "sha" => a.tries < 2
    /\ a.pc = "put" => /\ a.sha # Absent
                       /\ a.sha = b.content[ops[a.next].path] \/ Shown(ops[a.next], b)
    /\ a.pc \in {"find", "open", "find_again"} => AllShown(ops, b)
    /\ a.pc # "save" => a.result = "none"
    /\ a.result = "ok" => p # "none"
    /\ a.result = "refused" => b.made

(* The row: what is accepted is acceptable on the files that were read,    *)
(* and nothing is made before.                                             *)
SessionOK ==
    /\ session \in [files : {session.files}, ops : {session.ops}, status : {"none", "applied", "failed"}]
    /\ FilesRead(session.files) /\ Acceptable(session.ops, session.files)
    /\ session.ops = <<>> => ~branch.made /\ pr = "none" /\ session.status = "none"
    /\ session.status = "applied" => pr # "none"

(* The file of an operation was there when it was read and not when the    *)
(* branch was made, or the other way round.                                *)
Moved(op, files, b) == (b.from[op.path] = Absent) # (ContentByPath(op.path, files) = Empty)

(* Every refusal has its reason.                                           *)
Refusals ==
    \A r \in Requests : apply[r].result = "refused" =>
        \E i \in 1..Len(session.ops) :
            \/ Shown(session.ops[i], branch)
            \/ Moved(session.ops[i], session.files, branch)

(* The invariant of the requests.                                          *)
ApplyInv ==
    /\ SessionOK
    /\ api \in Apis
    /\ BranchOK(session.ops, branch)
    /\ pr \in {"none", "open", "closed"} /\ (pr # "none" => AllShown(session.ops, branch))
    /\ DOMAIN apply = Requests
    /\ \A r \in Requests : RequestOK(apply[r], session.ops, branch, pr)
    /\ Refusals

-----------------------------------------------------------------------------
(* How a branch may change *)

Advance(ops, b, b2) ==
    /\ b.made => b2.made /\ b2.from = b.from
    /\ \A i \in 1..Len(ops) : Shown(ops[i], b) => Shown(ops[i], b2)
    /\ b.made => \A i \in 1..Len(ops) : b2.content[ops[i].path] = b.content[ops[i].path] \/ Shown(ops[i], b2)

(* A branch that stays as it is.                                           *)
LEMMA StandsStill ==
  ASSUME NEW ops, NEW b PROVE Advance(ops, b, b)
  BY DEF Advance

(* What a request knows stays true while the branch advances.              *)
LEMMA RequestAdvances ==
  ASSUME NEW a, NEW ops, NEW b, NEW p, RequestOK(a, ops, b, p), NEW b2, NEW p2,
         Advance(ops, b, b2), p # "none" => p2 # "none"
  PROVE  RequestOK(a, ops, b2, p2)
<1>1. a \in RequestType(ops) /\ a.next <= Len(a.ops) /\ (a.pc = "idle" => a = IdleRequest)
      /\ (a.pc # "idle" => a.ops = ops /\ ops # <<>>)
      /\ (a.pc \notin {"idle", "branch", "save"} => b2.made)
  BY DEF RequestOK, Advance
<1>2. a.pc \in {"create", "sha", "put"} =>
          /\ a.next \in 1..Len(ops)
          /\ ops[a.next].action = "create" <=> a.pc = "create"
          /\ \A j \in 1..a.next-1 : Shown(ops[j], b2)
  <2> SUFFICES ASSUME a.pc \in {"create", "sha", "put"}
               PROVE  /\ a.next \in 1..Len(ops)
                      /\ ops[a.next].action = "create" <=> a.pc = "create"
                      /\ \A j \in 1..a.next-1 : Shown(ops[j], b2)
    OBVIOUS
  <2>1. a.next \in 1..Len(ops) /\ (ops[a.next].action = "create" <=> a.pc = "create")
        /\ \A j \in 1..a.next-1 : Shown(ops[j], b)
    BY DEF RequestOK
  <2>2. a.ops = ops /\ a.next \in Nat /\ a.next <= Len(ops)
    BY DEF RequestOK, RequestType
  <2>3. \A j \in 1..a.next-1 : j \in 1..Len(ops)
    BY <2>1, <2>2
  <2> QED  BY <2>1, <2>3 DEF Advance
<1>3. a.pc = "put" => /\ a.sha # Absent
                      /\ a.sha = b2.content[ops[a.next].path] \/ Shown(ops[a.next], b2)
  BY <1>2 DEF RequestOK, Advance
<1>4. a.pc \in {"find", "open", "find_again"} => AllShown(ops, b2)
  BY DEF RequestOK, Advance, AllShown
<1>5. (a.pc \in {"branch", "lookup", "commit"} => a.tries = 0)
      /\ (a.pc = "sha" => a.tries < 2) /\ (a.pc # "save" => a.result = "none")
      /\ (a.result = "ok" => p2 # "none") /\ (a.result = "refused" => b2.made)
  BY DEF RequestOK, Advance
<1> QED  BY <1>1, <1>2, <1>3, <1>4, <1>5 DEF RequestOK

(* An operation leaves a content, or nothing.                              *)
LEMMA TargetType ==
  ASSUME NEW op \in OperationAt(Files) PROVE Target(op) \in Contents
<1>1. Absent \in Contents
  BY RepositoryAssumption DEF Absent, Contents
<1> QED  BY <1>1 DEF OperationAt, Target, Contents

(* The branch is made.                                                     *)
LEMMA MadeAdvances ==
  ASSUME NEW ops, NEW b, ~b.made, NEW files \in [Files -> 0..MaxHead]
  PROVE  LET b2 == [made |-> TRUE, from |-> files, content |-> files]
         IN  Advance(ops, b, b2) /\ BranchOK(ops, b2)
<1>1. files \in [Files -> Contents]
  BY DEF Contents
<1> QED  BY <1>1 DEF Advance, BranchOK, BranchType, Shown

(* One operation is carried out on it.                                     *)
LEMMA WriteAdvances ==
  ASSUME NEW files, NEW ops, Acceptable(ops, files), NEW b, BranchOK(ops, b), b.made, NEW k \in 1..Len(ops)
  PROVE  LET b2 == [b EXCEPT !.content = Written(@, ops[k])]
         IN  Advance(ops, b, b2) /\ BranchOK(ops, b2) /\ Shown(ops[k], b2)
<1> DEFINE op == ops[k]
           b2 == [b EXCEPT !.content = Written(@, op)]
<1>1. op \in OperationAt(Files) /\ Distinct(ops)
  BY ElementOfSeq DEF Acceptable, Distinct
<1>1a. \A i \in 1..Len(ops) : ops[i].path \in Files
  <2>1. \A i \in 1..Len(ops) : ops[i] \in OperationAt(Files)
    BY ElementOfSeq DEF Acceptable
  <2> QED  BY <2>1 DEF OperationAt
<1>2. op.path \in Files /\ Target(op) \in Contents
  BY <1>1, TargetType DEF OperationAt
<1>3. b \in BranchType
  BY DEF BranchOK
<1>4. b2.made /\ b2.from = b.from /\ b2.content = Written(b.content, op) /\ b2 \in BranchType
  BY <1>2, <1>3 DEF BranchType, Written
<1>5. b2.content[op.path] = Target(op) /\ \A f \in Files : f # op.path => b2.content[f] = b.content[f]
  BY <1>2, <1>3, <1>4 DEF BranchType, Written
<1> HIDE DEF b2
<1>6. Shown(op, b2)
  BY <1>4, <1>5 DEF Shown
<1>7. \A i \in 1..Len(ops) : i # k => b2.content[ops[i].path] = b.content[ops[i].path]
  BY <1>1, <1>1a, <1>5 DEF Distinct
<1>8. Advance(ops, b, b2)
  BY <1>4, <1>6, <1>7 DEF Advance, Shown
<1>9. \A f \in Files : \/ b2.content[f] = b2.from[f]
                       \/ \E i \in 1..Len(ops) : ops[i].path = f /\ Shown(ops[i], b2)
  BY <1>4, <1>5, <1>6, <1>8 DEF BranchOK, Advance
<1> QED  BY <1>4, <1>6, <1>8, <1>9 DEF BranchOK, b2

(* All are carried out on it, in one commit.                               *)
LEMMA CommitAdvances ==
  ASSUME NEW files, NEW ops, Acceptable(ops, files), NEW b, BranchOK(ops, b), b.made
  PROVE  LET b2 == [b EXCEPT !.content = FoldLeft(Written, @, ops)]
         IN  Advance(ops, b, b2) /\ BranchOK(ops, b2) /\ AllShown(ops, b2)
<1> DEFINE w == FoldLeft(Written, b.content, ops)
           b2 == [b EXCEPT !.content = FoldLeft(Written, @, ops)]
<1>1. b \in BranchType /\ DOMAIN b.content = Files /\ b.content \in [Files -> Contents]
  BY DEF BranchOK, BranchType
<1>2. Len(ops) \in Nat /\ DOMAIN ops = 1..Len(ops) /\ Distinct(ops)
  BY DEF Acceptable, Distinct
<1>3. \A i \in 1..Len(ops) : ops[i].path \in Files /\ Target(ops[i]) \in Contents
  <2>1. \A i \in 1..Len(ops) : ops[i] \in OperationAt(Files)
    BY ElementOfSeq DEF Acceptable
  <2> QED  BY <2>1, TargetType DEF OperationAt
<1>4. WrittenOf(w, Len(ops), <<b.content, ops>>)
  BY <1>1, <1>2, <1>3, WrittenPointwise
<1>4a. b2 = [b EXCEPT !.content = w]
  BY Zenon
<1> HIDE DEF w, b2
<1>5f. w = [f \in Files |-> w[f]]
  BY <1>1, <1>4 DEF WrittenOf
<1>5. DOMAIN w = Files /\ (\A f \in Files : (\A k \in 1..Len(ops) : ops[k].path # f) => w[f] = b.content[f])
      /\ \A k \in 1..Len(ops) : w[ops[k].path] = Target(ops[k])
  BY <1>1, <1>4 DEF WrittenOf
<1>6. b2.made /\ b2.from = b.from /\ b2.content = w /\ DOMAIN b2 = {"made", "from", "content"}
      /\ b2 = [made |-> b2.made, from |-> b2.from, content |-> b2.content]
  BY <1>1, <1>4a DEF BranchType
<1>7. \A f \in Files : w[f] \in Contents
  <2>1. \A f \in Files : b.content[f] \in Contents
    BY <1>1 DEF BranchType
  <2> QED  BY <1>3, <1>5, <2>1
<1>8. w \in [Files -> Contents]
  BY <1>5f, <1>7
<1>9. b2 \in BranchType
  BY <1>1, <1>6, <1>8 DEF BranchType
<1>10. AllShown(ops, b2)
  BY <1>5, <1>6 DEF AllShown, Shown
<1>11. Advance(ops, b, b2)
  BY <1>6, <1>10 DEF Advance, AllShown
<1>12. \A f \in Files : \/ b2.content[f] = b2.from[f]
                        \/ \E i \in 1..Len(ops) : ops[i].path = f /\ Shown(ops[i], b2)
  BY <1>5, <1>6, <1>10 DEF BranchOK, AllShown, Shown
<1> QED  BY <1>9, <1>10, <1>11, <1>12 DEF BranchOK, b2

-----------------------------------------------------------------------------
(* The steps of a request *)

Reason(ops, files, b) ==
    \E i \in 1..Len(ops) : Shown(ops[i], b) \/ Moved(ops[i], files, b)

(* An operation that the branch does not allow has been carried out, or    *)
(* its file has been added or deleted since it was read.                   *)
LEMMA RefusedForAReason ==
  ASSUME NEW ops, NEW files, FilesRead(files), Acceptable(ops, files), NEW b, BranchOK(ops, b),
         NEW k \in 1..Len(ops), ~((ops[k].action = "create") <=> (b.content[ops[k].path] = Absent))
  PROVE  Reason(ops, files, b)
<1> DEFINE op == ops[k]
<1>1. op \in OperationAt(Files) /\ AllowedAction(op, files)
  BY ElementOfSeq DEF Acceptable
<1>2. op.path \in Files
  BY <1>1 DEF OperationAt
<1>3. CASE b.content[op.path] = b.from[op.path]
  <2>1. op.action = "create" <=> ContentByPath(op.path, files) = Absent
    BY <1>1, ContentOfExisting DEF AllowedAction
  <2> QED  BY <1>3, <2>1 DEF Reason, Moved, Empty, Absent
<1>4. CASE b.content[op.path] # b.from[op.path]
  BY <1>2, <1>4 DEF BranchOK, Reason
<1> QED  BY <1>3, <1>4

(* One request goes on to a, the others keep what they know.               *)
LEMMA RequestSteps ==
  ASSUME ApplyInv, NEW r \in Requests, apply[r].pc # "idle", NEW a, apply' = [apply EXCEPT ![r] = a],
         session' = session, api' = api,
         Advance(session.ops, branch, branch'), BranchOK(session.ops, branch'),
         pr' \in {"none", "open", "closed"}, pr # "none" => pr' # "none",
         pr' # "none" => AllShown(session.ops, branch'),
         RequestOK(a, session.ops, branch', pr'),
         a.result = "refused" => Reason(session.ops, session.files, branch')
  PROVE  ApplyInv'
<1>1. session.ops # <<>>
  BY DEF ApplyInv, RequestOK
<1>2. SessionOK'
  BY <1>1 DEF ApplyInv, SessionOK
<1>3. DOMAIN apply' = Requests /\ apply'[r] = a /\ \A s \in Requests : s # r => apply'[s] = apply[s]
  BY DEF ApplyInv
<1>4. \A s \in Requests : RequestOK(apply[s], session.ops, branch', pr')
  BY RequestAdvances DEF ApplyInv
<1>5. \A s \in Requests : RequestOK(apply'[s], session'.ops, branch', pr')
  BY <1>3, <1>4
<1>6. Refusals'
  <2> SUFFICES ASSUME NEW s \in Requests, apply'[s].result = "refused"
               PROVE  Reason(session.ops, session.files, branch')
    BY DEF Refusals, Reason
  <2>1. CASE s = r
    BY <1>3, <2>1
  <2>2. CASE s # r
    <3>1. apply[s].result = "refused"
      BY <1>3, <2>2
    <3>2. branch.made /\ Reason(session.ops, session.files, branch)
      BY <3>1 DEF ApplyInv, RequestOK, Refusals, Reason
    <3> QED  BY <3>2 DEF Advance, Reason, Moved
  <2> QED  BY <2>1, <2>2
<1> QED  BY <1>2, <1>3, <1>5, <1>6 DEF ApplyInv

(* The same for a step that leaves the branch and the pull request alone.  *)
LEMMA RequestGoes ==
  ASSUME ApplyInv, NEW r \in Requests, apply[r].pc # "idle", NEW a, apply' = [apply EXCEPT ![r] = a],
         session' = session, api' = api, branch' = branch, pr' = pr,
         RequestOK(a, session.ops, branch, pr),
         a.result = "refused" => Reason(session.ops, session.files, branch)
  PROVE  ApplyInv'
<1>1. Advance(session.ops, branch, branch') /\ BranchOK(session.ops, branch')
      /\ pr' \in {"none", "open", "closed"} /\ (pr' # "none" => AllShown(session.ops, branch'))
  BY StandsStill DEF ApplyInv
<1> QED  BY <1>1, RequestSteps

(* A request ends with a result.                                           *)
Ended(a, result) == [a EXCEPT !.pc = "save", !.result = result]

(* What a request that ends with a result still knows.                     *)
LEMMA EndedOK ==
  ASSUME NEW a, NEW ops, NEW b, NEW p, RequestOK(a, ops, b, p), a.pc # "idle", NEW result \in Results,
         result = "ok" => p # "none", result = "refused" => b.made
  PROVE  RequestOK(Ended(a, result), ops, b, p) /\ Ended(a, result).result = result
<1>1. a \in RequestType(ops) /\ a.ops = ops /\ ops # <<>> /\ a.next <= Len(a.ops)
  BY DEF RequestOK
<1> DEFINE x == Ended(a, result)
<1>2. x \in RequestType(ops) /\ x.pc = "save" /\ x.result = result /\ x.ops = a.ops /\ x.next = a.next
  BY <1>1 DEF RequestType, Ended, ApplyPC
<1> HIDE DEF x
<1>3. RequestOK(x, ops, b, p)
  BY <1>1, <1>2 DEF RequestOK
<1> QED  BY <1>2, <1>3 DEF x

(* A call fails, or is refused, for a reason, or succeeds.                 *)
LEMMA RequestEnds ==
  ASSUME ApplyInv, NEW r \in Requests, apply[r].pc # "idle", NEW result \in Results, End(r, result),
         session' = session, api' = api, branch' = branch, pr' = pr,
         result = "ok" => pr # "none",
         result = "refused" => branch.made /\ Reason(session.ops, session.files, branch)
  PROVE  ApplyInv'
<1>1. apply' = [apply EXCEPT ![r] = Ended(apply[r], result)]
  BY DEF End, Go, Ended
<1>2. RequestOK(apply[r], session.ops, branch, pr)
  BY DEF ApplyInv
<1>3. RequestOK(Ended(apply[r], result), session.ops, branch, pr) /\ Ended(apply[r], result).result = result
  BY <1>2, EndedOK
<1> QED  BY <1>1, <1>3, RequestGoes

(* A call to GitFlame fails.                                               *)
LEMMA RequestFails ==
  ASSUME ApplyInv, NEW r \in Requests, apply[r].pc # "idle", End(r, "fault"),
         session' = session, api' = api, branch' = branch, pr' = pr
  PROVE  ApplyInv'
  BY RequestEnds DEF Results

(* A request that has not begun knows nothing.                             *)
LEMMA IdleIsOK ==
  ASSUME NEW ops, NEW b, NEW p PROVE RequestOK(IdleRequest, ops, b, p) /\ IdleRequest.result = "none"
<1>1. Absent \in Contents
  BY RepositoryAssumption DEF Absent, Contents
<1>2. IdleRequest \in RequestType(ops)
  BY <1>1 DEF IdleRequest, RequestType, ApplyPC, Results
<1>3. IdleRequest.pc = "idle" /\ IdleRequest.result = "none" /\ IdleRequest.ops = <<>> /\ IdleRequest.next = 0
  BY DEF IdleRequest
<1> QED  BY <1>2, <1>3 DEF RequestOK

-----------------------------------------------------------------------------
(* The handlers *)

(* applyGeneratedFiles, server.go:367-395.                                 *)
LEMMA BeginApplyKeeps ==
  ASSUME ApplyInv, NEW r \in Requests, BeginApply(r) PROVE ApplyInv'
<1>1. Acceptable(session.ops, session.files) /\ session.ops # <<>> /\ apply[r].pc = "idle"
  BY DEF ApplyInv, SessionOK, BeginApply, Doing
<1>2. DropNoopGeneratedFiles(session.ops, session.files) = session.ops
  BY <1>1, NothingDropped
<1>3. \/ session' = session /\ apply' = apply
      \/ Go(r, [IdleRequest EXCEPT !.pc = "branch", !.ops = session.ops]) /\ session' = session
  BY <1>1, <1>2, Zenon DEF BeginApply
<1>4. branch' = branch /\ pr' = pr /\ api' = api
  BY DEF BeginApply
<1>5. CASE session' = session /\ apply' = apply
  BY <1>4, <1>5 DEF ApplyInv, SessionOK, Refusals
<1>6. CASE Go(r, [IdleRequest EXCEPT !.pc = "branch", !.ops = session.ops]) /\ session' = session
  <2> DEFINE x == [IdleRequest EXCEPT !.pc = "branch", !.ops = session.ops]
  <2>1. Absent \in Contents /\ Len(session.ops) \in Nat
    BY <1>1, RepositoryAssumption DEF Absent, Contents, Acceptable
  <2>2. x \in RequestType(session.ops) /\ x.pc = "branch" /\ x.ops = session.ops /\ x.next = 0 /\ x.tries = 0 /\ x.result = "none"
    <3>1. IdleRequest \in RequestType(session.ops) /\ IdleRequest.next = 0 /\ IdleRequest.tries = 0 /\ IdleRequest.result = "none"
      BY IdleIsOK DEF RequestOK, IdleRequest
    <3> QED  BY <3>1 DEF RequestType, ApplyPC
  <2>3. apply' = [apply EXCEPT ![r] = x]
    BY <1>6 DEF Go
  <2> HIDE DEF x
  <2>4. RequestOK(x, session.ops, branch, pr)
    BY <1>1, <2>1, <2>2 DEF RequestOK
  <2>5. DOMAIN apply' = Requests /\ apply'[r] = x /\ \A s \in Requests : s # r => apply'[s] = apply[s]
    BY <2>3 DEF ApplyInv
  <2>6. \A s \in Requests : RequestOK(apply'[s], session'.ops, branch', pr')
    BY <1>4, <1>6, <2>4, <2>5 DEF ApplyInv
  <2>7. Refusals'
    BY <1>4, <1>6, <2>2, <2>5 DEF ApplyInv, Refusals
  <2> QED  BY <1>4, <1>6, <2>5, <2>6, <2>7 DEF ApplyInv, SessionOK
<1> QED  BY <1>3, <1>5, <1>6

(* A request is over; the status follows its result, or stays.             *)
LEMMA SaveKeeps ==
  ASSUME ApplyInv, NEW r \in Requests, apply[r].pc # "idle", Go(r, IdleRequest),
         \/ session' = session
         \/ session' = [session EXCEPT !.status = IF apply[r].result = "ok" THEN "applied" ELSE "failed"],
         branch' = branch, pr' = pr, api' = api
  PROVE  ApplyInv'
<1>1. DOMAIN apply' = Requests /\ apply'[r] = IdleRequest /\ \A s \in Requests : s # r => apply'[s] = apply[s]
  BY DEF ApplyInv, Go
<1>2. RequestOK(apply[r], session.ops, branch, pr)
  BY DEF ApplyInv
<1>3. session.ops # <<>> /\ (apply[r].result = "ok" => pr # "none")
  BY <1>2 DEF RequestOK
<1>4. session'.ops = session.ops /\ session'.files = session.files
      /\ session' \in [files : {session'.files}, ops : {session'.ops}, status : {"none", "applied", "failed"}]
      /\ (session'.status = "applied" => pr # "none")
  BY <1>3 DEF ApplyInv, SessionOK
<1>5. SessionOK'
  BY <1>3, <1>4 DEF ApplyInv, SessionOK
<1>6. \A s \in Requests : RequestOK(apply'[s], session'.ops, branch', pr')
  BY <1>1, <1>4, IdleIsOK DEF ApplyInv
<1>7. Refusals'
  BY <1>1, <1>4, IdleIsOK DEF ApplyInv, Refusals
<1> QED  BY <1>1, <1>4, <1>5, <1>6, <1>7 DEF ApplyInv

(* The outcome is stored, server.go:396-433.                               *)
LEMMA SaveOutcomeKeeps ==
  ASSUME ApplyInv, NEW r \in Requests, SaveOutcome(r) PROVE ApplyInv'
  BY SaveKeeps DEF SaveOutcome, Doing

(* The backend stops.                                                      *)
LEMMA StopRequestKeeps ==
  ASSUME ApplyInv, NEW r \in Requests, StopRequest(r) PROVE ApplyInv'
  BY SaveKeeps DEF StopRequest, OnlyApply

(* createBranch makes the branch, or finds it there.                       *)
LEMMA CreateBranchKeeps ==
  ASSUME ApplyInv, RepositoryOK, NEW r \in Requests, CreateBranch(r) PROVE ApplyInv'
<1> DEFINE a == apply[r]
           b2 == [made |-> TRUE, from |-> repo, content |-> repo]
<1>1. RequestOK(a, session.ops, branch, pr) /\ a.pc = "branch" /\ a.pc # "idle"
  BY DEF ApplyInv, CreateBranch, Doing
<1>2. session' = session /\ api' = api /\ pr' = pr
  BY DEF CreateBranch, OnlyBranch
<1>3. CASE ~branch.made /\ branch' = b2 /\ (GoTo(r, "commit") \/ End(r, "fault"))
  <2>1. repo \in [Files -> 0..MaxHead]
    <3>1. 0..head \subseteq 0..MaxHead
      BY RepositoryAssumption DEF RepositoryOK
    <3> QED  BY <3>1 DEF RepositoryOK
  <2>2. Advance(session.ops, branch, branch') /\ BranchOK(session.ops, branch')
    BY <1>3, <2>1, MadeAdvances
  <2>3. pr = "none"
    <3>1. session.ops # <<>> /\ 1 \in 1..Len(session.ops)
      BY <1>1 DEF RequestOK, ApplyInv, SessionOK, Acceptable
    <3> QED  BY <1>3, <3>1 DEF ApplyInv, AllShown, Shown
  <2>4. RequestOK(a, session.ops, branch', pr)
    BY <1>1, <2>2, RequestAdvances
  <2>5. CASE GoTo(r, "commit")
    <3> DEFINE x == [a EXCEPT !.pc = "commit"]
    <3>1. a \in RequestType(session.ops) /\ a.ops = session.ops /\ session.ops # <<>> /\ a.next <= Len(a.ops)
          /\ a.result = "none" /\ a.tries = 0
      BY <1>1 DEF RequestOK
    <3>2. x \in RequestType(session.ops) /\ x.pc = "commit" /\ x.ops = session.ops /\ x.next = a.next
          /\ x.result = "none" /\ x.tries = 0
      BY <3>1 DEF RequestType, ApplyPC
    <3>3. apply' = [apply EXCEPT ![r] = x]
      BY <2>5 DEF GoTo, Go
    <3> HIDE DEF x, a
    <3>4. RequestOK(x, session.ops, branch', pr')
      BY <1>3, <3>1, <3>2 DEF RequestOK
    <3> QED  BY <1>1, <1>2, <2>2, <2>3, <3>2, <3>3, <3>4, RequestSteps DEF a
  <2>6. CASE End(r, "fault")
    <3>1. apply' = [apply EXCEPT ![r] = Ended(a, "fault")]
      BY <2>6 DEF End, Go, Ended
    <3>2. RequestOK(Ended(a, "fault"), session.ops, branch', pr') /\ Ended(a, "fault").result = "fault"
      BY <1>1, <1>2, <2>4, EndedOK DEF Results
    <3> HIDE DEF a
    <3> QED  BY <1>1, <1>2, <2>2, <2>3, <3>1, <3>2, RequestSteps DEF a
  <2> QED  BY <1>3, <2>5, <2>6
<1>4. CASE branch.made /\ GoTo(r, "lookup") /\ branch' = branch
  <2> DEFINE x == [a EXCEPT !.pc = "lookup"]
  <2>1. a \in RequestType(session.ops) /\ a.ops = session.ops /\ session.ops # <<>> /\ a.next <= Len(a.ops)
        /\ a.result = "none" /\ a.tries = 0
    BY <1>1 DEF RequestOK
  <2>2. x \in RequestType(session.ops) /\ x.pc = "lookup" /\ x.ops = session.ops /\ x.next = a.next
        /\ x.result = "none" /\ x.tries = 0
    BY <2>1 DEF RequestType, ApplyPC
  <2>3. apply' = [apply EXCEPT ![r] = x]
    BY <1>4 DEF GoTo, Go
  <2> HIDE DEF x, a
  <2>4. RequestOK(x, session.ops, branch, pr)
    BY <1>4, <2>1, <2>2 DEF RequestOK
  <2> QED  BY <1>1, <1>2, <1>4, <2>2, <2>3, <2>4, RequestGoes DEF a
<1>5. CASE End(r, "fault") /\ branch' = branch
  BY <1>1, <1>2, <1>5, RequestFails
<1> QED  BY <1>3, <1>4, <1>5 DEF CreateBranch

(* The branch that was there is looked up.                                 *)
LEMMA LookUpBranchKeeps ==
  ASSUME ApplyInv, NEW r \in Requests, LookUpBranch(r) PROVE ApplyInv'
<1> DEFINE a == apply[r]
           x == [a EXCEPT !.pc = "commit", !.existed = TRUE]
<1>1. RequestOK(a, session.ops, branch, pr) /\ a.pc = "lookup"
  BY DEF ApplyInv, LookUpBranch, Doing
<1>2. session' = session /\ api' = api /\ pr' = pr /\ branch' = branch
  BY DEF LookUpBranch, OnlyApply
<1>3. CASE Go(r, x)
  <2>1. a \in RequestType(session.ops) /\ a.ops = session.ops /\ session.ops # <<>> /\ a.next <= Len(a.ops)
        /\ a.result = "none" /\ a.tries = 0 /\ branch.made
    BY <1>1 DEF RequestOK
  <2>2. x \in RequestType(session.ops) /\ x.pc = "commit" /\ x.ops = session.ops /\ x.next = a.next
        /\ x.result = "none" /\ x.tries = 0
    BY <2>1 DEF RequestType, ApplyPC
  <2>3. apply' = [apply EXCEPT ![r] = x]
    BY <1>3 DEF Go
  <2> HIDE DEF x, a
  <2>4. RequestOK(x, session.ops, branch, pr)
    BY <2>1, <2>2 DEF RequestOK
  <2> QED  BY <1>1, <1>2, <2>2, <2>3, <2>4, RequestGoes DEF a
<1>4. CASE End(r, "fault")
  BY <1>1, <1>2, <1>4, RequestFails
<1> QED  BY <1>3, <1>4 DEF LookUpBranch

-----------------------------------------------------------------------------
(* The files *)

(* A request past its last file finds all operations on the branch.        *)
LEMMA PastFiles ==
  ASSUME NEW a, NEW ops, NEW b, NEW p, RequestOK(a, ops, b, p), AllShown(ops, b), b.made, a.result = "none",
         a.pc # "idle", NEW pc \in {"find", "open"}
  PROVE  RequestOK([a EXCEPT !.pc = pc], ops, b, p) /\ [a EXCEPT !.pc = pc].result = "none"
<1> DEFINE x == [a EXCEPT !.pc = pc]
<1>1. a \in RequestType(ops) /\ a.ops = ops /\ ops # <<>> /\ a.next <= Len(a.ops)
  BY DEF RequestOK
<1>2. x \in RequestType(ops) /\ x.pc = pc /\ x.ops = ops /\ x.next = a.next /\ x.result = "none"
  BY <1>1 DEF RequestType, ApplyPC
<1> HIDE DEF x
<1>3. RequestOK(x, ops, b, p)
  BY <1>1, <1>2 DEF RequestOK
<1> QED  BY <1>2, <1>3 DEF x

(* A request turns to its file n when those before are on the branch.      *)
LEMMA ToFile ==
  ASSUME NEW a, NEW ops, Len(ops) \in Nat, NEW b, NEW p, RequestOK(a, ops, b, p), b.made, a.result = "none",
         a.pc # "idle", NEW n \in 1..Len(ops), \A j \in 1..n-1 : Shown(ops[j], b),
         NEW x \in RequestType(ops), x.pc = FirstCall(ops[n]), x.ops = a.ops, x.next = n, x.tries = 0,
         x.result = a.result
  PROVE  RequestOK(x, ops, b, p) /\ x.result = "none"
<1>1. a.ops = ops /\ ops # <<>>
  BY DEF RequestOK
<1>2. x.pc \in {"create", "sha"} /\ (ops[n].action = "create" <=> x.pc = "create")
  BY DEF FirstCall
<1> QED  BY <1>1, <1>2 DEF RequestOK

(* All files in one commit, or the first of them.                          *)
LEMMA CommitKeeps ==
  ASSUME ApplyInv, NEW r \in Requests, Commit(r) PROVE ApplyInv'
<1> DEFINE a == apply[r]
           ops == session.ops
           b2 == [branch EXCEPT !.content = FoldLeft(Written, @, ops)]
<1>1. RequestOK(a, ops, branch, pr) /\ a.pc = "commit" /\ a.pc # "idle"
  BY DEF ApplyInv, Commit, Doing
<1>2. session' = session /\ api' = api /\ pr' = pr
  BY DEF Commit, OnlyBranch
<1>3. a \in RequestType(ops) /\ a.ops = ops /\ ops # <<>> /\ branch.made /\ a.result = "none"
  BY <1>1 DEF RequestOK
<1>4. Acceptable(ops, session.files) /\ FilesRead(session.files) /\ BranchOK(ops, branch)
      /\ Len(ops) \in Nat /\ 1 \in 1..Len(ops)
  BY <1>3 DEF ApplyInv, SessionOK, Acceptable
<1>5. \/ branch' = b2 /\ (GoTo(r, AfterFiles(r)) \/ End(r, "fault"))
      \/ (\E i \in 1..Len(ops) : ~Possible(ops[i])) /\ End(r, "refused") /\ branch' = branch
      \/ Go(r, [apply[r] EXCEPT !.pc = FirstCall(ops[1]), !.next = 1]) /\ branch' = branch
      \/ End(r, "fault") /\ branch' = branch
  BY <1>3, Zenon DEF Commit
<1>6. CASE branch' = b2 /\ (GoTo(r, AfterFiles(r)) \/ End(r, "fault"))
  <2>1. Advance(ops, branch, branch') /\ BranchOK(ops, branch') /\ AllShown(ops, branch')
    BY <1>3, <1>4, <1>6, CommitAdvances
  <2> HIDE DEF b2
  <2>2. RequestOK(a, ops, branch', pr') /\ branch'.made
    BY <1>1, <1>2, <1>3, <2>1, RequestAdvances DEF Advance
  <2>3. pr' \in {"none", "open", "closed"}
    BY <1>2 DEF ApplyInv
  <2>4. CASE GoTo(r, AfterFiles(r))
    <3>1. AfterFiles(r) \in {"find", "open"} /\ apply' = [apply EXCEPT ![r] = [a EXCEPT !.pc = AfterFiles(r)]]
      BY <2>4 DEF GoTo, Go, AfterFiles
    <3>2. RequestOK([a EXCEPT !.pc = AfterFiles(r)], ops, branch', pr') /\ [a EXCEPT !.pc = AfterFiles(r)].result = "none"
      BY <1>1, <1>3, <2>1, <2>2, <3>1, PastFiles
    <3> HIDE DEF a, ops
    <3>3. apply[r].pc # "idle"
      BY <1>1 DEF a
    <3> QED  BY <1>2, <2>1, <2>3, <3>1, <3>2, <3>3, RequestSteps DEF ops
  <2>5. CASE End(r, "fault")
    <3>1. apply' = [apply EXCEPT ![r] = Ended(a, "fault")]
      BY <2>5 DEF End, Go, Ended
    <3>2. RequestOK(Ended(a, "fault"), ops, branch', pr') /\ Ended(a, "fault").result = "fault"
      BY <1>1, <2>2, EndedOK DEF Results
    <3> HIDE DEF a, ops
    <3>3. apply[r].pc # "idle"
      BY <1>1 DEF a
    <3> QED  BY <1>2, <2>1, <2>3, <3>1, <3>2, <3>3, RequestSteps DEF ops
  <2> QED  BY <1>6, <2>4, <2>5
<1>7. CASE (\E i \in 1..Len(ops) : ~Possible(ops[i])) /\ End(r, "refused") /\ branch' = branch
  <2>1. Reason(ops, session.files, branch)
    BY <1>4, <1>7, RefusedForAReason DEF Possible
  <2> QED  BY <1>1, <1>2, <1>3, <1>7, <2>1, RequestEnds DEF Results
<1>8. CASE Go(r, [apply[r] EXCEPT !.pc = FirstCall(ops[1]), !.next = 1]) /\ branch' = branch
  <2> DEFINE x == [apply[r] EXCEPT !.pc = FirstCall(ops[1]), !.next = 1]
  <2>1. x \in RequestType(ops) /\ x.pc = FirstCall(ops[1]) /\ x.ops = a.ops /\ x.next = 1
        /\ x.tries = a.tries /\ x.result = a.result
    BY <1>3 DEF RequestType, FirstCall, ApplyPC
  <2>2. apply' = [apply EXCEPT ![r] = x]
    BY <1>8 DEF Go
  <2> HIDE DEF x
  <2>3. a.tries = 0
    BY <1>1 DEF RequestOK
  <2>4. RequestOK(x, ops, branch, pr) /\ x.result = "none"
    BY <1>1, <1>3, <1>4, <2>1, <2>3, ToFile
  <2> QED  BY <1>1, <1>2, <1>8, <2>2, <2>4, RequestGoes
<1>9. CASE End(r, "fault") /\ branch' = branch
  BY <1>1, <1>2, <1>9, RequestFails
<1> QED  BY <1>5, <1>6, <1>7, <1>8, <1>9

(* A request that is at a file.                                            *)
LEMMA AtFile ==
  ASSUME ApplyInv, NEW r \in Requests, apply[r].pc \in {"create", "sha", "put"}
  PROVE  /\ RequestOK(apply[r], session.ops, branch, pr)
         /\ apply[r] \in RequestType(session.ops) /\ apply[r].ops = session.ops /\ apply[r].result = "none"
         /\ branch.made /\ apply[r].next \in 1..Len(session.ops) /\ Len(session.ops) \in Nat
         /\ Operation(r) = session.ops[apply[r].next]
         /\ Acceptable(session.ops, session.files) /\ FilesRead(session.files) /\ BranchOK(session.ops, branch)
         /\ \A j \in 1..apply[r].next-1 : Shown(session.ops[j], branch)
         /\ (Operation(r).action = "create") <=> (apply[r].pc = "create")
<1>1. RequestOK(apply[r], session.ops, branch, pr) /\ SessionOK /\ BranchOK(session.ops, branch)
  BY DEF ApplyInv
<1> QED  BY <1>1 DEF RequestOK, SessionOK, Acceptable, Operation

(* A refusal of a file has its reason.                                     *)
LEMMA FileRefused ==
  ASSUME ApplyInv, NEW r \in Requests, apply[r].pc \in {"create", "sha", "put"}, End(r, "refused"),
         session' = session, api' = api, branch' = branch, pr' = pr,
         \/ ~((Operation(r).action = "create") <=> (branch.content[Operation(r).path] = Absent))
         \/ Shown(Operation(r), branch)
  PROVE  ApplyInv'
<1>1. Reason(session.ops, session.files, branch) /\ branch.made
  BY AtFile, RefusedForAReason DEF Reason
<1> QED  BY <1>1, RequestEnds DEF Results

(* A file is written.                                                      *)
LEMMA WriteFileKeeps ==
  ASSUME ApplyInv, NEW r \in Requests, apply[r].pc \in {"create", "put"}, WriteFile(r),
         session' = session, api' = api, pr' = pr
  PROVE  ApplyInv'
<1> DEFINE a == apply[r]
           ops == session.ops
           k == a.next
           n == k + 1
           b2 == [branch EXCEPT !.content = Written(@, ops[k])]
<1>1. /\ RequestOK(a, ops, branch, pr) /\ a \in RequestType(ops) /\ a.ops = ops /\ a.result = "none"
      /\ branch.made /\ k \in 1..Len(ops) /\ Len(ops) \in Nat /\ Operation(r) = ops[k]
      /\ Acceptable(ops, session.files) /\ BranchOK(ops, branch)
      /\ \A j \in 1..k-1 : Shown(ops[j], branch)
  BY AtFile
<1>2. branch' = b2 /\ (NextFile(r) \/ End(r, "fault"))
  BY <1>1 DEF WriteFile
<1>3. Advance(ops, branch, branch') /\ BranchOK(ops, branch') /\ Shown(ops[k], branch')
  BY <1>1, <1>2, WriteAdvances
<1> HIDE DEF b2
<1>4. RequestOK(a, ops, branch', pr') /\ branch'.made
  BY <1>1, <1>3, RequestAdvances DEF Advance
<1>5. \A j \in 1..n-1 : Shown(ops[j], branch')
  <2>1. \A j \in 1..k-1 : j \in 1..Len(ops)
    BY <1>1
  <2>2. \A j \in 1..k-1 : Shown(ops[j], branch')
    BY <1>1, <1>3, <2>1 DEF Advance
  <2>3. \A j \in 1..n-1 : j \in 1..k-1 \/ j = k
    BY <1>1
  <2> QED  BY <1>3, <2>2, <2>3
<1>6. pr' \in {"none", "open", "closed"} /\ (pr' # "none" => AllShown(ops, branch'))
  BY <1>3 DEF ApplyInv, AllShown, Advance
<1>6a. a.pc # "idle"
  OBVIOUS
<1>7. ASSUME NEW x, apply' = [apply EXCEPT ![r] = x], RequestOK(x, ops, branch', pr'), x.result # "refused"
      PROVE  ApplyInv'
  BY <1>3, <1>6, <1>7, RequestSteps
<1>8. CASE End(r, "fault")
  <2>1. apply' = [apply EXCEPT ![r] = Ended(a, "fault")]
    BY <1>8 DEF End, Go, Ended
  <2>2. RequestOK(Ended(a, "fault"), ops, branch', pr') /\ Ended(a, "fault").result = "fault"
    BY <1>4, <1>6a, EndedOK DEF Results
  <2> HIDE DEF a, ops
  <2> QED  BY <1>7, <2>1, <2>2
<1>9. CASE n > Len(ops) /\ NextFile(r)
  <2>1. AllShown(ops, branch')
    <3>1. \A j \in 1..Len(ops) : j \in 1..n-1
      BY <1>1, <1>9
    <3> QED  BY <1>5, <3>1 DEF AllShown
  <2>2. AfterFiles(r) \in {"find", "open"} /\ apply' = [apply EXCEPT ![r] = [a EXCEPT !.pc = AfterFiles(r)]]
    BY <1>1, <1>9 DEF NextFile, GoTo, Go, AfterFiles
  <2>3. RequestOK([a EXCEPT !.pc = AfterFiles(r)], ops, branch', pr') /\ [a EXCEPT !.pc = AfterFiles(r)].result = "none"
    BY <1>1, <1>4, <1>6a, <2>1, <2>2, PastFiles
  <2> HIDE DEF a, ops
  <2> QED  BY <1>7, <2>2, <2>3
<1>10. CASE ~(n > Len(ops)) /\ NextFile(r)
  <2> DEFINE x == [a EXCEPT !.pc = FirstCall(ops[n]), !.next = n, !.tries = 0, !.sha = Absent]
  <2>1. n \in 1..Len(ops)
    BY <1>1, <1>10
  <2>2. Absent \in Contents
    BY RepositoryAssumption DEF Absent, Contents
  <2>3. x \in RequestType(ops) /\ x.pc = FirstCall(ops[n]) /\ x.ops = a.ops /\ x.next = n
        /\ x.tries = 0 /\ x.result = a.result
    <3>1. FirstCall(ops[n]) \in ApplyPC /\ n \in Nat
      BY <2>1 DEF FirstCall, ApplyPC
    <3> DEFINE call == FirstCall(ops[n])
    <3>2. call \in ApplyPC /\ n \in Nat /\ 0 \in 0..2
      BY <3>1
    <3>3. a \in RequestType(ops)
      BY <1>1
    <3> HIDE DEF n, call, a, ops
    <3>4. x = [a EXCEPT !.pc = call, !.next = n, !.tries = 0, !.sha = Absent]
      BY DEF call
    <3> HIDE DEF x
    <3>5. x \in RequestType(ops) /\ x.pc = call /\ x.ops = a.ops /\ x.next = n /\ x.tries = 0 /\ x.result = a.result
      BY <2>2, <3>2, <3>3, <3>4 DEF RequestType
    <3> QED  BY <3>5 DEF call
  <2>4. apply' = [apply EXCEPT ![r] = x]
    BY <1>1, <1>10 DEF NextFile, Go
  <2> HIDE DEF x, n
  <2>5. RequestOK(x, ops, branch', pr') /\ x.result = "none"
    BY <1>1, <1>4, <1>5, <1>6a, <2>1, <2>3, ToFile
  <2> QED  BY <1>7, <2>4, <2>5
<1> QED  BY <1>2, <1>8, <1>9, <1>10

(* A file is created, or was there.                                        *)
LEMMA CreateFileKeeps ==
  ASSUME ApplyInv, NEW r \in Requests, CreateFile(r) PROVE ApplyInv'
<1>1. apply[r].pc = "create" /\ session' = session /\ api' = api /\ pr' = pr
  BY DEF CreateFile, Doing, OnlyBranch
<1>2. CASE WriteFile(r)
  BY <1>1, <1>2, WriteFileKeeps
<1>3. CASE branch.content[Operation(r).path] # Absent /\ End(r, "refused") /\ branch' = branch
  BY <1>1, <1>3, AtFile, FileRefused
<1>4. CASE End(r, "fault") /\ branch' = branch
  BY <1>1, <1>4, RequestFails
<1> QED  BY <1>2, <1>3, <1>4 DEF CreateFile

(* The SHA of a file is fetched.                                           *)
LEMMA FetchFileSHAKeeps ==
  ASSUME ApplyInv, NEW r \in Requests, FetchFileSHA(r) PROVE ApplyInv'
<1> DEFINE a == apply[r]
           ops == session.ops
           sha == branch.content[ops[a.next].path]
           x == [a EXCEPT !.pc = "put", !.sha = sha, !.tries = @ + 1]
<1>1. a.pc = "sha" /\ session' = session /\ api' = api /\ pr' = pr /\ branch' = branch
  BY DEF FetchFileSHA, Doing, OnlyApply
<1>2. /\ RequestOK(a, ops, branch, pr) /\ a \in RequestType(ops) /\ a.ops = ops /\ a.result = "none"
      /\ branch.made /\ a.next \in 1..Len(ops) /\ Len(ops) \in Nat /\ Operation(r) = ops[a.next]
      /\ Acceptable(ops, session.files) /\ BranchOK(ops, branch)
      /\ (\A j \in 1..a.next-1 : Shown(ops[j], branch))
      /\ ops[a.next].action # "create"
  BY <1>1, AtFile
<1>3. CASE sha # Absent /\ Go(r, x)
  <2>1. ops[a.next] \in OperationAt(Files)
    BY <1>2, ElementOfSeq DEF Acceptable
  <2>2. sha \in Contents
    BY <1>2, <2>1 DEF OperationAt, BranchOK, BranchType
  <2>3. a.tries \in 0..2 /\ a.tries < 2 /\ ops # <<>> /\ a.next <= Len(ops)
    BY <1>1, <1>2 DEF RequestOK, RequestType
  <2>4. x \in RequestType(ops) /\ x.pc = "put" /\ x.ops = ops /\ x.next = a.next /\ x.sha = sha /\ x.result = "none"
    <3>1. a.tries + 1 \in 0..2
      BY <2>3
    <3> HIDE DEF sha
    <3> QED  BY <1>2, <2>2, <3>1 DEF RequestType, ApplyPC
  <2>5. apply' = [apply EXCEPT ![r] = x]
    BY <1>3 DEF Go
  <2> HIDE DEF x
  <2>6. RequestOK(x, ops, branch, pr)
    BY <1>2, <1>3, <2>3, <2>4 DEF RequestOK
  <2> QED  BY <1>1, <2>4, <2>5, <2>6, RequestGoes
<1>4. CASE sha = Absent /\ End(r, "refused")
  BY <1>1, <1>2, <1>4, FileRefused
<1>5. CASE End(r, "fault")
  BY <1>1, <1>5, RequestFails
<1>6. (sha # Absent /\ Go(r, x)) \/ (sha = Absent /\ End(r, "refused")) \/ End(r, "fault")
  BY <1>2 DEF FetchFileSHA
<1> QED  BY <1>3, <1>4, <1>5, <1>6

(* A file is changed or deleted under its SHA, or the SHA is stale.        *)
LEMMA PutFileKeeps ==
  ASSUME ApplyInv, NEW r \in Requests, PutFile(r) PROVE ApplyInv'
<1> DEFINE a == apply[r]
           ops == session.ops
           current == branch.content[ops[a.next].path]
           x == [a EXCEPT !.pc = "sha"]
<1>1. a.pc = "put" /\ session' = session /\ api' = api /\ pr' = pr
  BY DEF PutFile, Doing, OnlyBranch
<1>2. /\ RequestOK(a, ops, branch, pr) /\ a \in RequestType(ops) /\ a.ops = ops /\ a.result = "none"
      /\ branch.made /\ a.next \in 1..Len(ops) /\ Len(ops) \in Nat /\ Operation(r) = ops[a.next]
      /\ (\A j \in 1..a.next-1 : Shown(ops[j], branch))
      /\ ops[a.next].action # "create"
  BY <1>1, AtFile
<1>3. CASE WriteFile(r)
  BY <1>1, <1>3, WriteFileKeeps
<1>4. CASE a.tries < 2 /\ GoTo(r, "sha") /\ branch' = branch
  <2>1. ops # <<>> /\ a.next <= Len(ops)
    BY <1>1, <1>2 DEF RequestOK
  <2>2. x \in RequestType(ops) /\ x.pc = "sha" /\ x.ops = ops /\ x.next = a.next /\ x.tries = a.tries /\ x.result = "none"
    BY <1>2 DEF RequestType, ApplyPC
  <2>3. apply' = [apply EXCEPT ![r] = x]
    BY <1>4 DEF GoTo, Go
  <2> HIDE DEF x
  <2>4. RequestOK(x, ops, branch, pr)
    BY <1>2, <1>4, <2>1, <2>2 DEF RequestOK
  <2> QED  BY <1>1, <1>4, <2>2, <2>3, <2>4, RequestGoes
<1>5. CASE current # a.sha /\ End(r, "refused") /\ branch' = branch
  <2>1. Shown(Operation(r), branch)
    BY <1>1, <1>2, <1>5 DEF RequestOK
  <2> QED  BY <1>1, <1>5, <2>1, FileRefused
<1>6. CASE End(r, "fault") /\ branch' = branch
  BY <1>1, <1>6, RequestFails
<1>7. \/ WriteFile(r)
      \/ a.tries < 2 /\ GoTo(r, "sha") /\ branch' = branch
      \/ current # a.sha /\ End(r, "refused") /\ branch' = branch
      \/ End(r, "fault") /\ branch' = branch
  BY <1>2 DEF PutFile
<1> QED  BY <1>3, <1>4, <1>5, <1>6, <1>7

-----------------------------------------------------------------------------
(* The pull request *)

(* findOpenPullRequest.                                                    *)
LEMMA FindPullRequestKeeps ==
  ASSUME ApplyInv, NEW r \in Requests, FindPullRequest(r) PROVE ApplyInv'
<1> DEFINE a == apply[r]
           x == [a EXCEPT !.pc = "open"]
<1>1. a.pc = "find" /\ session' = session /\ api' = api /\ pr' = pr /\ branch' = branch
  BY DEF FindPullRequest, Doing, OnlyApply
<1>2. RequestOK(a, session.ops, branch, pr) /\ AllShown(session.ops, branch) /\ branch.made /\ a.result = "none"
  BY <1>1 DEF ApplyInv, RequestOK
<1>3. CASE pr = "open" /\ End(r, "ok")
  BY <1>1, <1>3, RequestEnds DEF Results
<1>4. CASE GoTo(r, "open")
  <2>1. apply' = [apply EXCEPT ![r] = x]
    BY <1>4 DEF GoTo, Go
  <2>2. RequestOK(x, session.ops, branch, pr) /\ x.result = "none"
    BY <1>1, <1>2, PastFiles
  <2> HIDE DEF x
  <2> QED  BY <1>1, <2>1, <2>2, RequestGoes
<1>5. CASE End(r, "fault")
  BY <1>1, <1>5, RequestFails
<1> QED  BY <1>3, <1>4, <1>5 DEF FindPullRequest

(* createPullRequest.                                                      *)
LEMMA CreatePullRequestKeeps ==
  ASSUME ApplyInv, NEW r \in Requests, CreatePullRequest(r) PROVE ApplyInv'
<1> DEFINE a == apply[r]
           ops == session.ops
           x == [a EXCEPT !.pc = "find_again"]
<1>1. a.pc = "open" /\ session' = session /\ api' = api /\ branch' = branch
  BY DEF CreatePullRequest, Doing
<1>2. RequestOK(a, ops, branch, pr) /\ AllShown(ops, branch) /\ branch.made /\ a.result = "none"
  BY <1>1 DEF ApplyInv, RequestOK
<1>3. CASE pr' = "open" /\ \E result \in {"ok", "fault"} : End(r, result)
  <2> PICK result \in {"ok", "fault"} : End(r, result)
    BY <1>3
  <2>1. Advance(ops, branch, branch') /\ BranchOK(ops, branch')
    BY <1>1, StandsStill DEF ApplyInv
  <2>2. RequestOK(a, ops, branch', pr')
    BY <1>2, <1>3, <2>1, RequestAdvances
  <2>3. RequestOK(Ended(a, result), ops, branch', pr') /\ Ended(a, result).result = result
    <3>1. result \in Results /\ result # "refused" /\ a.pc # "idle" /\ pr' # "none"
      BY <1>1, <1>3 DEF Results
    <3> HIDE DEF a, ops
    <3> QED  BY <2>2, <3>1, EndedOK
  <2>4. apply' = [apply EXCEPT ![r] = Ended(a, result)]
    BY DEF End, Go, Ended
  <2>5. pr' # "none" => AllShown(ops, branch')
    BY <1>1, <1>2
  <2> QED  BY <1>1, <1>3, <2>1, <2>3, <2>4, <2>5, RequestSteps
<1>4. CASE GoTo(r, "find_again") /\ pr' = pr
  <2>1. a \in RequestType(ops) /\ a.ops = ops /\ ops # <<>> /\ a.next <= Len(ops)
    BY <1>1, <1>2 DEF RequestOK
  <2>2. x \in RequestType(ops) /\ x.pc = "find_again" /\ x.ops = ops /\ x.next = a.next /\ x.result = "none"
    BY <1>2, <2>1 DEF RequestType, ApplyPC
  <2>3. apply' = [apply EXCEPT ![r] = x]
    BY <1>4 DEF GoTo, Go
  <2> HIDE DEF x
  <2>4. RequestOK(x, ops, branch, pr)
    BY <1>2, <2>1, <2>2 DEF RequestOK
  <2> QED  BY <1>1, <1>4, <2>2, <2>3, <2>4, RequestGoes
<1>5. CASE End(r, "fault") /\ pr' = pr
  BY <1>1, <1>5, RequestFails
<1> QED  BY <1>3, <1>4, <1>5 DEF CreatePullRequest

(* The pull request GitFlame says is there.                                *)
LEMMA FindConflictingKeeps ==
  ASSUME ApplyInv, NEW r \in Requests, FindConflicting(r) PROVE ApplyInv'
<1>1. apply[r].pc = "find_again" /\ session' = session /\ api' = api /\ pr' = pr /\ branch' = branch
  BY DEF FindConflicting, Doing, OnlyApply
<1>2. CASE pr = "open" /\ End(r, "ok")
  BY <1>1, <1>2, RequestEnds DEF Results
<1>3. CASE End(r, "closed")
  BY <1>1, <1>3, RequestEnds DEF Results
<1>4. CASE End(r, "fault")
  BY <1>1, <1>4, RequestFails
<1> QED  BY <1>2, <1>3, <1>4 DEF FindConflicting

(* Users merge or close it.                                                *)
LEMMA ClosePullRequestKeeps ==
  ASSUME ApplyInv, ClosePullRequest PROVE ApplyInv'
<1>1. pr = "open" /\ pr' = "closed" /\ session' = session /\ api' = api /\ branch' = branch /\ apply' = apply
  BY DEF ClosePullRequest
<1>2. \A r \in Requests : RequestOK(apply'[r], session'.ops, branch', pr')
  BY <1>1, StandsStill, RequestAdvances DEF ApplyInv
<1> QED  BY <1>1, <1>2 DEF ApplyInv, SessionOK, Refusals

(* So every step of a request keeps the invariant.                         *)
LEMMA ApplyStepKeeps ==
  ASSUME ApplyInv, RepositoryOK, ApplyNext PROVE ApplyInv'
  BY BeginApplyKeeps, SaveOutcomeKeeps, StopRequestKeeps, CreateBranchKeeps, LookUpBranchKeeps, CommitKeeps,
     CreateFileKeeps, FetchFileSHAKeeps, PutFileKeeps, FindPullRequestKeeps, CreatePullRequestKeeps,
     FindConflictingKeeps, ClosePullRequestKeeps
  DEF ApplyNext, ApplyStep

-----------------------------------------------------------------------------
(* Around the requests *)

(* It holds at the start.                                                  *)
LEMMA ApplyInvInit == Init => ApplyInv
<1> SUFFICES ASSUME Init PROVE ApplyInv
  OBVIOUS
<1>1. session = [files |-> <<>>, ops |-> <<>>, status |-> "none"] /\ api \in Apis /\ pr = "none"
      /\ branch = [made |-> FALSE, from |-> repo, content |-> repo]
      /\ apply = [r \in Requests |-> IdleRequest]
  BY DEF Init, ApplyInit
<1>2. repo \in [Files -> 0..MaxHead] /\ repo \in [Files -> Contents]
  <2>1. repo = [f \in Files |-> IF f \in Initial THEN 1 ELSE Absent]
    BY DEF Init, FetchInit, RepositoryInit
  <2>2. 1 \in 0..MaxHead /\ Absent \in 0..MaxHead
    BY RepositoryAssumption DEF Absent
  <2> QED  BY <2>1, <2>2 DEF Contents
<1>3. BranchOK(session.ops, branch)
  BY <1>1, <1>2 DEF BranchOK, BranchType
<1>4. SessionOK
  <2>1. <<>> \in Seq(OperationAt(Files)) /\ Len(<<>>) = 0 /\ 1..0 = {}
    OBVIOUS
  <2> QED  BY <1>1, <2>1 DEF SessionOK, FilesRead, Acceptable
<1>5. \A r \in Requests : RequestOK(apply[r], session.ops, branch, pr) /\ apply[r].result # "refused"
  BY <1>1, IdleIsOK
<1> QED  BY <1>1, <1>3, <1>4, <1>5 DEF ApplyInv, Refusals

(* Before the reply is accepted no request has begun.                      *)
LEMMA NothingBegun ==
  ASSUME ApplyInv, session.ops = <<>>
  PROVE  \A r \in Requests : apply[r] = IdleRequest
  BY DEF ApplyInv, RequestOK

(* A reply is accepted: nothing was applied before.                        *)
LEMMA GenerateKeeps == ASSUME ApplyInv, Generate PROVE ApplyInv'
<1>1. PICK reply \in Replies : AcceptOperations(reply, session.files)
  BY DEF Generate
<1>2. session.ops = <<>> /\ session' = [session EXCEPT !.files = session.files, !.ops = AcceptedFiles(reply, session.files)]
  BY <1>1 DEF AcceptOperations
<1>3. api' = api /\ branch' = branch /\ pr' = pr /\ apply' = apply
  BY DEF Generate
<1> DEFINE ops == AcceptedFiles(reply, session.files)
<1>4. Acceptable(ops, session.files)
  BY AcceptedAreAcceptable
<1> HIDE DEF ops
<1>5. session'.files = session.files /\ session'.ops = ops /\ session'.status = session.status
      /\ session' \in [files : {session'.files}, ops : {session'.ops}, status : {"none", "applied", "failed"}]
  BY <1>2 DEF ApplyInv, SessionOK, ops
<1>6. ~branch.made /\ pr = "none" /\ session.status = "none"
  BY <1>2 DEF ApplyInv, SessionOK
<1>7. SessionOK'
  BY <1>3, <1>4, <1>5, <1>6 DEF ApplyInv, SessionOK
<1>8. BranchOK(ops, branch)
  BY <1>2, <1>6 DEF ApplyInv, BranchOK, Shown
<1>9. \A r \in Requests : RequestOK(apply[r], ops, branch, pr) /\ apply[r].result # "refused"
  BY <1>2, NothingBegun, IdleIsOK
<1> QED  BY <1>3, <1>5, <1>6, <1>7, <1>8, <1>9 DEF ApplyInv, Refusals

-----------------------------------------------------------------------------
(* What the invariant of the requests implies *)

(* The types of the requests.                                              *)
LEMMA ApplyTypes == ApplyInv => ApplyTypeOK
<1> SUFFICES ASSUME ApplyInv PROVE ApplyTypeOK
  OBVIOUS
<1>1. session.status \in {"none", "applied", "failed"} /\ api \in Apis /\ branch.made \in BOOLEAN
      /\ pr \in {"none", "open", "closed"}
  BY DEF ApplyInv, SessionOK, BranchOK, BranchType
<1>2. ASSUME NEW r \in Requests
      PROVE  /\ apply[r].pc \in ApplyPC /\ apply[r].existed \in BOOLEAN /\ apply[r].tries \in 0..2
             /\ apply[r].result \in {"none", "ok", "fault", "refused", "closed"}
             /\ apply[r].next \in 0..Len(apply[r].ops)
  <2>1. RequestOK(apply[r], session.ops, branch, pr) /\ Len(session.ops) \in Nat
    BY DEF ApplyInv, SessionOK, Acceptable
  <2>2. apply[r] \in RequestType(session.ops) /\ apply[r].next <= Len(apply[r].ops)
    BY <2>1 DEF RequestOK
  <2>3. Len(apply[r].ops) \in Nat /\ apply[r].next \in Nat
    BY <2>1, <2>2 DEF RequestType
  <2> QED  BY <2>2, <2>3 DEF RequestType, Results
<1> QED  BY <1>1, <1>2 DEF ApplyTypeOK

(* A pull request is there only with all operations shown, and then the    *)
(* branch is the fold of Written, file by file.                            *)
LEMMA Applied == ApplyInv => AppliedIsReal
<1> SUFFICES ASSUME ApplyInv, session.status = "applied"
             PROVE  pr # "none" /\ branch.content = FoldLeft(Written, branch.from, session.ops)
  BY DEF AppliedIsReal
<1> DEFINE ops == session.ops
           w == FoldLeft(Written, branch.from, ops)
<1>1. pr # "none" /\ AllShown(ops, branch) /\ Acceptable(ops, session.files) /\ BranchOK(ops, branch)
  BY DEF ApplyInv, SessionOK
<1>2. branch.from \in [Files -> 0..MaxHead] /\ branch.content \in [Files -> Contents]
  BY <1>1 DEF BranchOK, BranchType
<1>3. Len(ops) \in Nat /\ DOMAIN ops = 1..Len(ops) /\ Distinct(ops)
  BY <1>1 DEF Acceptable, Distinct
<1>4. \A i \in 1..Len(ops) : ops[i].path \in Files
  <2>1. \A i \in 1..Len(ops) : ops[i] \in OperationAt(Files)
    BY <1>1, ElementOfSeq DEF Acceptable
  <2> QED  BY <2>1 DEF OperationAt
<1>5. WrittenOf(w, Len(ops), <<branch.from, ops>>)
  BY <1>2, <1>3, <1>4, WrittenPointwise
<1> HIDE DEF w
<1>6. DOMAIN w = Files /\ (\A f \in Files : (\A k \in 1..Len(ops) : ops[k].path # f) => w[f] = branch.from[f])
      /\ \A k \in 1..Len(ops) : w[ops[k].path] = Target(ops[k])
  BY <1>2, <1>5 DEF WrittenOf
<1>7. w = [f \in Files |-> w[f]]
  BY <1>2, <1>5 DEF WrittenOf
<1>8. \A f \in Files : branch.content[f] = w[f]
  <2> SUFFICES ASSUME NEW f \in Files PROVE branch.content[f] = w[f]
    OBVIOUS
  <2>1. CASE \E k \in 1..Len(ops) : ops[k].path = f
    BY <1>1, <1>6, <2>1 DEF AllShown, Shown
  <2>2. CASE \A k \in 1..Len(ops) : ops[k].path # f
    BY <1>1, <1>6, <2>2 DEF BranchOK
  <2> QED  BY <2>1, <2>2
<1>9. branch.content = w
  BY <1>2, <1>7, <1>8
<1> QED  BY <1>1, <1>9 DEF w

(* Refusals keep their reasons.                                            *)
LEMMA Refused == ApplyInv => RefusedOnlyWhenDone
  BY DEF ApplyInv, Refusals, RefusedOnlyWhenDone, Visible, Shown, Moved

(* What is acceptable is applicable.                                       *)
LEMMA Accepted == ApplyInv => AcceptedIsApplicable
<1> SUFFICES ASSUME ApplyInv PROVE AcceptedIsApplicable
  OBVIOUS
<1>1. FilesRead(session.files) /\ Acceptable(session.ops, session.files)
  BY DEF ApplyInv, SessionOK
<1>2. DropNoopGeneratedFiles(session.ops, session.files) = session.ops
  BY <1>1, NothingDropped
<1>3. LET before == [f \in Files |-> ContentByPath(f, session.files)]
      IN  FoldLeft(Carry, [possible |-> TRUE, contents |-> before], session.ops).possible
  BY <1>1, AllCarried
<1> QED  BY <1>2, <1>3, Zenon DEF AcceptedIsApplicable

-----------------------------------------------------------------------------
(* The promise of PullRequest *)

changes == {session.ops[i].path : i \in 1..Len(session.ops)}
visible == {session.ops[i].path : i \in {j \in 1..Len(session.ops) : Visible(session.ops[j])}}
reported == session.status = "applied"

(* While the accepted operations stay as they are, and the branch advances,*)
(* what is visible stays visible.                                          *)
LEMMA ShownStays ==
  ASSUME session'.ops = session.ops, Advance(session.ops, branch, branch')
  PROVE  changes' = changes /\ visible \subseteq visible' /\ visible' \subseteq changes
  BY DEF changes, visible, Visible, Shown, Advance

(* A step that only shows more.                                            *)
LEMMA ShowIsKept ==
  ASSUME session' = session, Advance(session.ops, branch, branch'), pr' = pr
  PROVE  [Promise!Next]_Promise!vars
<1>1. changes' = changes /\ visible \subseteq visible' /\ visible' \subseteq changes /\ reported' = reported
  BY ShownStays DEF reported
<1>2. Promise!Show
  BY <1>1 DEF Promise!Show, changes, visible, reported
<1> QED  BY <1>2 DEF Promise!Next

(* Nothing is promised at the start.                                       *)
LEMMA InitPromise == Init => Promise!Init
  BY DEF Init, ApplyInit, Promise!Init

(* A step of the read, or of a user, is none of the promise.               *)
LEMMA FetchStepPromise == ASSUME UNCHANGED <<session, branch, pr>> PROVE [Promise!Next]_Promise!vars
<1>1. changes' = changes /\ visible' = visible /\ reported' = reported
  BY DEF changes, visible, reported, Visible
<1> QED  BY <1>1 DEF Promise!vars, changes, visible, reported

(* Neither is the request's beginning.                                     *)
LEMMA AnalyzePromise == ASSUME ApplyInv, Analyze PROVE [Promise!Next]_Promise!vars
<1>1. session'.ops = session.ops /\ session'.status = session.status /\ branch' = branch /\ pr' = pr
  BY DEF Analyze, ApplyInv, SessionOK
<1>2. changes' = changes /\ visible' = visible /\ reported' = reported
  BY <1>1 DEF changes, visible, reported, Visible
<1> QED  BY <1>1, <1>2 DEF Promise!vars, changes, visible, reported

(* Accepting a reply is Accept, before anything is visible.                *)
LEMMA GeneratePromise == ASSUME ApplyInv, Generate PROVE [Promise!Next]_Promise!vars
<1>1. PICK reply \in Replies : AcceptOperations(reply, session.files)
  BY DEF Generate
<1>2. session.ops = <<>> /\ session' = [session EXCEPT !.files = session.files, !.ops = AcceptedFiles(reply, session.files)]
  BY <1>1 DEF AcceptOperations
<1>3. branch' = branch /\ pr' = pr /\ session'.status = session.status
  BY <1>2 DEF Generate, ApplyInv, SessionOK
<1>4. ~branch.made /\ Len(session.ops) = 0
  BY <1>2 DEF ApplyInv, SessionOK
<1>5. changes = {} /\ visible = {} /\ visible' = {} /\ reported' = reported
  BY <1>3, <1>4 DEF changes, visible, Visible, reported
<1>6. CASE changes' = {}
  BY <1>3, <1>5, <1>6 DEF Promise!vars, changes, visible, reported
<1>7. CASE changes' # {}
  <2>1. Promise!Accept
    BY <1>3, <1>5, <1>7 DEF Promise!Accept, changes, visible, reported
  <2> QED  BY <2>1 DEF Promise!Next
<1> QED  BY <1>6, <1>7

(* The steps of the requests: what a step that leaves the branch and the   *)
(* pull request alone may do, and the others.                              *)
LEMMA ClosePromise == ASSUME ClosePullRequest PROVE [Promise!Next]_Promise!vars
<1>1. changes' = changes /\ visible' = visible /\ reported' = reported
  BY DEF ClosePullRequest, changes, visible, reported, Visible
<1>2. Promise!Close
  BY <1>1 DEF ClosePullRequest, Promise!Close, changes, visible, reported
<1> QED  BY <1>2 DEF Promise!Next

(* The status of the row is Report or Retract.                             *)
LEMMA StatusPromise ==
  ASSUME ApplyInv, session'.ops = session.ops, branch' = branch, pr' = pr,
         session'.status = "applied" => pr # "none"
  PROVE  [Promise!Next]_Promise!vars
<1>1. changes' = changes /\ visible' = visible
  BY DEF changes, visible, Visible
<1>2. CASE reported'
  <2>1. reported' = TRUE /\ pr # "none"
    BY <1>2 DEF reported
  <2>2. Promise!Report
    BY <1>1, <2>1 DEF Promise!Report, changes, visible, reported
  <2> QED  BY <2>2 DEF Promise!Next
<1>3. CASE ~reported'
  <2>1. reported' = FALSE
    BY <1>3 DEF reported
  <2>2. Promise!Retract
    BY <1>1, <2>1 DEF Promise!Retract, changes, visible, reported
  <2> QED  BY <2>2 DEF Promise!Next
<1> QED  BY <1>2, <1>3

(* Opening the pull request is Open: all changes are visible by then.      *)
LEMMA CreatePullRequestPromise ==
  ASSUME ApplyInv, NEW r \in Requests, CreatePullRequest(r) PROVE [Promise!Next]_Promise!vars
<1>1. session' = session /\ branch' = branch /\ Doing(r, "open")
  BY DEF CreatePullRequest
<1>2. CASE pr' = pr
  BY <1>1, <1>2, FetchStepPromise
<1>3. CASE pr # "open" /\ pr' = "open"
  <2>1. session.ops # <<>> /\ AllShown(session.ops, branch) /\ Len(session.ops) \in Nat
    BY <1>1 DEF Doing, ApplyInv, RequestOK, SessionOK, Acceptable
  <2>2. 1 \in 1..Len(session.ops)
    BY <2>1 DEF ApplyInv, SessionOK, Acceptable
  <2>3. changes # {} /\ visible = changes
    BY <2>1, <2>2 DEF changes, visible, Visible, AllShown, Shown
  <2>4. changes' = changes /\ visible' = visible /\ reported' = reported
    BY <1>1 DEF changes, visible, reported, Visible
  <2>5. Promise!Open
    BY <1>3, <2>3, <2>4 DEF Promise!Open, changes, visible, reported
  <2> QED  BY <2>5 DEF Promise!Next
<1> QED  BY <1>2, <1>3 DEF CreatePullRequest

(* Making the branch is Show: it may show a change users made already.     *)
LEMMA CreateBranchPromise ==
  ASSUME ApplyInv, RepositoryOK, NEW r \in Requests, CreateBranch(r) PROVE [Promise!Next]_Promise!vars
<1>1. session' = session /\ pr' = pr
  BY DEF CreateBranch, OnlyBranch
<1>2. Advance(session.ops, branch, branch')
  BY StandsStill DEF CreateBranch, Advance, Shown
<1> QED  BY <1>1, <1>2, ShowIsKept

(* The commit is Show.                                                     *)
LEMMA CommitPromise ==
  ASSUME ApplyInv, NEW r \in Requests, Commit(r) PROVE [Promise!Next]_Promise!vars
<1>1. session' = session /\ pr' = pr
  BY DEF Commit, OnlyBranch
<1>2. apply[r].ops = session.ops /\ branch.made /\ Acceptable(session.ops, session.files) /\ BranchOK(session.ops, branch)
  BY DEF Commit, Doing, ApplyInv, RequestOK, SessionOK
<1>3. branch' = branch \/ branch' = [branch EXCEPT !.content = FoldLeft(Written, @, session.ops)]
  BY <1>2, Zenon DEF Commit
<1>4. Advance(session.ops, branch, branch')
  BY <1>2, <1>3, CommitAdvances, StandsStill
<1> QED  BY <1>1, <1>4, ShowIsKept

(* A file is Show.                                                         *)
LEMMA FilePromise ==
  ASSUME ApplyInv, NEW r \in Requests, CreateFile(r) \/ PutFile(r) PROVE [Promise!Next]_Promise!vars
<1>1. session' = session /\ pr' = pr /\ apply[r].pc \in {"create", "sha", "put"}
  BY DEF CreateFile, PutFile, OnlyBranch, Doing
<1>2. branch.made /\ apply[r].next \in 1..Len(session.ops) /\ Operation(r) = session.ops[apply[r].next]
      /\ Acceptable(session.ops, session.files) /\ BranchOK(session.ops, branch)
  BY <1>1, AtFile
<1>3. branch' = branch \/ branch' = [branch EXCEPT !.content = Written(@, session.ops[apply[r].next])]
  BY <1>2 DEF CreateFile, PutFile, WriteFile
<1>4. Advance(session.ops, branch, branch')
  BY <1>2, <1>3, WriteAdvances, StandsStill
<1> QED  BY <1>1, <1>4, ShowIsKept

(* A request that begins may only set the row to failed.                   *)
LEMMA BeginApplyPromise ==
  ASSUME ApplyInv, NEW r \in Requests, BeginApply(r) PROVE [Promise!Next]_Promise!vars
<1>1. branch' = branch /\ pr' = pr
  BY DEF BeginApply
<1>2. session' = session \/ session' = [session EXCEPT !.status = "failed"]
  BY Zenon DEF BeginApply
<1>3. session'.ops = session.ops /\ (session'.status = "applied" => pr # "none")
  BY <1>2 DEF ApplyInv, SessionOK
<1> QED  BY <1>1, <1>3, StatusPromise

(* A request that ends with ok has seen the pull request.                  *)
LEMMA SaveOutcomePromise ==
  ASSUME ApplyInv, NEW r \in Requests, SaveOutcome(r) PROVE [Promise!Next]_Promise!vars
<1>1. branch' = branch /\ pr' = pr
  BY DEF SaveOutcome
<1>2. session' = session \/ session' = [session EXCEPT !.status = IF apply[r].result = "ok" THEN "applied" ELSE "failed"]
  BY DEF SaveOutcome
<1>3. apply[r].result = "ok" => pr # "none"
  BY DEF ApplyInv, RequestOK
<1>4. session'.ops = session.ops /\ (session'.status = "applied" => pr # "none")
  BY <1>2, <1>3 DEF ApplyInv, SessionOK
<1> QED  BY <1>1, <1>4, StatusPromise

(* So every step of a request is a step of the promise.                    *)
LEMMA ApplyPromise == ASSUME ApplyInv, RepositoryOK, ApplyNext PROVE [Promise!Next]_Promise!vars
<1>1. ASSUME NEW r \in Requests,
             StopRequest(r) \/ LookUpBranch(r) \/ FetchFileSHA(r) \/ FindPullRequest(r) \/ FindConflicting(r)
      PROVE  UNCHANGED <<session, branch, pr>>
  BY <1>1 DEF StopRequest, LookUpBranch, FetchFileSHA, FindPullRequest, FindConflicting, OnlyApply
<1> QED  BY <1>1, ClosePromise, FetchStepPromise, BeginApplyPromise, SaveOutcomePromise, CreateBranchPromise,
            CommitPromise, FilePromise, CreatePullRequestPromise
         DEF ApplyNext, ApplyStep

-----------------------------------------------------------------------------
(* Paths *)

Paths == Seq(STRING)

(* Strict prefixes, element by element.                                    *)
LEMMA StrictPrefix ==
  ASSUME NEW d \in Paths, NEW f \in Paths
  PROVE  IsStrictPrefix(d, f) <=> Len(d) < Len(f) /\ \A i \in 1..Len(d) : d[i] = f[i]
<1>1. ASSUME Len(d) <= Len(f)
      PROVE  (SubSeq(d, 1, Len(d)) = SubSeq(f, 1, Len(d))) <=> \A i \in 1..Len(d) : d[i] = f[i]
  <2>1. SubSeq(d, 1, Len(d)) = d
    BY SubSeqFull DEF Paths
  <2>2. SubSeq(f, 1, Len(d)) \in Paths /\ Len(SubSeq(f, 1, Len(d))) = Len(d)
        /\ \A i \in 1..Len(d) : SubSeq(f, 1, Len(d))[i] = f[i]
    BY <1>1, SubSeqProperties DEF Paths
  <2> QED  BY <2>1, <2>2, SeqEqual DEF Paths
<1>2. IsPrefix(d, f) <=> Len(d) <= Len(f) /\ \A i \in 1..Len(d) : d[i] = f[i]
  BY <1>1 DEF IsPrefix
<1>3. ASSUME Len(d) = Len(f), \A i \in 1..Len(d) : d[i] = f[i] PROVE d = f
  BY <1>3, SeqEqual DEF Paths
<1>4. Len(d) \in Nat /\ Len(f) \in Nat
  BY DEF Paths
<1> QED  BY <1>2, <1>3, <1>4 DEF IsStrictPrefix

(* The entry of a directory through which a file below it is reached.      *)
Entry(dir, f) == SubSeq(f, 1, Len(dir) + 1)

(* The entry is one name longer than the directory, and is the file or     *)
(* leads to it.                                                            *)
LEMMA EntryOf ==
  ASSUME NEW d \in Paths, NEW f \in Paths, IsStrictPrefix(d, f)
  PROVE  /\ Entry(d, f) \in Paths \ {<<>>} /\ Len(Entry(d, f)) = Len(d) + 1
         /\ Front(Entry(d, f)) = d
         /\ Entry(d, f) = f \/ IsStrictPrefix(Entry(d, f), f)
<1> DEFINE e == Entry(d, f)
<1>1. Len(d) \in Nat /\ Len(f) \in Nat /\ Len(d) < Len(f) /\ \A i \in 1..Len(d) : d[i] = f[i]
  BY StrictPrefix DEF Paths
<1>2. e \in Paths /\ Len(e) = Len(d) + 1 /\ \A i \in 1..Len(d)+1 : e[i] = f[i]
  BY <1>1, SubSeqProperties DEF Paths, Entry
<1> HIDE DEF e
<1>3. e # <<>>
  BY <1>1, <1>2
<1>4. Front(e) = d
  <2>1. SubSeq(e, 1, Len(d)) \in Paths /\ Len(SubSeq(e, 1, Len(d))) = Len(d)
        /\ \A i \in 1..Len(d) : SubSeq(e, 1, Len(d))[i] = e[i]
    BY <1>1, <1>2, SubSeqProperties DEF Paths
  <2>2. SubSeq(e, 1, Len(d)) = d
    BY <1>1, <1>2, <2>1, SeqEqual DEF Paths
  <2>3. Len(e) - 1 = Len(d)
    BY <1>1, <1>2
  <2> QED  BY <2>2, <2>3 DEF Front
<1>5. e = f \/ IsStrictPrefix(e, f)
  <2>1. CASE Len(e) = Len(f)
    BY <1>1, <1>2, <2>1, SeqEqual DEF Paths
  <2>2. CASE Len(e) # Len(f)
    BY <1>1, <1>2, <2>2, StrictPrefix
  <2> QED  BY <2>1, <2>2
<1> QED  BY <1>2, <1>3, <1>4, <1>5 DEF e

(* Files are paths of at least one name,                                   *)
LEMMA FilePaths == Files \subseteq Paths \ {<<>>}
  BY FetchAssumption DEF Paths

(* so the root leads to all of them.                                       *)
LEMMA EmptyIsPrefix == \A f \in Files : IsStrictPrefix(<<>>, f)
<1> SUFFICES ASSUME NEW f \in Files PROVE IsStrictPrefix(<<>>, f)
  OBVIOUS
<1>1. f \in Paths /\ f # <<>> /\ <<>> \in Paths /\ Len(<<>>) = 0
  BY FilePaths DEF Paths
<1>2. Len(f) > 0
  BY <1>1 DEF Paths
<1> QED  BY <1>1, <1>2, StrictPrefix

-----------------------------------------------------------------------------
(* The entries of a directory, each once *)

SetOf(s) == {s[i] : i \in 1..Len(s)}

(* A finite set as a sequence.                                             *)
LEMMA SetInSequence ==
  ASSUME NEW S, IsFiniteSet(S)
  PROVE  SetToSeq(S) \in Seq(S) /\ SetOf(SetToSeq(S)) = S
<1> DEFINE n == Cardinality(S)
           f == SetToSeq(S)
<1>1. n \in Nat /\ ExistsBijection(1..n, S)
  BY FS_CardinalityType
<1>2. \E g \in [1..n -> S] : IsInjective(g)
  BY <1>1 DEF ExistsBijection, Bijection, Injection
<1>3. f \in [1..n -> S] /\ IsInjective(f)
  BY <1>2 DEF SetToSeq
<1> HIDE DEF f
<1>4. IsFiniteSet(1..n) /\ Cardinality(1..n) = n
  BY <1>1, FS_Interval
<1>5. f \in Surjection(1..n, S)
  BY <1>3, <1>4, FS_Injection DEF Injection
<1>6. f \in Seq(S) /\ Len(f) = n
  BY <1>1, <1>3
<1>7. SetOf(f) = S
  BY <1>3, <1>5, <1>6 DEF Surjection, SetOf
<1> QED  BY <1>6, <1>7 DEF f

EntriesOf(dir, present) == {Entry(dir, f) : f \in {g \in Files : present[g] # Absent /\ IsStrictPrefix(dir, g)}}

(* The listing has the entries, and nothing else.                          *)
LEMMA ListingOf ==
  ASSUME NEW dir \in Paths
  PROVE  Listing(dir) \in Seq(EntriesOf(dir, repo)) /\ SetOf(Listing(dir)) = EntriesOf(dir, repo)
<1> DEFINE U == Under(dir)
           S == EntriesOf(dir, repo)
           g == [f \in U |-> Entry(dir, f)]
<1>1. U \in SUBSET Files /\ IsFiniteSet(Files) /\ S = {Entry(dir, f) : f \in U}
  BY FetchAssumption DEF Under, Present, EntriesOf
<1>2. IsFiniteSet(U)
  BY <1>1, FS_Subset
<1>3. g \in Surjection(U, S)
  BY <1>1 DEF Surjection
<1>4. IsFiniteSet(S)
  BY <1>2, <1>3, FS_Surjection
<1>5. Listing(dir) = SetToSeq(S)
  BY <1>1 DEF Listing, Entry
<1> QED  BY <1>4, <1>5, SetInSequence

(* GitFlame's answer: the entries, once or twice.                          *)
LEMMA AnswerOf ==
  ASSUME NEW dir \in Paths, NEW answer \in {Listing(dir), Listing(dir) \o Listing(dir)}
  PROVE  answer \in Seq(EntriesOf(dir, repo)) /\ SetOf(answer) = EntriesOf(dir, repo)
<1> DEFINE s == Listing(dir)
           S == EntriesOf(dir, repo)
<1>1. s \in Seq(S) /\ SetOf(s) = S
  BY ListingOf
<1> HIDE DEF s, S
<1>2. CASE answer = s \o s
  <2>1. s \o s \in Seq(S) /\ Len(s) \in Nat /\ Len(s \o s) = Len(s) + Len(s)
        /\ \A i \in 1..Len(s) : (s \o s)[i] = s[i]
    BY <1>1, ConcatProperties
  <2>2. \A i \in 1..Len(s) : i \in 1..Len(s \o s)
    BY <2>1
  <2>3. \A i \in 1..Len(s \o s) : (s \o s)[i] \in S
    BY <2>1, ElementOfSeq
  <2>4. SetOf(s \o s) = S
    BY <1>1, <2>1, <2>2, <2>3 DEF SetOf
  <2> QED  BY <1>2, <2>1, <2>4 DEF S
<1>3. CASE answer = s
  BY <1>1, <1>3 DEF S
<1> QED  BY <1>2, <1>3 DEF s

-----------------------------------------------------------------------------
(* The walk over the tree *)

Entries == [path : Paths \ {<<>>}, listed : Nat]
DistinctPaths(s) == \A i, j \in 1..Len(s) : s[i].path = s[j].path => i = j
DistinctElements(s) == \A i, j \in 1..Len(s) : s[i] = s[j] => i = j
PathsOf(s) == {s[i].path : i \in 1..Len(s)}

(* What the tree says of a file: it was there, and is not older than what  *)
(* is there now.                                                           *)
ListedWell(entry, present, newest) ==
    entry.path \in Files =>
        /\ entry.listed \in 1..newest
        /\ present[entry.path] = Absent \/ entry.listed <= present[entry.path]

TreeOK(seen, tree, present, newest) ==
    /\ tree \in Seq(Entries)
    /\ DistinctPaths(tree) /\ PathsOf(tree) = seen
    /\ \A i \in 1..Len(tree) : ListedWell(tree[i], present, newest)

DirsOK(seen, dirs) ==
    /\ dirs \in Seq(Paths) /\ DistinctElements(dirs)
    /\ \A d \in SetOf(dirs) : d = <<>> \/ d \in seen
    /\ \A e \in seen : Front(e) = <<>> \/ Front(e) \in seen
    /\ \A e \in seen : Front(e) \notin SetOf(dirs)

(* A file that has not changed since the read began is found, or will be.  *)
Covered(seen, dirs, present, since) ==
    \A f \in Files : present[f] \in 1..since => f \in seen \/ \E d \in SetOf(dirs) : IsStrictPrefix(d, f)

WalkOK(seen, dirs, tree, present, newest, since) ==
    TreeOK(seen, tree, present, newest) /\ DirsOK(seen, dirs) /\ Covered(seen, dirs, present, since)

(* The walk begins at the root, with nothing seen.                         *)
LEMMA WalkBegins ==
  ASSUME NEW present, NEW newest, NEW since
  PROVE  WalkOK({}, << <<>> >>, <<>>, present, newest, since)
<1> DEFINE dirs == << <<>> >>
<1>0. Len(dirs) = 1 /\ dirs[1] = <<>> /\ <<>> \in Paths /\ 1..1 = {1}
  BY DEF Paths
<1>1. dirs \in Seq(Paths) /\ SetOf(dirs) = {<<>>} /\ DistinctElements(dirs)
  BY <1>0 DEF SetOf, DistinctElements
<1>2. <<>> \in Seq(Entries) /\ Len(<<>>) = 0 /\ 1..0 = {}
  OBVIOUS
<1> HIDE DEF dirs
<1>3. TreeOK({}, <<>>, present, newest)
  BY <1>2 DEF TreeOK, DistinctPaths, PathsOf
<1>4. Covered({}, dirs, present, since)
  BY <1>1, EmptyIsPrefix DEF Covered
<1> QED  BY <1>1, <1>3, <1>4 DEF WalkOK, DirsOK, dirs

-----------------------------------------------------------------------------
(* One listing *)

(* After the first m entries of an answer.                                 *)
Visited(v, m, c) ==
    /\ v.seen = c[1].seen \cup {c[2][k] : k \in 1..m}
    /\ TreeOK(v.seen, v.tree, repo, head)
    /\ v.dirs \in Seq(Paths) /\ DistinctElements(v.dirs)
    /\ SetOf(v.dirs) = SetOf(c[1].dirs) \cup ({c[2][k] : k \in 1..m} \ (Files \cup c[1].seen))

Visits == INSTANCE SequenceFolds WITH op <- Visit, Inv <- Visited

(* The loop over an answer is a fold.                                      *)
LEMMA VisitsAreFold ==
  ASSUME NEW found, NEW answer PROVE FoldLeft(Visit, found, answer) = Visits!Fold(found, answer)
  BY Zenon DEF Visits!Fold, FoldLeft, Visits!FoldLeft, MapThenFoldSet, Visits!MapThenFoldSet, Max, Visits!Max

(* One more element at the end.                                            *)
LEMMA AppendSet ==
  ASSUME NEW S, NEW s \in Seq(S), NEW e \in S
  PROVE  /\ Append(s, e) \in Seq(S) /\ SetOf(Append(s, e)) = SetOf(s) \cup {e}
         /\ DistinctElements(s) /\ e \notin SetOf(s) => DistinctElements(Append(s, e))
<1> DEFINE t == Append(s, e)
           n == Len(s)
<1>1. n \in Nat /\ t \in Seq(S) /\ Len(t) = n + 1 /\ t[n+1] = e /\ \A i \in 1..n : t[i] = s[i]
  BY AppendProperties
<1>2. 1..n+1 = (1..n) \cup {n+1} /\ n + 1 \notin 1..n
  BY <1>1
<1> HIDE DEF t, n
<1>3. SetOf(t) = SetOf(s) \cup {e}
  BY <1>1, <1>2 DEF SetOf, n
<1>4. ASSUME DistinctElements(s), e \notin SetOf(s) PROVE DistinctElements(t)
  <2>1. \A i \in 1..n : s[i] # e
    BY <1>4 DEF SetOf, n
  <2>2. \A i, j \in 1..n : s[i] = s[j] => i = j
    BY <1>4 DEF DistinctElements, n
  <2>3. \A i, j \in 1..n+1 : t[i] = t[j] => i = j
    BY <1>1, <1>2, <2>1, <2>2
  <2> QED  BY <1>1, <2>3 DEF DistinctElements
<1> QED  BY <1>1, <1>3, <1>4 DEF t

(* A new entry in the tree.                                                *)
LEMMA AppendEntry ==
  ASSUME NEW seen, NEW tree, NEW present, NEW newest, TreeOK(seen, tree, present, newest),
         NEW entry \in Entries, entry.path \notin seen, ListedWell(entry, present, newest)
  PROVE  TreeOK(seen \cup {entry.path}, Append(tree, entry), present, newest)
<1> DEFINE t == Append(tree, entry)
           n == Len(tree)
<1>0. tree \in Seq(Entries) /\ DistinctPaths(tree) /\ PathsOf(tree) = seen
      /\ \A i \in 1..n : ListedWell(tree[i], present, newest)
  BY DEF TreeOK
<1>1. n \in Nat /\ t \in Seq(Entries) /\ Len(t) = n + 1 /\ t[n+1] = entry /\ \A i \in 1..n : t[i] = tree[i]
  BY <1>0, AppendProperties
<1>2. 1..n+1 = (1..n) \cup {n+1} /\ n + 1 \notin 1..n
  BY <1>1
<1> HIDE DEF t, n
<1>3. PathsOf(t) = seen \cup {entry.path}
  BY <1>0, <1>1, <1>2 DEF PathsOf, n
<1>4. DistinctPaths(t)
  <2>1. \A i \in 1..n : tree[i].path # entry.path
    BY <1>0 DEF PathsOf, n
  <2>2. \A i, j \in 1..n : tree[i].path = tree[j].path => i = j
    BY <1>0 DEF DistinctPaths, n
  <2>3. \A i, j \in 1..n+1 : t[i].path = t[j].path => i = j
    BY <1>1, <1>2, <2>1, <2>2
  <2> QED  BY <1>1, <2>3 DEF DistinctPaths
<1>5. \A i \in 1..n+1 : ListedWell(t[i], present, newest)
  BY <1>0, <1>1, <1>2
<1> QED  BY <1>1, <1>3, <1>4, <1>5 DEF TreeOK, t

(* The next entry of the answer.                                           *)
LEMMA VisitEntry ==
  ASSUME RepositoryOK, NEW found, NEW answer, NEW m \in Nat, NEW v, Visited(v, m, <<found, answer>>),
         NEW entry \in Paths \ {<<>>}, entry = answer[m+1], entry \in Files => Present(entry),
         \A d \in SetOf(found.dirs) : d = <<>> \/ d \in found.seen
  PROVE  Visited(Visit(v, entry), m+1, <<found, answer>>)
<1> DEFINE before == {answer[k] : k \in 1..m}
           after == {answer[k] : k \in 1..m+1}
           item == [path |-> entry, listed |-> IF entry \in Files THEN repo[entry] ELSE 0]
           w == [seen |-> v.seen \cup {entry},
                 dirs |-> IF entry \in Files THEN v.dirs ELSE Append(v.dirs, entry),
                 tree |-> Append(v.tree, item)]
<1>1. 1..m+1 = (1..m) \cup {m+1}
  OBVIOUS
<1>2. after = before \cup {entry}
  BY <1>1
<1> HIDE DEF before, after
<1>3. /\ v.seen = found.seen \cup before /\ TreeOK(v.seen, v.tree, repo, head)
      /\ v.dirs \in Seq(Paths) /\ DistinctElements(v.dirs)
      /\ SetOf(v.dirs) = SetOf(found.dirs) \cup (before \ (Files \cup found.seen))
  BY DEF Visited, before
<1>4. ASSUME NEW x, x.seen = found.seen \cup after, TreeOK(x.seen, x.tree, repo, head),
             x.dirs \in Seq(Paths), DistinctElements(x.dirs),
             SetOf(x.dirs) = SetOf(found.dirs) \cup (after \ (Files \cup found.seen))
      PROVE  Visited(x, m+1, <<found, answer>>)
  BY <1>4 DEF Visited, after
<1>5. CASE entry \in v.seen
  <2>1. Visit(v, entry) = v
    BY <1>5 DEF Visit
  <2>2. v.seen = found.seen \cup after
    BY <1>2, <1>3, <1>5
  <2>3. SetOf(v.dirs) = SetOf(found.dirs) \cup (after \ (Files \cup found.seen))
    BY <1>2, <1>3, <1>5
  <2> QED  BY <1>3, <1>4, <2>1, <2>2, <2>3
<1>6. CASE entry \notin v.seen
  <2>1. Visit(v, entry) = w
    BY <1>6 DEF Visit
  <2>2. item \in Entries /\ item.path = entry
    BY DEF Entries, RepositoryOK
  <2>3. ListedWell(item, repo, head)
    BY DEF ListedWell, RepositoryOK, Present, Absent
  <2> HIDE DEF item
  <2>4. w.seen = v.seen \cup {entry} /\ w.tree = Append(v.tree, item)
        /\ w.dirs = IF entry \in Files THEN v.dirs ELSE Append(v.dirs, entry)
    OBVIOUS
  <2> HIDE DEF w
  <2>5. TreeOK(w.seen, w.tree, repo, head)
    BY <1>3, <1>6, <2>2, <2>3, <2>4, AppendEntry
  <2>6. w.seen = found.seen \cup after
    BY <1>2, <1>3, <2>4
  <2>7. entry \notin SetOf(v.dirs)
    BY <1>3, <1>6
  <2>8. w.dirs \in Seq(Paths) /\ DistinctElements(w.dirs)
        /\ SetOf(w.dirs) = SetOf(found.dirs) \cup (after \ (Files \cup found.seen))
    <3>1. CASE entry \in Files
      BY <1>2, <1>3, <2>4, <3>1
    <3>2. CASE entry \notin Files
      <4>1. w.dirs \in Seq(Paths) /\ DistinctElements(w.dirs) /\ SetOf(w.dirs) = SetOf(v.dirs) \cup {entry}
        BY <1>3, <2>4, <2>7, <3>2, AppendSet
      <4>2. entry \notin found.seen
        BY <1>3, <1>6
      <4> QED  BY <1>2, <1>3, <3>2, <4>1, <4>2
    <3> QED  BY <3>1, <3>2
  <2> QED  BY <1>4, <2>1, <2>5, <2>6, <2>8
<1> QED  BY <1>5, <1>6

(* After the loop: all entries are seen, those that are new are in the     *)
(* tree, and the directories among them wait.                              *)
LEMMA VisitAll ==
  ASSUME RepositoryOK, NEW found, NEW answer \in Seq(Paths \ {<<>>}),
         \A e \in SetOf(answer) : e \in Files => Present(e),
         \A d \in SetOf(found.dirs) : d = <<>> \/ d \in found.seen,
         TreeOK(found.seen, found.tree, repo, head), found.dirs \in Seq(Paths), DistinctElements(found.dirs)
  PROVE  LET next == FoldLeft(Visit, found, answer)
         IN  /\ next.seen = found.seen \cup SetOf(answer)
             /\ TreeOK(next.seen, next.tree, repo, head)
             /\ next.dirs \in Seq(Paths) /\ DistinctElements(next.dirs)
             /\ SetOf(next.dirs) = SetOf(found.dirs) \cup (SetOf(answer) \ (Files \cup found.seen))
<1> DEFINE n == Len(answer)
           c == <<found, answer>>
           next == FoldLeft(Visit, found, answer)
<1>1. Visited(found, 0, c)
  BY DEF Visited
<1>2. \A m \in 0..n-1 : \A v : Visited(v, m, c) => Visited(Visit(v, answer[m+1]), m+1, c)
  <2> SUFFICES ASSUME NEW m \in 0..n-1, NEW v, Visited(v, m, c) PROVE Visited(Visit(v, answer[m+1]), m+1, c)
    OBVIOUS
  <2>1. m + 1 \in 1..n /\ m \in Nat
    OBVIOUS
  <2>2. answer[m+1] \in Paths \ {<<>>} /\ answer[m+1] \in SetOf(answer)
    BY <2>1, ElementOfSeq DEF SetOf
  <2> QED  BY <2>1, <2>2, VisitEntry
<1>3. DOMAIN answer = 1..n /\ n \in Nat
  OBVIOUS
<1> HIDE DEF n, c
<1>4. Visited(Visits!Fold(found, answer), n, c)
  BY <1>1, <1>2, <1>3, Visits!FoldInvariant
<1>5. Visited(next, n, c)
  BY <1>4, VisitsAreFold
<1> HIDE DEF next
<1>6. /\ next.seen = found.seen \cup SetOf(answer)
      /\ TreeOK(next.seen, next.tree, repo, head)
      /\ next.dirs \in Seq(Paths) /\ DistinctElements(next.dirs)
      /\ SetOf(next.dirs) = SetOf(found.dirs) \cup (SetOf(answer) \ (Files \cup found.seen))
  BY <1>5 DEF Visited, n, c, SetOf
<1> QED  BY <1>6, Zenon DEF next

(* The first directory d is left, with what its entries are.               *)
LEMMA WalkGoesOn ==
  ASSUME NEW present, NEW since \in Nat, NEW seen, NEW dirs, dirs # <<>>, DirsOK(seen, dirs),
         Covered(seen, dirs, present, since),
         NEW S, S = EntriesOf(Head(dirs), present),
         NEW dirs2 \in Seq(Paths), DistinctElements(dirs2),
         SetOf(dirs2) = SetOf(Tail(dirs)) \cup (S \ (Files \cup seen))
  PROVE  DirsOK(seen \cup S, dirs2) /\ Covered(seen \cup S, dirs2, present, since)
<1> DEFINE d == Head(dirs)
           rest == SetOf(Tail(dirs))
           seen2 == seen \cup S
<1>1. d \in Paths /\ SetOf(dirs) = rest \cup {d} /\ d \notin rest
  <2>1. dirs \in Seq(Paths) /\ Len(dirs) \in Nat /\ Len(dirs) >= 1 /\ d = dirs[1] /\ d \in Paths
    BY DEF DirsOK
  <2>2. Len(Tail(dirs)) = Len(dirs) - 1 /\ \A i \in 1..Len(Tail(dirs)) : Tail(dirs)[i] = dirs[i+1]
    BY <2>1, HeadTailProperties
  <2>3. 1 \in 1..Len(dirs) /\ (\A i \in 1..Len(Tail(dirs)) : i + 1 \in 1..Len(dirs) /\ i + 1 # 1)
        /\ \A i \in 1..Len(dirs) : i = 1 \/ (i - 1 \in 1..Len(Tail(dirs)) /\ (i - 1) + 1 = i)
    BY <2>1, <2>2
  <2> HIDE DEF d
  <2>4. SetOf(dirs) = rest \cup {d}
    <3>1. \A i \in 1..Len(dirs) : dirs[i] \in rest \cup {d}
      <4> SUFFICES ASSUME NEW i \in 1..Len(dirs) PROVE dirs[i] \in rest \cup {d}
        OBVIOUS
      <4>1. CASE i = 1
        BY <2>1, <4>1
      <4>2. CASE i - 1 \in 1..Len(Tail(dirs)) /\ (i - 1) + 1 = i
        <5>1. dirs[i] = Tail(dirs)[i-1]
          BY <2>2, <4>2
        <5> QED  BY <4>2, <5>1 DEF SetOf
      <4> QED  BY <2>3, <4>1, <4>2
    <3>2. \A x \in rest \cup {d} : \E i \in 1..Len(dirs) : x = dirs[i]
      BY <2>1, <2>2, <2>3 DEF SetOf
    <3> HIDE DEF rest
    <3> QED  BY <3>1, <3>2 DEF SetOf
  <2>5. d \notin rest
    BY <2>1, <2>2, <2>3 DEF SetOf, DirsOK, DistinctElements
  <2> QED  BY <2>1, <2>4, <2>5
<1>2. \A e \in S : \E f \in Files : present[f] # Absent /\ IsStrictPrefix(d, f) /\ e = Entry(d, f)
  BY DEF EntriesOf
<1> HIDE DEF d, rest
<1>3. \A e \in S : e \in Paths \ {<<>>} /\ Len(e) = Len(d) + 1 /\ Front(e) = d
  BY <1>1, <1>2, EntryOf, FilePaths
<1>4. \A x \in SetOf(dirs) : x = <<>> \/ x \in seen
  BY DEF DirsOK
<1>5. (\A e \in seen : Front(e) = <<>> \/ Front(e) \in seen) /\ \A e \in seen : Front(e) \notin SetOf(dirs)
  BY DEF DirsOK
<1>6. \A x \in SetOf(dirs2) : x \in rest \/ (x \in S /\ x \notin Files /\ x \notin seen)
  BY DEF rest
<1>7. \A x \in SetOf(dirs2) : x = <<>> \/ x \in seen2
  BY <1>1, <1>4, <1>6
<1>8. \A e \in seen2 : Front(e) = <<>> \/ Front(e) \in seen2
  BY <1>1, <1>3, <1>4, <1>5
<1>9. \A e \in seen2 : Front(e) \notin SetOf(dirs2)
  <2> SUFFICES ASSUME NEW e \in seen2, NEW x \in SetOf(dirs2), Front(e) = x PROVE FALSE
    OBVIOUS
  <2>1. CASE e \in seen /\ x \in rest
    BY <1>1, <1>5, <2>1
  <2>2. CASE e \in seen /\ x \in S /\ x \notin seen
    BY <1>3, <1>5, <2>2
  <2>3. CASE e \in S /\ x \in rest
    BY <1>1, <1>3, <2>3
  <2>4. CASE e \in S /\ x \in S
    <3>1. x = d /\ Len(x) = Len(d) + 1 /\ Len(d) \in Nat
      BY <1>1, <1>3, <2>4 DEF Paths
    <3> QED  BY <3>1
  <2> QED  BY <1>6, <2>1, <2>2, <2>3, <2>4
<1>10. DirsOK(seen2, dirs2)
  BY <1>7, <1>8, <1>9 DEF DirsOK
<1>11. ASSUME NEW f \in Files, present[f] \in 1..since
       PROVE  f \in seen2 \/ \E x \in SetOf(dirs2) : IsStrictPrefix(x, f)
  <2>1. f \in seen \/ \E x \in SetOf(dirs) : IsStrictPrefix(x, f)
    BY <1>11 DEF Covered
  <2>2. CASE \E x \in rest : IsStrictPrefix(x, f)
    BY <2>2 DEF rest
  <2>3. CASE IsStrictPrefix(d, f)
    <3> DEFINE e == Entry(d, f)
    <3>1. f \in Paths /\ present[f] # Absent
      BY <1>11, FilePaths DEF Absent
    <3>2. e \in S
      BY <2>3, <3>1 DEF EntriesOf, d
    <3>3. Front(e) = d /\ (e = f \/ IsStrictPrefix(e, f))
      BY <1>1, <2>3, <3>1, EntryOf
    <3> HIDE DEF e
    <3>4. e \notin seen
      BY <1>1, <1>5, <3>3
    <3>5. e \in Files => e = f
      BY <3>3, FetchAssumption
    <3>6. e \notin Files => e \in SetOf(dirs2)
      BY <3>2, <3>4
    <3> QED  BY <3>2, <3>3, <3>5, <3>6
  <2> QED  BY <1>1, <2>1, <2>2, <2>3
<1> QED  BY <1>10, <1>11 DEF Covered

(* Users push: files change, and none becomes older.                       *)
Pushed(present, newest, present2) ==
    \A f \in Files : present2[f] \in {present[f], Absent, newest + 1}

(* The walk is right whatever is pushed meanwhile: a file that has changed *)
(* since the read began is not asked for.                                  *)
LEMMA WalkWhilePushed ==
  ASSUME NEW present, NEW newest \in Nat, NEW present2, Pushed(present, newest, present2),
         NEW since \in 0..newest, NEW seen, NEW dirs, NEW tree,
         WalkOK(seen, dirs, tree, present, newest, since)
  PROVE  WalkOK(seen, dirs, tree, present2, newest + 1, since)
<1>1. ASSUME NEW entry, ListedWell(entry, present, newest) PROVE ListedWell(entry, present2, newest + 1)
  BY <1>1 DEF ListedWell, Pushed
<1>2. TreeOK(seen, tree, present2, newest + 1)
  BY <1>1 DEF WalkOK, TreeOK
<1>3. \A f \in Files : present2[f] \in 1..since => present[f] \in 1..since
  BY DEF Pushed, Absent
<1> QED  BY <1>2, <1>3 DEF WalkOK, Covered

-----------------------------------------------------------------------------
(* The selection *)

(* The parsed configuration selects what the document wants.               *)
LEMMA SelectsWanted ==
  ASSUME NEW doc, NEW entry, entry.path \in Files
  PROVE  Selectable(entry, ParseAIConfig(doc)) <=> Wanted(entry.path, doc)
<1> DEFINE cfg == ParseAIConfig(doc)
           f == entry.path
<1>1. cfg.include = Value(doc, "analysis.include", Files) /\ cfg.exclude = Value(doc, "analysis.exclude", Vendored)
  BY DEF ParseAIConfig
<1> HIDE DEF cfg
<1>2. f \in cfg.include <=> ("analysis.include" \in DOMAIN doc.at => f \in doc.at["analysis.include"])
  BY <1>1 DEF Value
<1>3. cfg.exclude = IF "analysis.exclude" \in DOMAIN doc.at THEN doc.at["analysis.exclude"] ELSE Vendored
  BY <1>1 DEF Value
<1> QED  BY <1>2, <1>3 DEF Selectable, MatchesRepositoryRules, Wanted, cfg

FileType == [path : Files, listed : Nat, at : Nat]
WantedSeen(seen, doc) == {e \in seen \cap Files : Wanted(e, doc)}

(* What is selected from a tree: files of the tree that are wanted, each   *)
(* once, and all of them or as many as the limit allows.                   *)
LEMMA SelectionIsRight ==
  ASSUME NEW seen, NEW tree, NEW present, NEW newest \in Nat, TreeOK(seen, tree, present, newest), NEW doc
  PROVE  LET files == Selection(tree, ParseAIConfig(doc))
         IN  /\ files \in Seq(FileType) /\ DistinctPaths(files)
             /\ \A i \in 1..Len(files) : /\ Wanted(files[i].path, doc) /\ ListedWell(files[i], present, newest)
                                         /\ files[i].at = Absent
             /\ \A f \in seen \cap Files : Wanted(f, doc) =>
                   f \in PathsOf(files) \/ Cardinality(WantedSeen(seen, doc)) > FileLimit
<1> DEFINE cfg == ParseAIConfig(doc)
           at == {i \in 1..Len(tree) : Selectable(tree[i], cfg)}
           kept == Keep(tree, at)
           n == Len(kept)
           m == IF n < FileLimit THEN n ELSE FileLimit
           chosen == FirstOf(kept, FileLimit)
           files == Selection(tree, cfg)
<1>1. tree \in Seq(Entries) /\ DistinctPaths(tree) /\ PathsOf(tree) = seen
      /\ \A i \in 1..Len(tree) : ListedWell(tree[i], present, newest)
  BY DEF TreeOK
<1>2. at \in SUBSET (1..Len(tree)) /\ \A i \in at : tree[i].path \in Files /\ Wanted(tree[i].path, doc)
  <2>1. \A i \in at : tree[i].path \in Files
    BY DEF Selectable
  <2> QED  BY <2>1, SelectsWanted
<1>2a. \A i \in 1..Len(tree) : tree[i].path \in Files /\ Wanted(tree[i].path, doc) => i \in at
  BY SelectsWanted
<1>3. files = [i \in 1..Len(chosen) |-> [path |-> chosen[i].path, listed |-> chosen[i].listed, at |-> Absent]]
  BY Zenon DEF Selection
<1> HIDE DEF at, cfg
<1>4. kept \in Seq(Entries) /\ \E pos : Places(pos, kept, tree, at)
  BY <1>1, <1>2, KeepElements
<1>5. PICK pos : Places(pos, kept, tree, at)
  BY <1>4
<1> HIDE DEF kept
<1>6. /\ pos \in [1..n -> at] /\ \A k \in 1..n : kept[k] = tree[pos[k]]
      /\ \A k, l \in 1..n : pos[k] = pos[l] => k = l
      /\ \A i \in at : \E k \in 1..n : pos[k] = i
  BY <1>5 DEF Places
<1>7. n \in Nat /\ m \in 0..n /\ m <= FileLimit /\ FileLimit \in Nat
  BY <1>4, FetchAssumption
<1>8. chosen \in Seq(Entries) /\ Len(chosen) = m /\ \A i \in 1..m : chosen[i] = kept[i]
  <2>1. \A i \in 1..m : kept[i] \in Entries
    BY <1>4, <1>7, ElementOfSeq
  <2>2. chosen = SubSeq(kept, 1, m)
    BY DEF FirstOf
  <2> QED  BY <1>7, <2>1, <2>2, SubSeqProperties
<1> HIDE DEF chosen, m
<1>9. \A i \in 1..m : /\ kept[i] \in Entries /\ kept[i].path \in Files /\ Wanted(kept[i].path, doc)
                      /\ ListedWell(kept[i], present, newest)
  <2>1. \A i \in 1..m : i \in 1..n /\ pos[i] \in at /\ pos[i] \in 1..Len(tree)
    <3>1. \A i \in 1..m : i \in 1..n
      BY <1>7
    <3>2. \A i \in 1..n : pos[i] \in at
      BY <1>6
    <3> QED  BY <1>2, <3>1, <3>2
  <2> QED  BY <1>1, <1>2, <1>4, <1>6, <2>1, ElementOfSeq
<1>10. DOMAIN files = 1..m /\ Len(files) = m
       /\ \A i \in 1..m : files[i] = [path |-> kept[i].path, listed |-> kept[i].listed, at |-> Absent]
  BY <1>3, <1>7, <1>8
<1>11. files \in Seq(FileType)
  <2>1. \A i \in 1..m : files[i] \in FileType
    BY <1>9, <1>10 DEF FileType, Entries, Absent
  <2>2. files = [i \in 1..m |-> files[i]] /\ m \in Nat
    BY <1>3, <1>7, <1>8
  <2> HIDE DEF files
  <2> QED  BY <2>1, <2>2, IsASeq
<1> HIDE DEF files
<1>12. \A i, j \in 1..n : kept[i].path = kept[j].path => i = j
  <2> SUFFICES ASSUME NEW i \in 1..n, NEW j \in 1..n, kept[i].path = kept[j].path PROVE i = j
    OBVIOUS
  <2>1. pos[i] \in 1..Len(tree) /\ pos[j] \in 1..Len(tree) /\ tree[pos[i]].path = tree[pos[j]].path
    BY <1>2, <1>6
  <2>2. pos[i] = pos[j]
    BY <1>1, <2>1 DEF DistinctPaths
  <2> QED  BY <1>6, <2>2
<1>12a. \A i \in 1..m : i \in 1..n /\ files[i].path = kept[i].path
  BY <1>7, <1>10
<1>13. DistinctPaths(files)
  BY <1>10, <1>12, <1>12a DEF DistinctPaths
<1>14. \A i \in 1..m : Wanted(files[i].path, doc) /\ ListedWell(files[i], present, newest) /\ files[i].at = Absent
  BY <1>9, <1>10 DEF ListedWell
<1>15. ASSUME NEW f \in seen \cap Files, Wanted(f, doc)
       PROVE  f \in PathsOf(files) \/ Cardinality(WantedSeen(seen, doc)) > FileLimit
  <2>1. PICK i \in 1..Len(tree) : tree[i].path = f
    BY <1>1 DEF PathsOf
  <2>2. i \in at
    BY <1>2a, <1>15, <2>1
  <2>3. PICK k \in 1..n : pos[k] = i
    BY <1>6, <2>2
  <2>4. kept[k].path = f
    BY <1>6, <2>1, <2>3
  <2>5. CASE k \in 1..m
    BY <1>10, <1>12a, <2>4, <2>5 DEF PathsOf
  <2>6. CASE k \notin 1..m
    <3>1. n > FileLimit
      BY <1>7, <2>6 DEF m
    <3> DEFINE g == [j \in 1..n |-> kept[j].path]
               W == WantedSeen(seen, doc)
    <3>2. \A j \in 1..n : kept[j].path \in W
      <4>1. \A j \in 1..n : pos[j] \in at /\ pos[j] \in 1..Len(tree) /\ kept[j] = tree[pos[j]]
        BY <1>2, <1>6
      <4> QED  BY <1>1, <1>2, <4>1 DEF WantedSeen, PathsOf
    <3>3. g \in Injection(1..n, W)
      BY <1>12, <3>2 DEF Injection, IsInjective
    <3>4. IsFiniteSet(W)
      BY FetchAssumption, FS_Subset DEF WantedSeen
    <3>5. n <= Cardinality(W) /\ Cardinality(W) \in Nat
      <4>1. Cardinality(1..n) = n
        <5>1. n \in Nat /\ 1 \in Int /\ n \in Int
          BY <1>7
        <5> HIDE DEF n
        <5> QED  BY <5>1, FS_Interval
      <4> QED  BY <3>3, <3>4, <4>1, FS_Injection, FS_CardinalityType
    <3> QED  BY <1>7, <3>1, <3>5
  <2> QED  BY <2>5, <2>6
<1>16. /\ files \in Seq(FileType) /\ DistinctPaths(files)
       /\ \A i \in 1..Len(files) : /\ Wanted(files[i].path, doc) /\ ListedWell(files[i], present, newest)
                                   /\ files[i].at = Absent
       /\ \A f \in seen \cap Files : Wanted(f, doc) =>
             f \in PathsOf(files) \/ Cardinality(WantedSeen(seen, doc)) > FileLimit
  BY <1>10, <1>11, <1>13, <1>14, <1>15
<1> QED  BY <1>16, Zenon DEF files, cfg

Fields == {"pc", "kind", "mode", "doc", "cfg", "dirs", "seen", "tree", "files", "err", "cancelled",
           "since", "before", "torn", "misread"}

ErrorInv ==
    /\ DOMAIN fetch = Fields /\ fetch = [x \in Fields |-> fetch[x]]
    /\ fetch.cancelled => fetch.err # None
    /\ ErrorIsFirst

(* A step of the read goes on with the errors as they are.                *)
Goes == fetch'.err = fetch.err /\ fetch'.cancelled = fetch.cancelled
Shaped == DOMAIN fetch' = Fields /\ fetch' = [x \in Fields |-> fetch'[x]]

(* It keeps the invariant.                                                 *)
LEMMA GoesOn == ASSUME ErrorInv, Shaped, Goes, gone => gone' PROVE ErrorInv'
  BY DEF ErrorInv, Shaped, Goes, ErrorIsFirst

(* A read that ends with an error of its own.                              *)
LEMMA FailsWell ==
  ASSUME ErrorInv, NEW err, FailFetch(err), err # None, err # "cancelled", err = "gone" => gone,
         gone' = gone
  PROVE  ErrorInv'
<1>1. Shaped /\ fetch'.err = err
  BY DEF ErrorInv, FailFetch, Shaped, Fields
<1> QED  BY <1>1 DEF ErrorInv, Shaped, ErrorIsFirst

(* A read that ends in a call to GitFlame.                                 *)
LEMMA FailsInCall ==
  ASSUME ErrorInv, Unreachable \/ Cancelled, gone' = gone PROVE ErrorInv'
  BY FailsWell DEF Unreachable, Cancelled, None

(* A read that begins or is over knows no error.                           *)
LEMMA NoFetchShape ==
  DOMAIN NoFetch = Fields /\ NoFetch.err = None /\ ~NoFetch.cancelled
    /\ NoFetch = [x \in Fields |-> NoFetch[x]]
  BY DEF NoFetch, Fields

(* A read begins.                                                          *)
LEMMA BeginFetchKeepsErrors ==
  ASSUME ErrorInv, NEW kind, NEW yaml, BeginFetch(kind, yaml) PROVE ErrorInv'
<1>1. Shaped /\ fetch'.err = None /\ ~fetch'.cancelled
  BY NoFetchShape DEF BeginFetch, Shaped, Fields
<1> QED  BY <1>1 DEF ErrorInv, Shaped, ErrorIsFirst, None

(* A read is over.                                                         *)
LEMMA EndFetchKeepsErrors == ASSUME ErrorInv, EndFetch PROVE ErrorInv'
  BY NoFetchShape DEF EndFetch, ErrorInv, ErrorIsFirst, None

(* The caller leaves.                                                      *)
LEMMA LeaveKeepsErrors == ASSUME ErrorInv, Leave PROVE ErrorInv'
  BY DEF Leave, ErrorInv, ErrorIsFirst

(* A directory is listed.                                                  *)
LEMMA ListDirectoryKeepsErrors == ASSUME ErrorInv, ListDirectory PROVE ErrorInv'
<1>1. gone' = gone
  BY DEF ListDirectory, OnlyFetch
<1>2. CASE FailFetch("too_large")
  BY <1>1, <1>2, FailsWell DEF None
<1>3. CASE FailFetch("not_found")
  BY <1>1, <1>3, FailsWell DEF None
<1>4. CASE Unreachable \/ Cancelled
  BY <1>1, <1>4, FailsInCall
<1>5. CASE \E seen, dirs, tree, pc :
             fetch' = [fetch EXCEPT !.seen = seen, !.dirs = dirs, !.tree = tree, !.pc = pc]
  <2>1. Shaped /\ Goes
    BY <1>5 DEF ErrorInv, Shaped, Goes, Fields
  <2> QED  BY <1>1, <2>1, GoesOn
<1>6. \/ FailFetch("too_large") \/ FailFetch("not_found") \/ Unreachable \/ Cancelled
      \/ \E seen, dirs, tree, pc :
             fetch' = [fetch EXCEPT !.seen = seen, !.dirs = dirs, !.tree = tree, !.pc = pc]
  <2> DEFINE Goal == \E seen, dirs, tree, pc :
             fetch' = [fetch EXCEPT !.seen = seen, !.dirs = dirs, !.tree = tree, !.pc = pc]
  <2>1. ASSUME NEW answer,
               LET next == FoldLeft(Visit, [seen |-> fetch.seen, dirs |-> Tail(fetch.dirs), tree |-> fetch.tree], answer)
               IN IF Len(next.tree) > TreeLimit THEN FailFetch("too_large")
                  ELSE fetch' = [fetch EXCEPT !.seen = next.seen, !.dirs = next.dirs, !.tree = next.tree,
                                              !.pc = IF next.dirs = <<>> THEN AfterTree ELSE "tree"]
        PROVE  FailFetch("too_large") \/ Goal
    <3> DEFINE next == FoldLeft(Visit, [seen |-> fetch.seen, dirs |-> Tail(fetch.dirs), tree |-> fetch.tree], answer)
               pc == IF next.dirs = <<>> THEN AfterTree ELSE "tree"
    <3>1. \/ FailFetch("too_large")
          \/ fetch' = [fetch EXCEPT !.seen = next.seen, !.dirs = next.dirs, !.tree = next.tree, !.pc = pc]
      BY <2>1, Zenon
    <3>2. ASSUME fetch' = [fetch EXCEPT !.seen = next.seen, !.dirs = next.dirs, !.tree = next.tree, !.pc = pc]
          PROVE  Goal
      <4> HIDE DEF next, pc
      <4> WITNESS next.seen, next.dirs, next.tree, pc
      <4> QED  BY <3>2
    <3> QED  BY <3>1, <3>2
  <2> HIDE DEF Goal
  <2>2. FailFetch("too_large") \/ FailFetch("not_found") \/ Unreachable \/ Cancelled \/ Goal
    BY <2>1, Zenon DEF ListDirectory
  <2> QED  BY <2>2 DEF Goal
<1> QED  BY <1>2, <1>3, <1>4, <1>5, <1>6

(* The configuration that arrived is used: the listed tree is read by a    *)
(* pool, or the tree is listed for the loop.                               *)
ToPool(doc, misread) ==
    /\ fetch.mode = "listing"
    /\ fetch' = [fetch EXCEPT !.doc = doc, !.cfg = ParseAIConfig(doc), !.misread = misread,
                              !.pc = "select", !.mode = "pool"]
ToLoop(doc, misread) ==
    fetch' = [fetch EXCEPT !.doc = doc, !.cfg = ParseAIConfig(doc), !.misread = misread, !.pc = "tree",
                           !.mode = "loop", !.dirs = << <<>> >>, !.seen = {}, !.tree = <<>>]
Used(doc, misread) == FailFetch("invalid_ai_config") \/ ToPool(doc, misread) \/ ToLoop(doc, misread)

(* What Configure does with the document that arrived.                     *)
LEMMA ConfigureUses == ASSUME ErrorInv, NEW doc, NEW misread, Configure(doc, misread) PROVE Used(doc, misread)
<1> DEFINE cfg == ParseAIConfig(doc)
           read == [fetch EXCEPT !.doc = doc, !.cfg = cfg, !.misread = misread]
<1>1. \/ FailFetch("invalid_ai_config")
      \/ fetch.mode = "listing" /\ fetch' = [read EXCEPT !.pc = "select", !.mode = "pool"]
      \/ fetch' = [read EXCEPT !.pc = "tree", !.mode = "loop", !.dirs = << <<>> >>, !.seen = {}, !.tree = <<>>]
  BY Zenon DEF Configure
<1> HIDE DEF cfg
<1> QED  BY <1>1 DEF Used, ToPool, ToLoop, cfg

(* So a configuration is used as it is, or torn, or its call fails.        *)
LEMMA ReadConfigUses ==
  ASSUME ErrorInv, ReadConfig
  PROVE  \/ \E doc : Used(doc, FALSE) /\ UNCHANGED faults
         \/ \E doc : Used(doc, TRUE) /\ EndsEarly(gone)
         \/ Unreachable \/ Cancelled
<1>1. \/ \E doc : Configure(doc, FALSE) /\ UNCHANGED faults
      \/ \E doc : Configure(doc, TRUE) /\ EndsEarly(gone)
      \/ Unreachable \/ Cancelled
  BY Zenon DEF ReadConfig
<1> QED  BY <1>1, ConfigureUses

(* The configuration is read.                                              *)
LEMMA ReadConfigKeepsErrors == ASSUME ErrorInv, ReadConfig PROVE ErrorInv'
<1>1. gone' = gone
  BY DEF ReadConfig, OnlyFetch
<1>2. CASE FailFetch("invalid_ai_config")
  BY <1>1, <1>2, FailsWell DEF None
<1>3. CASE Unreachable \/ Cancelled
  BY <1>1, <1>3, FailsInCall
<1>4. CASE \E doc, misread : ToPool(doc, misread) \/ ToLoop(doc, misread)
  BY <1>1, <1>4, GoesOn DEF ErrorInv, Shaped, Goes, Fields, ToPool, ToLoop
<1> QED  BY <1>2, <1>3, <1>4, ReadConfigUses DEF Used

(* The files are selected.                                                 *)
LEMMA SelectKeepsErrors == ASSUME ErrorInv, Select PROVE ErrorInv'
<1>1. gone' = gone
  BY DEF Select
<1>2. CASE fetch' = [fetch EXCEPT !.pc = "done"]
  BY <1>1, <1>2, GoesOn DEF ErrorInv, Shaped, Goes, Fields
<1>3. CASE \E pc, files : fetch' = [fetch EXCEPT !.pc = pc, !.files = files]
  BY <1>1, <1>3, GoesOn DEF ErrorInv, Shaped, Goes, Fields
<1> QED  BY <1>2, <1>3, Zenon DEF Select

(* The loop fetches a file.                                                *)
LEMMA GetNextKeepsErrors == ASSUME ErrorInv, GetNext PROVE ErrorInv'
<1>1. gone' = gone
  BY DEF GetNext, OnlyFetch
<1>2. CASE FailFetch("not_found")
  BY <1>1, <1>2, FailsWell DEF None
<1>3. CASE Unreachable \/ Cancelled
  BY <1>1, <1>3, FailsInCall
<1>4. CASE \E i, content, torn, pc : fetch' = [fetch EXCEPT !.files[i].at = content, !.torn = torn, !.pc = pc]
  BY <1>1, <1>4, GoesOn DEF ErrorInv, Shaped, Goes, Fields
<1>5. \/ FailFetch("not_found") \/ Unreachable \/ Cancelled
      \/ \E i, content, torn, pc : fetch' = [fetch EXCEPT !.files[i].at = content, !.torn = torn, !.pc = pc]
  <2> DEFINE i == CHOOSE n \in 1..Len(fetch.files) :
                     fetch.files[n].at = Absent /\ \A m \in 1..n-1 : fetch.files[m].at # Absent
             content == repo[fetch.files[i].path]
             pc == IF i = Len(fetch.files) THEN "done" ELSE "get"
  <2>1. \/ FailFetch("not_found") \/ Unreachable \/ Cancelled
        \/ \E torn : fetch' = [fetch EXCEPT !.files[i].at = content, !.torn = torn, !.pc = pc]
    BY Zenon DEF GetNext
  <2> HIDE DEF i, content, pc
  <2>2. ASSUME NEW torn, fetch' = [fetch EXCEPT !.files[i].at = content, !.torn = torn, !.pc = pc]
        PROVE  \E j, c, t, p : fetch' = [fetch EXCEPT !.files[j].at = c, !.torn = t, !.pc = p]
    <3> WITNESS i, content, torn, pc
    <3> QED  BY <2>2
  <2> QED  BY <2>1, <2>2
<1> QED  BY <1>2, <1>3, <1>4, <1>5

-----------------------------------------------------------------------------
(* The pool *)

(* A goroutine takes an index.                                             *)
LEMMA TakeIndexKeepsErrors == ASSUME ErrorInv, NEW w \in Workers, TakeIndex(w) PROVE ErrorInv'
  BY DEF TakeIndex, ErrorInv, ErrorIsFirst

(* An error of a goroutine is kept when it is the first; that of the       *)
(* cancellation never is.                                                  *)
LEMMA ReportKeepsErrors ==
  ASSUME ErrorInv, NEW w \in Workers, NEW err, Report(w, err), gone' = gone,
         err # None, err = "cancelled" => fetch.cancelled, err = "gone" => gone
  PROVE  ErrorInv'
<1>1. Shaped /\ fetch'.err = IF fetch.err = None THEN err ELSE fetch.err
  BY DEF ErrorInv, Report, Shaped, Fields
<1>2. fetch'.err # None /\ fetch'.err # "cancelled" /\ (fetch'.err = "gone" => gone')
  BY <1>1 DEF ErrorInv, ErrorIsFirst
<1> QED  BY <1>1, <1>2 DEF ErrorInv, Shaped, ErrorIsFirst

(* A goroutine fetches a file, or fails.                                   *)
LEMMA FetchContentKeepsErrors == ASSUME ErrorInv, NEW w \in Workers, FetchContent(w) PROVE ErrorInv'
<1>1. gone' = gone
  BY DEF FetchContent
<1>2. CASE Report(w, "not_found") \/ Report(w, "fault")
  BY <1>1, <1>2, ReportKeepsErrors DEF None
<1>3. CASE gone /\ Report(w, "gone")
  BY <1>1, <1>3, ReportKeepsErrors DEF None
<1>4. CASE fetch.cancelled /\ Report(w, "cancelled")
  BY <1>1, <1>4, ReportKeepsErrors DEF None
<1>5. CASE \E i, content, torn : fetch' = [fetch EXCEPT !.files[i].at = content, !.torn = torn]
  BY <1>1, <1>5, GoesOn DEF ErrorInv, Shaped, Goes, Fields
<1> DEFINE i == worker[w].index
           content == repo[fetch.files[i].path]
<1>6. \/ Report(w, "not_found") \/ Report(w, "fault")
      \/ gone /\ Report(w, "gone")
      \/ fetch.cancelled /\ Report(w, "cancelled")
      \/ \E torn : fetch' = [fetch EXCEPT !.files[i].at = content, !.torn = torn]
  BY Zenon DEF FetchContent
<1> HIDE DEF i, content
<1>7. ASSUME NEW torn, fetch' = [fetch EXCEPT !.files[i].at = content, !.torn = torn]
      PROVE  \E j, c, t : fetch' = [fetch EXCEPT !.files[j].at = c, !.torn = t]
  <2> WITNESS i, content, torn
  <2> QED  BY <1>7
<1> QED  BY <1>2, <1>3, <1>4, <1>5, <1>6, <1>7

(* The pool ends.                                                          *)
LEMMA FinishPoolKeepsErrors == ASSUME ErrorInv, FinishPool PROVE ErrorInv'
<1>1. gone' = gone
  BY DEF FinishPool
<1>2. CASE fetch.err # None /\ FailFetch(fetch.err)
  BY <1>1, <1>2, FailsWell DEF ErrorInv, ErrorIsFirst
<1>3. CASE gone /\ FailFetch("gone")
  BY <1>1, <1>3, FailsWell DEF None
<1>4. CASE \E files : fetch' = [fetch EXCEPT !.pc = "done", !.files = files]
  BY <1>1, <1>4, GoesOn DEF ErrorInv, Shaped, Goes, Fields
<1> QED  BY <1>2, <1>3, <1>4, Zenon DEF FinishPool, HandOver

-----------------------------------------------------------------------------
(* No error at the start, and all steps together.                          *)
LEMMA ErrorInit == Init => ErrorInv
  BY NoFetchShape DEF Init, FetchInit, ErrorInv, ErrorIsFirst, None

(* The steps of a read.                                                    *)
LEMMA FetchKeepsErrors == ASSUME ErrorInv, Fetch PROVE ErrorInv'
  BY BeginFetchKeepsErrors, LeaveKeepsErrors, EndFetchKeepsErrors, ListDirectoryKeepsErrors,
     ReadConfigKeepsErrors, SelectKeepsErrors, GetNextKeepsErrors, FinishPoolKeepsErrors,
     TakeIndexKeepsErrors, FetchContentKeepsErrors
  DEF Fetch, ReadStep, WorkerStep

(* And all others.                                                         *)
LEMMA ErrorNext == ErrorInv /\ [Next]_codeVars => ErrorInv'
<1> SUFFICES ASSUME ErrorInv, [Next]_codeVars PROVE ErrorInv'
  OBVIOUS
<1>1. CASE Fetch
  BY <1>1, FetchKeepsErrors
<1>2. CASE Analyze
  BY <1>2, EndFetchKeepsErrors DEF Analyze
<1>3. CASE UNCHANGED fetchVars
  BY <1>3 DEF fetchVars, ErrorInv, ErrorIsFirst
<1>4. Generate \/ Apply \/ UserPush \/ UNCHANGED codeVars => UNCHANGED fetchVars
  BY DEF Generate, Apply, UserPush, codeVars, fetchVars
<1> QED  BY <1>1, <1>2, <1>3, <1>4 DEF Next

(* The caller learns why a read failed, never that the pool gave up        *)
(* because of it (errorOnce, gitflame_client.go:652-680).                  *)
THEOREM ErrorsAreFirst == Spec => []ErrorIsFirst
<1>1. ErrorInv => ErrorIsFirst
  BY DEF ErrorInv
<1> QED  BY <1>1, ErrorInit, ErrorNext, PTL DEF Spec

-----------------------------------------------------------------------------
(* The invariant of the read *)

Errors == {None, "fault", "gone", "too_large", "not_found", "invalid_ai_config", "cancelled"}

(* A file of the read: asked for, and either not fetched yet or fetched at *)
(* a commit that is not older than the tree.                               *)
FileOK(file, doc, present, newest, since) ==
    /\ Wanted(file.path, doc) /\ ListedWell(file, present, newest)
    /\ \/ file.at = Absent
       \/ /\ file.at \in file.listed..newest
          /\ present[file.path] \in {file.at, Absent} \/ present[file.path] > since
FilesOK(files, doc, present, newest, since) ==
    /\ files \in Seq(FileType) /\ DistinctPaths(files)
    /\ \A i \in 1..Len(files) : FileOK(files[i], doc, present, newest, since)

(* No wanted file that has not changed is left out, but those in but.      *)
Whole(files, seen, doc, present, since, but) ==
    \A f \in Files \ but : present[f] \in 1..since /\ Wanted(f, doc) =>
        f \in PathsOf(files) \/ Cardinality(WantedSeen(seen, doc)) > FileLimit

AllRead(files) == \A i \in 1..Len(files) : files[i].at # Absent
ReadTo(files, k) == \A n \in 1..Len(files) : files[n].at # Absent <=> n < k

(* Every file of the pool is fetched, waits in the channel or is with a    *)
(* goroutine, unless the work is given up.                                 *)
PoolOK(files, todo, crew, over) ==
    /\ todo \in Seq(1..Len(files))
    /\ \A w \in Workers : crew[w].pc = "get" => crew[w].index \in 1..Len(files)
    /\ \A n \in 1..Len(files) :
          \/ files[n].at # Absent \/ n \in SetOf(todo) \/ over
          \/ \E w \in Workers : crew[w].pc = "get" /\ crew[w].index = n
    /\ (\A w \in Workers : crew[w].pc = "off") => todo = <<>> \/ over

Crew == [Workers -> [pc : {"off", "take", "get"}, index : Nat]]

(* The types of the read; its beginning is not in the future.              *)
ReadTypes ==
    /\ fetch.pc \in {"idle", "tree", "config", "select", "get", "pool", "done", "failed"}
    /\ fetch.kind \in {"index", "analysis"} /\ fetch.mode \in {"listing", "pool", "loop"}
    /\ fetch.err \in Errors /\ fetch.cancelled \in BOOLEAN
    /\ fetch.since \in 0..head
    /\ worker \in Crew /\ gone \in BOOLEAN

(* The walk, until the selection is made.                                  *)
WalkInv ==
    /\ fetch.pc \in {"tree", "config", "select"} =>
          WalkOK(fetch.seen, fetch.dirs, fetch.tree, repo, head, fetch.since)
    /\ fetch.pc = "tree" => fetch.dirs # <<>> /\ fetch.mode \in {"listing", "loop"}
    /\ fetch.pc = "select" \/ (fetch.pc = "config" /\ fetch.mode = "listing") => fetch.dirs = <<>>
    /\ fetch.pc = "select" \/ (fetch.pc = "tree" /\ fetch.mode = "loop") => fetch.cfg = ParseAIConfig(fetch.doc)

(* The files, from the selection on.                                       *)
FilesInv ==
    /\ fetch.pc \in {"idle", "tree", "config", "select", "failed"} => fetch.files = <<>>
    /\ fetch.pc \in {"get", "pool", "done"} =>
          /\ FilesOK(fetch.files, fetch.doc, repo, head, fetch.since)
          /\ Whole(fetch.files, fetch.seen, fetch.doc, repo, fetch.since,
                   IF fetch.pc = "done" THEN Binary \cup Cut ELSE {})
    /\ fetch.pc = "get" => \E k \in 1..Len(fetch.files) : ReadTo(fetch.files, k)
    /\ fetch.pc = "pool" => PoolOK(fetch.files, jobs, worker, gone \/ fetch.err # None)
    /\ fetch.pc = "done" => AllRead(fetch.files)

ReadInv == ErrorInv /\ RepositoryOK /\ ReadTypes /\ WalkInv /\ FilesInv

-----------------------------------------------------------------------------
(* Steps of the read *)

(* A read that fails has no files.                                         *)
LEMMA ReadFails ==
  ASSUME ReadInv, NEW err \in Errors, FailFetch(err), RepositoryOK', fetch.since <= head',
         worker' \in Crew, gone' \in BOOLEAN, ErrorInv'
  PROVE  ReadInv'
<1>1. fetch'.pc = "failed" /\ fetch'.files = <<>> /\ fetch'.err = err /\ fetch'.kind = fetch.kind
      /\ fetch'.mode = fetch.mode /\ fetch'.cancelled = fetch.cancelled /\ fetch'.since = fetch.since
  BY DEF ReadInv, ErrorInv, Fields, FailFetch
<1>2. fetch'.since \in 0..head'
  BY <1>1 DEF ReadInv, ReadTypes, RepositoryOK
<1>3. ReadTypes'
  BY <1>1, <1>2 DEF ReadInv, ReadTypes
<1>4. WalkInv' /\ FilesInv'
  BY <1>1 DEF WalkInv, FilesInv
<1> QED  BY <1>3, <1>4 DEF ReadInv

(* It fails in a call to GitFlame.                                         *)
LEMMA ReadCallFails ==
  ASSUME ReadInv, Unreachable \/ Cancelled, head' = head, repo' = repo, worker' = worker, gone' = gone, ErrorInv'
  PROVE  ReadInv'
<1>1. PICK err \in Errors : FailFetch(err)
  BY DEF Unreachable, Cancelled, Errors
<1>2. faults' \in 0..MaxFaults
  BY RepositoryAssumption DEF Unreachable, Cancelled, Fault, ReadInv, RepositoryOK
<1>3. RepositoryOK' /\ fetch.since <= head'
  BY <1>2 DEF ReadInv, RepositoryOK, ReadTypes
<1> QED  BY <1>1, <1>3, ReadFails DEF ReadInv, ReadTypes

(* A read begins with the root.                                            *)
LEMMA BeginFetchKeeps ==
  ASSUME ReadInv, NEW kind \in {"index", "analysis"}, NEW yaml, BeginFetch(kind, yaml) PROVE ReadInv'
<1>1. /\ fetch'.pc = (IF kind = "index" THEN "tree" ELSE "config")
      /\ fetch'.mode = (IF kind = "index" THEN "listing" ELSE "loop")
      /\ fetch'.kind = kind /\ fetch'.since = head /\ fetch'.dirs = << <<>> >> /\ fetch'.seen = {}
      /\ fetch'.tree = <<>> /\ fetch'.files = <<>> /\ fetch'.err = None /\ fetch'.cancelled = FALSE
  BY DEF BeginFetch, NoFetch
<1>2. head' = head /\ repo' = repo /\ faults' = faults /\ worker' = worker /\ gone' = gone
  BY DEF BeginFetch
<1>3. ErrorInv' /\ RepositoryOK'
  BY <1>2, BeginFetchKeepsErrors DEF ReadInv, RepositoryOK
<1>4. fetch'.since \in 0..head'
  BY <1>1, <1>2 DEF ReadInv, RepositoryOK
<1>5. ReadTypes'
  BY <1>1, <1>2, <1>4 DEF ReadInv, ReadTypes, Errors
<1>6. WalkOK(fetch'.seen, fetch'.dirs, fetch'.tree, repo', head', fetch'.since)
  BY <1>1, WalkBegins
<1>7. WalkInv'
  BY <1>1, <1>6 DEF WalkInv
<1>8. FilesInv'
  BY <1>1 DEF FilesInv
<1> QED  BY <1>3, <1>5, <1>7, <1>8 DEF ReadInv

(* When the work is given up, no file is waited for.                       *)
LEMMA PoolOver ==
  ASSUME NEW files, NEW todo, NEW crew, NEW over, PoolOK(files, todo, crew, over)
  PROVE  PoolOK(files, todo, crew, TRUE)
  BY DEF PoolOK

(* The caller leaves: the pool is given up.                                *)
LEMMA LeaveKeeps == ASSUME ReadInv, Leave PROVE ReadInv'
<1>1. gone' = TRUE /\ head' = head /\ repo' = repo /\ faults' = faults /\ fetch' = fetch /\ jobs' = jobs /\ worker' = worker
  BY DEF Leave
<1>2. ErrorInv'
  BY LeaveKeepsErrors DEF ReadInv
<1>3. fetch.pc = "pool" => PoolOK(fetch.files, jobs, worker, TRUE)
  BY PoolOver DEF ReadInv, FilesInv
<1>4. (gone' \/ fetch'.err # None) = TRUE
  BY <1>1
<1>5. FilesInv'
  BY <1>1, <1>3, <1>4 DEF ReadInv, FilesInv, Cut
<1> QED  BY <1>1, <1>2, <1>5 DEF ReadInv, RepositoryOK, ReadTypes, WalkInv

(* A read is over.                                                         *)
LEMMA EndFetchKeeps == ASSUME ReadInv, EndFetch PROVE ReadInv'
<1>1. /\ fetch'.pc = "idle" /\ fetch'.mode = "listing" /\ fetch'.kind = "index" /\ fetch'.since = 0
      /\ fetch'.files = <<>> /\ fetch'.err = None /\ fetch'.cancelled = FALSE
  BY DEF EndFetch, NoFetch
<1>2. head' = head /\ repo' = repo /\ faults' = faults /\ worker' = NoWorker /\ gone' = FALSE
  BY DEF EndFetch
<1>3. ErrorInv' /\ RepositoryOK'
  BY <1>2, EndFetchKeepsErrors DEF ReadInv, RepositoryOK
<1>4. NoWorker \in Crew
  BY DEF NoWorker, Crew
<1>5. fetch'.since \in 0..head'
  BY <1>1, <1>2 DEF ReadInv, RepositoryOK
<1>6. worker' \in Crew
  BY <1>2, <1>4
<1>7. ReadTypes'
  BY <1>1, <1>2, <1>5, <1>6 DEF ReadTypes, Errors
<1>8. WalkInv' /\ FilesInv'
  BY <1>1 DEF WalkInv, FilesInv
<1> QED  BY <1>3, <1>7, <1>8 DEF ReadInv

-----------------------------------------------------------------------------
(* The tree and the configuration *)

(* A directory is listed: its entries are seen, and those among them that  *)
(* are directories wait, so the walk goes on to cover what it covered.     *)
LEMMA ListDirectoryKeeps == ASSUME ReadInv, ListDirectory PROVE ReadInv'
<1> DEFINE dir == Head(fetch.dirs)
           S == EntriesOf(dir, repo)
           found == [seen |-> fetch.seen, dirs |-> Tail(fetch.dirs), tree |-> fetch.tree]
<1>1. fetch.pc = "tree" /\ head' = head /\ repo' = repo /\ jobs' = jobs /\ worker' = worker /\ gone' = gone
  BY DEF ListDirectory, Reading, OnlyFetch
<1>2. ErrorInv'
  BY ListDirectoryKeepsErrors DEF ReadInv
<1>3. CASE (FailFetch("too_large") \/ FailFetch("not_found")) /\ UNCHANGED faults
  <2>1. RepositoryOK' /\ fetch.since <= head'
    BY <1>1, <1>3 DEF ReadInv, RepositoryOK, ReadTypes
  <2> QED  BY <1>1, <1>2, <1>3, <2>1, ReadFails DEF Errors, ReadInv, ReadTypes
<1>4. CASE Unreachable \/ Cancelled
  BY <1>1, <1>2, <1>4, ReadCallFails
<1>5. ASSUME NEW answer \in {Listing(dir), Listing(dir) \o Listing(dir)}, UNCHANGED faults,
             LET next == FoldLeft(Visit, found, answer)
             IN IF Len(next.tree) > TreeLimit THEN FailFetch("too_large")
                ELSE fetch' = [fetch EXCEPT !.seen = next.seen, !.dirs = next.dirs, !.tree = next.tree,
                                            !.pc = IF next.dirs = <<>> THEN AfterTree ELSE "tree"]
      PROVE  ReadInv'
  <2> DEFINE next == FoldLeft(Visit, found, answer)
             pc == IF next.dirs = <<>> THEN AfterTree ELSE "tree"
  <2>1. WalkOK(fetch.seen, fetch.dirs, fetch.tree, repo, head, fetch.since) /\ fetch.dirs # <<>>
        /\ fetch.mode \in {"listing", "loop"} /\ fetch.since \in Nat
    BY <1>1 DEF ReadInv, WalkInv, ReadTypes, RepositoryOK
  <2>2. fetch.dirs \in Seq(Paths) /\ dir \in Paths /\ Tail(fetch.dirs) \in Seq(Paths)
        /\ DistinctElements(Tail(fetch.dirs)) /\ \A d \in SetOf(Tail(fetch.dirs)) : d = <<>> \/ d \in fetch.seen
    <3>1. fetch.dirs \in Seq(Paths) /\ DistinctElements(fetch.dirs)
          /\ \A d \in SetOf(fetch.dirs) : d = <<>> \/ d \in fetch.seen
      BY <2>1 DEF WalkOK, DirsOK
    <3>2. dir \in Paths /\ Tail(fetch.dirs) \in Seq(Paths) /\ Len(Tail(fetch.dirs)) = Len(fetch.dirs) - 1
          /\ \A i \in 1..Len(Tail(fetch.dirs)) : Tail(fetch.dirs)[i] = fetch.dirs[i+1]
      BY <2>1, <3>1, HeadTailProperties
    <3>3. \A i \in 1..Len(Tail(fetch.dirs)) : i + 1 \in 1..Len(fetch.dirs)
      BY <2>1, <3>1, <3>2
    <3>4. DistinctElements(Tail(fetch.dirs))
      <4> SUFFICES ASSUME NEW i \in 1..Len(Tail(fetch.dirs)), NEW j \in 1..Len(Tail(fetch.dirs)),
                          Tail(fetch.dirs)[i] = Tail(fetch.dirs)[j]
                   PROVE  i = j
        BY DEF DistinctElements
      <4>1. i + 1 = j + 1
        BY <3>1, <3>2, <3>3 DEF DistinctElements
      <4> QED  BY <4>1
    <3>5. \A d \in SetOf(Tail(fetch.dirs)) : d \in SetOf(fetch.dirs)
      BY <3>2, <3>3 DEF SetOf
    <3> QED  BY <3>1, <3>2, <3>4, <3>5
  <2>3. answer \in Seq(S) /\ SetOf(answer) = S
    BY <2>2, AnswerOf
  <2>4. \A e \in S : e \in Paths \ {<<>>} /\ (e \in Files => Present(e))
    <3> SUFFICES ASSUME NEW e \in S PROVE e \in Paths \ {<<>>} /\ (e \in Files => Present(e))
      OBVIOUS
    <3>1. PICK f \in Files : repo[f] # Absent /\ IsStrictPrefix(dir, f) /\ e = Entry(dir, f)
      BY DEF EntriesOf
    <3>2. e \in Paths \ {<<>>} /\ (e = f \/ IsStrictPrefix(e, f))
      BY <2>2, <3>1, EntryOf, FilePaths
    <3> QED  BY <3>1, <3>2, FetchAssumption DEF Present
  <2>5. answer \in Seq(Paths \ {<<>>})
    <3>1. S \subseteq Paths \ {<<>>}
      BY <2>4
    <3> QED  BY <2>3, <3>1
  <2>6. found.seen = fetch.seen /\ found.dirs = Tail(fetch.dirs) /\ found.tree = fetch.tree
    OBVIOUS
  <2> HIDE DEF found, S, dir
  <2>7. /\ next.seen = fetch.seen \cup S
        /\ TreeOK(next.seen, next.tree, repo, head)
        /\ next.dirs \in Seq(Paths) /\ DistinctElements(next.dirs)
        /\ SetOf(next.dirs) = SetOf(Tail(fetch.dirs)) \cup (S \ (Files \cup fetch.seen))
    <3>1. RepositoryOK /\ TreeOK(found.seen, found.tree, repo, head)
      BY <2>1, <2>6 DEF ReadInv, WalkOK
    <3>2. \A e \in SetOf(answer) : e \in Files => Present(e)
      BY <2>3, <2>4
    <3>3. /\ \A d \in SetOf(found.dirs) : d = <<>> \/ d \in found.seen
          /\ found.dirs \in Seq(Paths) /\ DistinctElements(found.dirs)
      BY <2>2, <2>6
    <3>4. /\ next.seen = found.seen \cup SetOf(answer)
          /\ TreeOK(next.seen, next.tree, repo, head)
          /\ next.dirs \in Seq(Paths) /\ DistinctElements(next.dirs)
          /\ SetOf(next.dirs) = SetOf(found.dirs) \cup (SetOf(answer) \ (Files \cup found.seen))
      BY <2>5, <3>1, <3>2, <3>3, VisitAll, Zenon
    <3> HIDE DEF next
    <3> QED  BY <2>3, <2>6, <3>4
  <2> HIDE DEF next
  <2>8. DirsOK(next.seen, next.dirs) /\ Covered(next.seen, next.dirs, repo, fetch.since)
    BY <2>1, <2>7, WalkGoesOn DEF WalkOK, S, dir
  <2>9. WalkOK(next.seen, next.dirs, next.tree, repo, head, fetch.since)
    BY <2>7, <2>8 DEF WalkOK
  <2>10. FailFetch("too_large") \/ fetch' = [fetch EXCEPT !.seen = next.seen, !.dirs = next.dirs, !.tree = next.tree, !.pc = pc]
    BY <1>5, Zenon DEF next
  <2>11. CASE FailFetch("too_large")
    BY <1>3, <1>5, <2>11
  <2>12. CASE fetch' = [fetch EXCEPT !.seen = next.seen, !.dirs = next.dirs, !.tree = next.tree, !.pc = pc]
    <3> HIDE DEF pc
    <3>1. /\ fetch'.seen = next.seen /\ fetch'.dirs = next.dirs /\ fetch'.tree = next.tree /\ fetch'.pc = pc
          /\ fetch'.mode = fetch.mode /\ fetch'.kind = fetch.kind /\ fetch'.since = fetch.since
          /\ fetch'.doc = fetch.doc /\ fetch'.cfg = fetch.cfg /\ fetch'.files = fetch.files
          /\ fetch'.err = fetch.err /\ fetch'.cancelled = fetch.cancelled
      BY <2>12 DEF ReadInv, ErrorInv, Fields
    <3>2. \/ pc = "tree" /\ next.dirs # <<>>
          \/ pc = "config" /\ next.dirs = <<>> /\ fetch.mode = "listing"
          \/ pc = "select" /\ next.dirs = <<>> /\ fetch.mode = "loop"
      BY <2>1 DEF pc, AfterTree
    <3>3. RepositoryOK' /\ ReadTypes'
      BY <1>1, <1>5, <3>1, <3>2 DEF ReadInv, RepositoryOK, ReadTypes
    <3>4. WalkInv'
      BY <1>1, <2>1, <2>9, <3>1, <3>2 DEF ReadInv, WalkInv
    <3>5. FilesInv'
      BY <1>1, <3>1, <3>2 DEF ReadInv, FilesInv
    <3> QED  BY <1>2, <3>3, <3>4, <3>5 DEF ReadInv
  <2> QED  BY <2>10, <2>11, <2>12
<1> HIDE DEF found, dir
<1> QED  BY <1>3, <1>4, <1>5, Zenon DEF ListDirectory, found, dir

(* The configuration is read; the walk is kept, or begins anew.            *)
LEMMA ReadConfigKeeps == ASSUME ReadInv, ReadConfig PROVE ReadInv'
<1>1. fetch.pc = "config" /\ head' = head /\ repo' = repo /\ jobs' = jobs /\ worker' = worker /\ gone' = gone
  BY DEF ReadConfig, Reading, OnlyFetch
<1>2. ErrorInv'
  BY ReadConfigKeepsErrors DEF ReadInv
<1>2a. \/ Unreachable \/ Cancelled
       \/ \E doc, misread : Used(doc, misread) /\ faults' \in 0..MaxFaults
  <2>1. UNCHANGED faults \/ EndsEarly(gone) => faults' \in 0..MaxFaults
    BY RepositoryAssumption DEF EndsEarly, Fault, ReadInv, RepositoryOK
  <2> QED  BY <2>1, ReadConfigUses DEF ReadInv
<1>3. CASE Unreachable \/ Cancelled
  BY <1>1, <1>2, <1>3, ReadCallFails
<1>4. CASE \E doc, misread : Used(doc, misread) /\ faults' \in 0..MaxFaults
  <2> PICK doc, misread : Used(doc, misread) /\ faults' \in 0..MaxFaults
    BY <1>4
  <2>1. RepositoryOK' /\ fetch.since <= head'
    BY <1>1 DEF ReadInv, RepositoryOK, ReadTypes
  <2>2. CASE FailFetch("invalid_ai_config")
    BY <1>1, <1>2, <2>1, <2>2, ReadFails DEF Errors, ReadInv, ReadTypes
  <2>3. CASE ToPool(doc, misread)
    <3>1. /\ fetch'.seen = fetch.seen /\ fetch'.dirs = fetch.dirs /\ fetch'.tree = fetch.tree /\ fetch'.pc = "select"
          /\ fetch'.mode = "pool" /\ fetch'.kind = fetch.kind /\ fetch'.since = fetch.since
          /\ fetch'.doc = doc /\ fetch'.cfg = ParseAIConfig(doc) /\ fetch'.files = fetch.files
          /\ fetch'.err = fetch.err /\ fetch'.cancelled = fetch.cancelled /\ fetch.mode = "listing"
      BY <2>3 DEF ReadInv, ErrorInv, Fields, ToPool
    <3>2. ReadTypes'
      BY <1>1, <3>1 DEF ReadInv, ReadTypes
    <3>3. WalkInv' /\ FilesInv'
      BY <1>1, <3>1 DEF ReadInv, WalkInv, FilesInv
    <3> QED  BY <1>2, <2>1, <3>2, <3>3 DEF ReadInv
  <2>4. CASE ToLoop(doc, misread)
    <3>1. /\ fetch'.seen = {} /\ fetch'.dirs = << <<>> >> /\ fetch'.tree = <<>> /\ fetch'.pc = "tree"
          /\ fetch'.mode = "loop" /\ fetch'.kind = fetch.kind /\ fetch'.since = fetch.since
          /\ fetch'.doc = doc /\ fetch'.cfg = ParseAIConfig(doc) /\ fetch'.files = fetch.files
          /\ fetch'.err = fetch.err /\ fetch'.cancelled = fetch.cancelled
      BY <2>4 DEF ReadInv, ErrorInv, Fields, ToLoop
    <3>2. ReadTypes'
      BY <1>1, <3>1 DEF ReadInv, ReadTypes
    <3>3. WalkOK(fetch'.seen, fetch'.dirs, fetch'.tree, repo', head', fetch'.since)
      BY <3>1, WalkBegins
    <3>4. WalkInv' /\ FilesInv'
      BY <1>1, <3>1, <3>3 DEF ReadInv, WalkInv, FilesInv
    <3> QED  BY <1>2, <2>1, <3>2, <3>4 DEF ReadInv
  <2> QED  BY <2>2, <2>3, <2>4 DEF Used
<1> QED  BY <1>2a, <1>3, <1>4

-----------------------------------------------------------------------------
(* The selection *)

(* When no directory waits, the selection has every wanted file that has   *)
(* not changed.                                                            *)
LEMMA SelectedWell ==
  ASSUME NEW seen, NEW tree, NEW present, NEW newest \in Nat, NEW since, NEW doc,
         WalkOK(seen, <<>>, tree, present, newest, since)
  PROVE  LET files == Selection(tree, ParseAIConfig(doc))
         IN  /\ FilesOK(files, doc, present, newest, since) /\ Whole(files, seen, doc, present, since, {})
             /\ \A i \in 1..Len(files) : files[i].at = Absent
<1> DEFINE files == Selection(tree, ParseAIConfig(doc))
<1>1. TreeOK(seen, tree, present, newest) /\ Covered(seen, <<>>, present, since)
  BY DEF WalkOK
<1>2. /\ files \in Seq(FileType) /\ DistinctPaths(files)
      /\ \A i \in 1..Len(files) : /\ Wanted(files[i].path, doc) /\ ListedWell(files[i], present, newest)
                                  /\ files[i].at = Absent
      /\ \A f \in seen \cap Files : Wanted(f, doc) =>
            f \in PathsOf(files) \/ Cardinality(WantedSeen(seen, doc)) > FileLimit
  BY <1>1, SelectionIsRight, Zenon
<1> HIDE DEF files
<1>3. FilesOK(files, doc, present, newest, since)
  BY <1>2 DEF FilesOK, FileOK
<1>4. SetOf(<<>>) = {}
  BY DEF SetOf
<1>5. \A f \in Files : present[f] \in 1..since => f \in seen
  BY <1>1, <1>4 DEF Covered
<1>6. Whole(files, seen, doc, present, since, {})
  BY <1>2, <1>5 DEF Whole
<1> QED  BY <1>2, <1>3, <1>6, Zenon DEF files

(* The goroutines of a pool, and its channel, when it starts.              *)
LEMMA PoolStarts ==
  ASSUME NEW files \in Seq(FileType), files # <<>>, NEW running \in SUBSET Workers, NEW over,
         Cardinality(running) = (IF Len(files) < Cardinality(Workers) THEN Len(files) ELSE Cardinality(Workers)),
         NEW todo, todo = [i \in 1..Len(files) |-> i],
         NEW crew, crew = [w \in Workers |-> [pc |-> IF w \in running THEN "take" ELSE "off", index |-> 0]]
  PROVE  crew \in Crew /\ PoolOK(files, todo, crew, over)
<1> DEFINE n == Len(files)
<1>1. n \in Nat /\ n >= 1
  OBVIOUS
<1>2. IsFiniteSet(Workers) /\ Cardinality(Workers) \in Nat /\ Cardinality(Workers) # 0
  BY FetchAssumption, FS_CardinalityType, FS_EmptySet
<1>3. Cardinality(running) # 0
  BY <1>1, <1>2
<1>4. running # {}
  BY <1>3, FS_EmptySet
<1>5. \A w \in Workers : crew[w].pc # "get"
  OBVIOUS
<1>6. ~ \A w \in Workers : crew[w].pc = "off"
  BY <1>4
<1>7. crew \in Crew
  BY DEF Crew
<1> HIDE DEF n
<1>8. todo \in Seq(1..n) /\ Len(todo) = n /\ \A i \in 1..n : todo[i] = i
  <2>1. todo = [i \in 1..n |-> i]
    BY DEF n
  <2>2. todo \in Seq(1..n)
    BY <1>1, <2>1, IsASeq
  <2> QED  BY <1>1, <2>1, <2>2
<1>9. \A i \in 1..n : i \in SetOf(todo)
  BY <1>8 DEF SetOf
<1> QED  BY <1>5, <1>6, <1>7, <1>8, <1>9 DEF PoolOK, n

(* The files are selected, and the loop or the pool begins.                *)
LEMMA SelectKeeps == ASSUME ReadInv, Select PROVE ReadInv'
<1> DEFINE files == Selection(fetch.tree, fetch.cfg)
<1>1. fetch.pc = "select" /\ head' = head /\ repo' = repo /\ faults' = faults /\ gone' = gone
  BY DEF Select, Reading
<1>2. ErrorInv' /\ RepositoryOK'
  BY <1>1, SelectKeepsErrors DEF ReadInv, RepositoryOK
<1>3. /\ FilesOK(files, fetch.doc, repo, head, fetch.since)
      /\ Whole(files, fetch.seen, fetch.doc, repo, fetch.since, {})
      /\ \A i \in 1..Len(files) : files[i].at = Absent
  <2>1. WalkOK(fetch.seen, <<>>, fetch.tree, repo, head, fetch.since) /\ fetch.cfg = ParseAIConfig(fetch.doc)
    BY <1>1 DEF ReadInv, WalkInv
  <2>2. head \in Nat
    BY RepositoryAssumption DEF ReadInv, RepositoryOK
  <2>3. LET chosen == Selection(fetch.tree, ParseAIConfig(fetch.doc))
        IN  /\ FilesOK(chosen, fetch.doc, repo, head, fetch.since)
            /\ Whole(chosen, fetch.seen, fetch.doc, repo, fetch.since, {})
            /\ \A i \in 1..Len(chosen) : chosen[i].at = Absent
    BY <2>1, <2>2, SelectedWell
  <2>4. files = Selection(fetch.tree, ParseAIConfig(fetch.doc))
    BY <2>1
  <2> HIDE DEF files
  <2> QED  BY <2>3, <2>4, Zenon
<1>4. /\ files = <<>> /\ fetch' = [fetch EXCEPT !.pc = "done"] /\ UNCHANGED <<jobs, worker>>
      \/ /\ files # <<>> /\ fetch' = [fetch EXCEPT !.pc = "get", !.files = files] /\ UNCHANGED <<jobs, worker>>
      \/ /\ files # <<>> /\ fetch' = [fetch EXCEPT !.pc = "pool", !.files = files]
         /\ jobs' = [i \in 1..Len(files) |-> i]
         /\ \E running \in SUBSET Workers :
               /\ Cardinality(running) = (IF Len(files) < Cardinality(Workers) THEN Len(files) ELSE Cardinality(Workers))
               /\ worker' = [w \in Workers |-> [pc |-> IF w \in running THEN "take" ELSE "off", index |-> 0]]
  BY Zenon DEF Select
<1> HIDE DEF files
<1>5. fetch.files = <<>>
  BY <1>1 DEF ReadInv, FilesInv
<1>6. files \in Seq(FileType)
  BY <1>3 DEF FilesOK
<1>7. ASSUME NEW pc \in {"done", "get", "pool"}, worker' \in Crew,
             fetch' = [fetch EXCEPT !.pc = pc, !.files = files],
             pc = "done" => files = <<>>, pc = "get" => files # <<>>,
             pc = "pool" => PoolOK(files, jobs', worker', gone \/ fetch.err # None)
      PROVE  ReadInv'
  <2>1. /\ fetch'.seen = fetch.seen /\ fetch'.pc = pc /\ fetch'.mode = fetch.mode /\ fetch'.kind = fetch.kind
        /\ fetch'.since = fetch.since /\ fetch'.doc = fetch.doc /\ fetch'.files = files
        /\ fetch'.err = fetch.err /\ fetch'.cancelled = fetch.cancelled
    BY <1>7 DEF ReadInv, ErrorInv, Fields
  <2>2. ReadTypes' /\ WalkInv'
    BY <1>1, <1>7, <2>1 DEF ReadInv, ReadTypes, WalkInv
  <2>3. Whole(files, fetch.seen, fetch.doc, repo, fetch.since, Binary \cup Cut')
    BY <1>3 DEF Whole
  <2>4. pc = "get" => \E k \in 1..Len(files) : ReadTo(files, k)
    <3>1. ReadTo(files, 1)
      BY <1>3 DEF ReadTo
    <3>2. files # <<>> => 1 \in 1..Len(files)
      BY <1>6
    <3> QED  BY <1>7, <3>1, <3>2
  <2>5. pc = "done" => AllRead(files)
    BY <1>7 DEF AllRead
  <2>6. FilesInv'
    BY <1>1, <1>3, <1>7, <2>1, <2>3, <2>4, <2>5 DEF FilesInv
  <2> QED  BY <1>2, <2>2, <2>6 DEF ReadInv
<1>8. worker \in Crew
  BY DEF ReadInv, ReadTypes
<1>9. CASE files = <<>> /\ fetch' = [fetch EXCEPT !.pc = "done"] /\ UNCHANGED <<jobs, worker>>
  <2>1. fetch' = [fetch EXCEPT !.pc = "done", !.files = files]
    BY <1>5, <1>9 DEF ReadInv, ErrorInv, Fields
  <2> QED  BY <1>7, <1>8, <1>9, <2>1
<1>10. CASE /\ files # <<>> /\ fetch' = [fetch EXCEPT !.pc = "get", !.files = files] /\ UNCHANGED <<jobs, worker>>
  BY <1>7, <1>8, <1>10
<1>11. CASE /\ files # <<>> /\ fetch' = [fetch EXCEPT !.pc = "pool", !.files = files]
            /\ jobs' = [i \in 1..Len(files) |-> i]
            /\ \E running \in SUBSET Workers :
                 /\ Cardinality(running) = (IF Len(files) < Cardinality(Workers) THEN Len(files) ELSE Cardinality(Workers))
                 /\ worker' = [w \in Workers |-> [pc |-> IF w \in running THEN "take" ELSE "off", index |-> 0]]
  <2>1. worker' \in Crew /\ PoolOK(files, jobs', worker', gone \/ fetch.err # None)
    BY <1>6, <1>11, PoolStarts
  <2> QED  BY <1>7, <1>11, <2>1
<1> QED  BY <1>4, <1>9, <1>10, <1>11

-----------------------------------------------------------------------------
(* The contents *)

(* The content of a file arrives: it is not older than the tree.           *)
LEMMA FileIsRead ==
  ASSUME RepositoryOK, NEW files, NEW doc, NEW since, FilesOK(files, doc, repo, head, since),
         NEW i \in 1..Len(files), repo[files[i].path] # Absent,
         NEW read, read = [files EXCEPT ![i].at = repo[files[i].path]]
  PROVE  /\ FilesOK(read, doc, repo, head, since) /\ Len(read) = Len(files) /\ PathsOf(read) = PathsOf(files)
         /\ \A n \in 1..Len(files) : read[n].at # Absent <=> (n = i \/ files[n].at # Absent)
<1> DEFINE n == Len(files)
           content == repo[files[i].path]
<1>1. files \in Seq(FileType) /\ DistinctPaths(files) /\ \A k \in 1..n : FileOK(files[k], doc, repo, head, since)
  BY DEF FilesOK
<1>2. files[i] \in FileType /\ files[i].path \in Files
  <2>1. files[i] \in FileType
    BY <1>1, ElementOfSeq
  <2> QED  BY <2>1 DEF FileType
<1>3. content \in 1..head /\ content >= files[i].listed /\ content \in Nat
  <2>1. ListedWell(files[i], repo, head)
    BY <1>1 DEF FileOK
  <2>2. content \in 0..head /\ content # 0 /\ head \in Nat
    BY <1>2, RepositoryAssumption DEF RepositoryOK, Absent
  <2> QED  BY <1>2, <2>1, <2>2 DEF ListedWell, Absent
<1> HIDE DEF content
<1>4. read = [files EXCEPT ![i].at = content]
  BY DEF content
<1>5. [files[i] EXCEPT !.at = content] \in FileType
  BY <1>2, <1>3 DEF FileType
<1>6. read = [files EXCEPT ![i] = [files[i] EXCEPT !.at = content]]
  BY <1>4
<1>7. read \in Seq(FileType) /\ Len(read) = n
  BY <1>1, <1>5, <1>6, ExceptSeq
<1>8. \A k \in 1..n : read[k] = IF k = i THEN [files[i] EXCEPT !.at = content] ELSE files[k]
  BY <1>1, <1>6
<1>9. \A k \in 1..n : read[k].path = files[k].path
  BY <1>2, <1>8 DEF FileType
<1>10. [files[i] EXCEPT !.at = content].at = content /\ content # Absent
  BY <1>2, <1>3 DEF FileType, Absent
<1>11. FileOK(read[i], doc, repo, head, since)
  <2> DEFINE f == [files[i] EXCEPT !.at = content]
  <2>1. f.path = files[i].path /\ f.listed = files[i].listed /\ f.at = content /\ f.listed \in Nat
    BY <1>2 DEF FileType
  <2>2. FileOK(files[i], doc, repo, head, since) /\ read[i] = f
    BY <1>1, <1>8
  <2> HIDE DEF f
  <2>3. f.at \in f.listed..head /\ repo[f.path] = f.at
    BY <1>3, <2>1 DEF content
  <2>4. Wanted(f.path, doc) /\ ListedWell(f, repo, head)
    BY <2>1, <2>2 DEF FileOK, ListedWell
  <2> QED  BY <2>2, <2>3, <2>4 DEF FileOK
<1>12. \A k \in 1..n : FileOK(read[k], doc, repo, head, since)
  BY <1>1, <1>8, <1>11
<1> HIDE DEF n
<1>13. DistinctPaths(read) /\ PathsOf(read) = PathsOf(files)
  BY <1>1, <1>7, <1>9 DEF DistinctPaths, PathsOf, n
<1> QED  BY <1>7, <1>8, <1>10, <1>12, <1>13 DEF FilesOK, n

(* The loop reads the files in order.                                      *)
LEMMA NextToRead ==
  ASSUME NEW files, NEW k \in 1..Len(files), ReadTo(files, k), Len(files) \in Nat
  PROVE  (CHOOSE n \in 1..Len(files) : files[n].at = Absent /\ \A m \in 1..n-1 : files[m].at # Absent) = k
<1>1. files[k].at = Absent /\ \A m \in 1..k-1 : files[m].at # Absent
  BY DEF ReadTo
<1>2. ASSUME NEW n \in 1..Len(files), files[n].at = Absent, \A m \in 1..n-1 : files[m].at # Absent
      PROVE  n = k
  <2>1. ~(n < k)
    BY <1>2 DEF ReadTo
  <2>2. ~(k < n)
    BY <1>1, <1>2
  <2> QED  BY <2>1, <2>2
<1> QED  BY <1>1, <1>2

(* A body arrives with at most one failure.                                *)
LEMMA ArrivalFaults ==
  ASSUME RepositoryOK, NEW path, NEW stopped, NEW torn, Arrives(path, stopped, torn)
  PROVE  /\ faults' \in 0..MaxFaults /\ faults <= faults'
         /\ \/ torn = fetch.torn
            \/ torn = fetch.torn \cup {path} /\ (stopped \/ faults < faults')
  BY RepositoryAssumption DEF Arrives, EndsEarly, Fault, RepositoryOK

(* The loop fetches a file.                                                *)
LEMMA GetNextKeeps == ASSUME ReadInv, GetNext PROVE ReadInv'
<1> DEFINE n == Len(fetch.files)
<1>1. fetch.pc = "get" /\ head' = head /\ repo' = repo /\ jobs' = jobs /\ worker' = worker /\ gone' = gone
  BY DEF GetNext, Reading, OnlyFetch
<1>2. ErrorInv'
  BY GetNextKeepsErrors DEF ReadInv
<1>3. /\ FilesOK(fetch.files, fetch.doc, repo, head, fetch.since)
      /\ Whole(fetch.files, fetch.seen, fetch.doc, repo, fetch.since, {})
  BY <1>1 DEF ReadInv, FilesInv
<1>4. PICK k \in 1..n : ReadTo(fetch.files, k)
  BY <1>1 DEF ReadInv, FilesInv
<1>4a. n \in Nat
  BY <1>3 DEF FilesOK
<1>5. (CHOOSE m \in 1..n : fetch.files[m].at = Absent /\ \A l \in 1..m-1 : fetch.files[l].at # Absent) = k
  BY <1>4, <1>4a, NextToRead
<1> DEFINE content == repo[fetch.files[k].path]
           read == [fetch.files EXCEPT ![k].at = content]
           pc == IF k = n THEN "done" ELSE "get"
           path == fetch.files[k].path
<1>6. \/ /\ content # Absent
         /\ \E torn : Arrives(path, gone, torn) /\ fetch' = [fetch EXCEPT !.files[k].at = content, !.torn = torn, !.pc = pc]
      \/ FailFetch("not_found") /\ UNCHANGED faults
      \/ Unreachable \/ Cancelled
  BY <1>5, Zenon DEF GetNext
<1> HIDE DEF content, pc
<1>7. CASE FailFetch("not_found") /\ UNCHANGED faults
  <2>1. RepositoryOK' /\ fetch.since <= head'
    BY <1>1, <1>7 DEF ReadInv, RepositoryOK, ReadTypes
  <2> QED  BY <1>1, <1>2, <1>7, <2>1, ReadFails DEF Errors, ReadInv, ReadTypes
<1>8. CASE Unreachable \/ Cancelled
  BY <1>1, <1>2, <1>8, ReadCallFails
<1>9. CASE /\ content # Absent
           /\ \E torn : Arrives(path, gone, torn) /\ fetch' = [fetch EXCEPT !.files[k].at = content, !.torn = torn, !.pc = pc]
  <2> PICK torn : Arrives(path, gone, torn) /\ fetch' = [fetch EXCEPT !.files[k].at = content, !.torn = torn, !.pc = pc]
    BY <1>9
  <2>1. RepositoryOK' /\ RepositoryOK
    BY <1>1, ArrivalFaults DEF ReadInv, RepositoryOK
  <2>2. /\ fetch'.seen = fetch.seen /\ fetch'.pc = pc /\ fetch'.mode = fetch.mode /\ fetch'.kind = fetch.kind
        /\ fetch'.since = fetch.since /\ fetch'.doc = fetch.doc /\ fetch'.files = read
        /\ fetch'.err = fetch.err /\ fetch'.cancelled = fetch.cancelled
    BY <1>9 DEF ReadInv, ErrorInv, Fields
  <2>3. /\ FilesOK(read, fetch.doc, repo, head, fetch.since) /\ Len(read) = n /\ PathsOf(read) = PathsOf(fetch.files)
        /\ \A m \in 1..n : read[m].at # Absent <=> (m = k \/ fetch.files[m].at # Absent)
    BY <1>3, <1>4, <1>9, <2>1, FileIsRead DEF content
  <2> HIDE DEF read
  <2>4. /\ Whole(read, fetch.seen, fetch.doc, repo, fetch.since, {})
        /\ Whole(read, fetch.seen, fetch.doc, repo, fetch.since, Binary \cup Cut')
    BY <1>3, <2>3 DEF Whole
  <2>5. \A m \in 1..n : read[m].at # Absent <=> m < k + 1
    BY <1>4, <2>3 DEF ReadTo
  <2> HIDE DEF n
  <2>6. k # n => ReadTo(read, k + 1) /\ k + 1 \in 1..Len(read)
    BY <1>4, <1>4a, <2>3, <2>5 DEF ReadTo
  <2>7. k = n => AllRead(read)
    BY <1>4a, <2>3, <2>5 DEF AllRead
  <2>8. ReadTypes' /\ WalkInv'
    BY <1>1, <2>2 DEF ReadInv, ReadTypes, WalkInv, pc
  <2>9. FilesInv'
    BY <1>1, <2>2, <2>3, <2>4, <2>6, <2>7 DEF FilesInv, pc
  <2> QED  BY <1>2, <2>1, <2>8, <2>9 DEF ReadInv
<1> QED  BY <1>6, <1>7, <1>8, <1>9

-----------------------------------------------------------------------------
(* The pool *)

(* A goroutine takes an index out of the channel, so that the file is with *)
(* it; it stops only when the channel is empty or the work given up.       *)
LEMMA TakeIndexKeeps == ASSUME ReadInv, NEW w \in Workers, TakeIndex(w) PROVE ReadInv'
<1> DEFINE over == gone \/ fetch.err # None
           files == fetch.files
           n == Len(files)
<1>1. fetch.pc = "pool" /\ head' = head /\ repo' = repo /\ faults' = faults /\ fetch' = fetch /\ gone' = gone
      /\ worker[w].pc = "take"
  BY DEF TakeIndex, Reading
<1>2. ErrorInv' /\ RepositoryOK'
  BY <1>1, TakeIndexKeepsErrors DEF ReadInv, RepositoryOK
<1>3. PoolOK(files, jobs, worker, over) /\ worker \in Crew
  BY <1>1 DEF ReadInv, FilesInv, ReadTypes
<1>4. files \in Seq(FileType) /\ n \in Nat
  BY <1>1 DEF ReadInv, FilesInv, FilesOK
<1>5. \/ jobs = <<>> /\ jobs' = <<>> /\ Stop(w)
      \/ jobs # <<>> /\ jobs' = Tail(jobs) /\ (gone \/ fetch.cancelled) /\ Stop(w)
      \/ /\ jobs # <<>> /\ jobs' = Tail(jobs)
         /\ worker' = [worker EXCEPT ![w] = [pc |-> "get", index |-> Head(jobs)]]
  BY DEF TakeIndex
<1>6. fetch.cancelled => over
  BY DEF ReadInv, ErrorInv
<1> HIDE DEF over, files, n
<1>7. /\ jobs \in Seq(1..n)
      /\ \A v \in Workers : worker[v].pc = "get" => worker[v].index \in 1..n
      /\ \A m \in 1..n :
            \/ files[m].at # Absent \/ m \in SetOf(jobs) \/ over
            \/ \E v \in Workers : worker[v].pc = "get" /\ worker[v].index = m
      /\ (\A v \in Workers : worker[v].pc = "off") => jobs = <<>> \/ over
  BY <1>3 DEF PoolOK, n
<1>8. jobs # <<>> => /\ Head(jobs) \in 1..n /\ Tail(jobs) \in Seq(1..n)
                     /\ SetOf(jobs) = SetOf(Tail(jobs)) \cup {Head(jobs)}
  <2> SUFFICES ASSUME jobs # <<>> PROVE /\ Head(jobs) \in 1..n /\ Tail(jobs) \in Seq(1..n)
                                        /\ SetOf(jobs) = SetOf(Tail(jobs)) \cup {Head(jobs)}
    OBVIOUS
  <2>0. jobs \in Seq(1..n)
    BY <1>7
  <2> DEFINE S == 1..n
  <2>0a. jobs \in Seq(S)
    BY <2>0
  <2> HIDE DEF S
  <2>0b. Head(jobs) = jobs[1] /\ Head(jobs) \in S /\ Tail(jobs) \in Seq(S)
    BY <2>0a, HeadTailProperties
  <2>0c. Len(jobs) \in Nat /\ Len(jobs) >= 1
    BY <2>0a
  <2>1. /\ Len(jobs) \in Nat /\ Len(jobs) >= 1 /\ Head(jobs) = jobs[1] /\ Head(jobs) \in 1..n /\ Tail(jobs) \in Seq(1..n)
    BY <2>0b, <2>0c DEF S
  <2>2. Len(Tail(jobs)) = Len(jobs) - 1 /\ \A i \in 1..Len(Tail(jobs)) : Tail(jobs)[i] = jobs[i+1]
    BY <1>7, HeadTailProperties
  <2>3. \A i \in 1..Len(jobs) : i = 1 \/ (i - 1 \in 1..Len(Tail(jobs)) /\ (i - 1) + 1 = i)
    BY <2>1, <2>2
  <2>3a. 1 \in 1..Len(jobs) /\ \A i \in 1..Len(Tail(jobs)) : i + 1 \in 1..Len(jobs)
    BY <2>1, <2>2
  <2>4. \A i \in 1..Len(jobs) : jobs[i] \in SetOf(Tail(jobs)) \cup {Head(jobs)}
    <3> SUFFICES ASSUME NEW i \in 1..Len(jobs), i # 1 PROVE jobs[i] \in SetOf(Tail(jobs))
      BY <2>1
    <3>1. i - 1 \in 1..Len(Tail(jobs)) /\ jobs[i] = Tail(jobs)[i-1]
      BY <2>2, <2>3
    <3> QED  BY <3>1 DEF SetOf
  <2>5. \A x \in SetOf(Tail(jobs)) \cup {Head(jobs)} : \E i \in 1..Len(jobs) : x = jobs[i]
    BY <2>1, <2>2, <2>3a DEF SetOf
  <2>6. SetOf(jobs) \subseteq SetOf(Tail(jobs)) \cup {Head(jobs)}
    BY <2>4 DEF SetOf
  <2>7. SetOf(Tail(jobs)) \cup {Head(jobs)} \subseteq SetOf(jobs)
    BY <2>5 DEF SetOf
  <2> QED  BY <2>1, <2>6, <2>7
<1>9. worker' \in Crew /\ PoolOK(files, jobs', worker', over)
  <2>1. CASE Stop(w) /\ ((jobs' = jobs /\ jobs = <<>>) \/ (jobs' \in Seq(1..n) /\ over))
    <3>1. worker' = [worker EXCEPT ![w] = [pc |-> "off", index |-> 0]]
      BY <2>1 DEF Stop
    <3>2. worker' \in Crew
      BY <1>3, <3>1 DEF Crew
    <3>3. \A v \in Workers : worker'[v].pc = "get" <=> worker[v].pc = "get"
      BY <1>1, <1>3, <3>1 DEF Crew
    <3>4. \A v \in Workers : worker[v].pc = "get" => worker'[v] = worker[v]
      BY <1>1, <1>3, <3>1 DEF Crew
    <3>5. jobs' \in Seq(1..n)
      BY <1>7, <2>1
    <3>6. /\ \A v \in Workers : worker'[v].pc = "get" => worker'[v].index \in 1..n
          /\ \A m \in 1..n :
                \/ files[m].at # Absent \/ m \in SetOf(jobs') \/ over
                \/ \E v \in Workers : worker'[v].pc = "get" /\ worker'[v].index = m
          /\ (\A v \in Workers : worker'[v].pc = "off") => jobs' = <<>> \/ over
      BY <1>7, <2>1, <3>3, <3>4
    <3> QED  BY <3>2, <3>5, <3>6 DEF PoolOK, n
  <2>2. CASE /\ jobs # <<>> /\ jobs' = Tail(jobs)
             /\ worker' = [worker EXCEPT ![w] = [pc |-> "get", index |-> Head(jobs)]]
    <3>1. Head(jobs) \in 1..n /\ jobs' \in Seq(1..n) /\ SetOf(jobs) = SetOf(jobs') \cup {Head(jobs)} /\ Head(jobs) \in Nat
      BY <1>8, <2>2
    <3>2. worker' \in Crew
      BY <1>3, <2>2, <3>1 DEF Crew
    <3>3. worker'[w] = [pc |-> "get", index |-> Head(jobs)] /\ \A v \in Workers \ {w} : worker'[v] = worker[v]
      BY <1>3, <2>2 DEF Crew
    <3>4. \A v \in Workers : worker'[v].pc = "get" => worker'[v].index \in 1..n
      BY <1>7, <3>1, <3>3
    <3>5. \A m \in 1..n :
             \/ files[m].at # Absent \/ m \in SetOf(jobs') \/ over
             \/ \E v \in Workers : worker'[v].pc = "get" /\ worker'[v].index = m
      BY <1>1, <1>7, <3>1, <3>3
    <3>6. ~ \A v \in Workers : worker'[v].pc = "off"
      BY <3>3
    <3> QED  BY <3>1, <3>2, <3>4, <3>5, <3>6 DEF PoolOK, n
  <2>3. \/ Stop(w) /\ ((jobs' = jobs /\ jobs = <<>>) \/ (jobs' \in Seq(1..n) /\ over))
        \/ jobs # <<>> /\ jobs' = Tail(jobs) /\ worker' = [worker EXCEPT ![w] = [pc |-> "get", index |-> Head(jobs)]]
    <3>1. jobs # <<>> /\ jobs' = Tail(jobs) => jobs' \in Seq(1..n)
      BY <1>8
    <3>2. gone \/ fetch.cancelled => over
      BY <1>6 DEF over
    <3>3. jobs = <<>> /\ jobs' = <<>> => jobs' = jobs
      OBVIOUS
    <3> QED  BY <1>5, <3>1, <3>2, <3>3, Zenon
  <2> QED  BY <2>1, <2>2, <2>3
<1>10. ReadTypes' /\ WalkInv'
  BY <1>1, <1>9 DEF ReadInv, ReadTypes, WalkInv
<1>11. FilesInv'
  BY <1>1, <1>9 DEF ReadInv, FilesInv, files, over
<1> QED  BY <1>2, <1>10, <1>11 DEF ReadInv

(* A goroutine that fails gives the work up, and ends.                     *)
LEMMA ReportKeeps ==
  ASSUME ReadInv, NEW w \in Workers, NEW err \in Errors \ {None}, Report(w, err), fetch.pc = "pool", worker[w].pc = "get",
         head' = head, repo' = repo, jobs' = jobs, gone' = gone, faults' \in 0..MaxFaults, ErrorInv'
  PROVE  ReadInv'
<1>1. /\ fetch'.seen = fetch.seen /\ fetch'.pc = fetch.pc /\ fetch'.mode = fetch.mode /\ fetch'.kind = fetch.kind
      /\ fetch'.since = fetch.since /\ fetch'.doc = fetch.doc /\ fetch'.files = fetch.files
      /\ fetch'.err = (IF fetch.err = None THEN err ELSE fetch.err) /\ fetch'.cancelled = TRUE
  BY DEF Report, ReadInv, ErrorInv, Fields
<1>2. worker' = [worker EXCEPT ![w] = [pc |-> "off", index |-> 0]]
  BY DEF Report, Stop
<1>3. worker \in Crew /\ PoolOK(fetch.files, jobs, worker, gone \/ fetch.err # None)
  BY DEF ReadInv, ReadTypes, FilesInv
<1>4. worker' \in Crew
  BY <1>2, <1>3 DEF Crew
<1>5. \A v \in Workers : worker'[v].pc = "get" => worker'[v] = worker[v]
  BY <1>2, <1>3 DEF Crew
<1>6. PoolOK(fetch.files, jobs, worker', TRUE)
  BY <1>3, <1>5 DEF PoolOK
<1>7. (gone' \/ fetch'.err # None) = TRUE
  BY <1>1
<1>8. RepositoryOK' /\ ReadTypes' /\ WalkInv'
  BY <1>1, <1>4 DEF ReadInv, RepositoryOK, ReadTypes, WalkInv
<1>9. FilesInv'
  BY <1>1, <1>6, <1>7 DEF ReadInv, FilesInv
<1> QED  BY <1>8, <1>9 DEF ReadInv

(* A goroutine fetches its file, or reports why it cannot.                 *)
LEMMA FetchContentKeeps == ASSUME ReadInv, NEW w \in Workers, FetchContent(w) PROVE ReadInv'
<1> DEFINE i == worker[w].index
           files == fetch.files
           n == Len(files)
           path == files[i].path
           content == repo[path]
           stopped == gone \/ fetch.cancelled
           read == [files EXCEPT ![i].at = content]
           over == gone \/ fetch.err # None
<1>1. fetch.pc = "pool" /\ head' = head /\ repo' = repo /\ jobs' = jobs /\ gone' = gone /\ worker[w].pc = "get"
  BY DEF FetchContent, Reading
<1>2. ErrorInv'
  BY FetchContentKeepsErrors DEF ReadInv
<1>3. CASE \E err \in {"not_found", "gone", "cancelled"} : Report(w, err) /\ UNCHANGED faults
  <2> PICK err \in {"not_found", "gone", "cancelled"} : Report(w, err) /\ UNCHANGED faults
    BY <1>3
  <2>1. faults' \in 0..MaxFaults /\ err \in Errors \ {None}
    BY DEF ReadInv, RepositoryOK, Errors, None
  <2> QED  BY <1>1, <1>2, <2>1, ReportKeeps
<1>4. CASE Fault /\ Report(w, "fault")
  <2>1. faults' \in 0..MaxFaults /\ "fault" \in Errors \ {None}
    BY <1>4, RepositoryAssumption DEF ReadInv, RepositoryOK, Errors, None, Fault
  <2> QED  BY <1>1, <1>2, <1>4, <2>1, ReportKeeps
<1>5. CASE /\ content # Absent
           /\ \E torn : Arrives(path, stopped, torn) /\ fetch' = [fetch EXCEPT !.files[i].at = content, !.torn = torn]
           /\ worker' = [worker EXCEPT ![w] = [pc |-> "take", index |-> 0]]
  <2> PICK torn : Arrives(path, stopped, torn) /\ fetch' = [fetch EXCEPT !.files[i].at = content, !.torn = torn]
    BY <1>5
  <2> HIDE DEF stopped
  <2>1. RepositoryOK' /\ RepositoryOK
    BY <1>1, ArrivalFaults DEF ReadInv, RepositoryOK
  <2>2. /\ fetch'.seen = fetch.seen /\ fetch'.pc = fetch.pc /\ fetch'.mode = fetch.mode /\ fetch'.kind = fetch.kind
        /\ fetch'.since = fetch.since /\ fetch'.doc = fetch.doc /\ fetch'.files = read
        /\ fetch'.err = fetch.err /\ fetch'.cancelled = fetch.cancelled
    BY <1>5 DEF ReadInv, ErrorInv, Fields
  <2>3. /\ FilesOK(files, fetch.doc, repo, head, fetch.since)
        /\ Whole(files, fetch.seen, fetch.doc, repo, fetch.since, {})
        /\ PoolOK(files, jobs, worker, over) /\ worker \in Crew
    BY <1>1 DEF ReadInv, FilesInv, ReadTypes
  <2>4. i \in 1..n
    BY <1>1, <2>3 DEF PoolOK
  <2>5. /\ FilesOK(read, fetch.doc, repo, head, fetch.since) /\ Len(read) = n /\ PathsOf(read) = PathsOf(files)
        /\ \A m \in 1..n : read[m].at # Absent <=> (m = i \/ files[m].at # Absent)
    <3>1. content # Absent
      BY <1>5
    <3> QED  BY <2>1, <2>3, <2>4, <3>1, FileIsRead
  <2> HIDE DEF read, i, over, content
  <2>6. Whole(read, fetch.seen, fetch.doc, repo, fetch.since, {})
    BY <2>3, <2>5 DEF Whole
  <2>7. worker'[w].pc = "take" /\ (\A v \in Workers \ {w} : worker'[v] = worker[v]) /\ worker' \in Crew
    BY <1>5, <2>3 DEF Crew
  <2>8. PoolOK(read, jobs, worker', over)
    <3>1. /\ jobs \in Seq(1..n)
          /\ \A v \in Workers : worker[v].pc = "get" => worker[v].index \in 1..n
          /\ \A m \in 1..n :
                \/ files[m].at # Absent \/ m \in SetOf(jobs) \/ over
                \/ \E v \in Workers : worker[v].pc = "get" /\ worker[v].index = m
      BY <2>3 DEF PoolOK
    <3>2. \A v \in Workers : worker'[v].pc = "get" => worker'[v].index \in 1..n
      BY <2>7, <3>1
    <3>3. \A m \in 1..n :
             \/ read[m].at # Absent \/ m \in SetOf(jobs) \/ over
             \/ \E v \in Workers : worker'[v].pc = "get" /\ worker'[v].index = m
      BY <2>5, <2>7, <3>1 DEF i
    <3>4. ~ \A v \in Workers : worker'[v].pc = "off"
      BY <2>7
    <3> HIDE DEF n
    <3> QED  BY <2>5, <3>1, <3>2, <3>3, <3>4 DEF PoolOK
  <2>9. (gone' \/ fetch'.err # None) = over
    BY <1>1, <2>2 DEF over
  <2>10. ReadTypes' /\ WalkInv'
    BY <1>1, <2>2, <2>7 DEF ReadInv, ReadTypes, WalkInv
  <2>11. FilesInv'
    BY <1>1, <2>2, <2>5, <2>6, <2>8, <2>9 DEF FilesInv
  <2> QED  BY <1>2, <2>1, <2>10, <2>11 DEF ReadInv
<1>6. \/ \E err \in {"not_found", "gone", "cancelled"} : Report(w, err) /\ UNCHANGED faults
      \/ Fault /\ Report(w, "fault")
      \/ /\ content # Absent
         /\ \E torn : Arrives(path, stopped, torn) /\ fetch' = [fetch EXCEPT !.files[i].at = content, !.torn = torn]
         /\ worker' = [worker EXCEPT ![w] = [pc |-> "take", index |-> 0]]
  BY Zenon DEF FetchContent
<1> QED  BY <1>3, <1>4, <1>5, <1>6

(* Files that are not text are dropped, and nothing else.                  *)
LEMMA TextIsKept ==
  ASSUME NEW files, NEW seen, NEW doc, NEW present, NEW newest, NEW since, NEW lost \in SUBSET Cut,
         FilesOK(files, doc, present, newest, since), AllRead(files), Whole(files, seen, doc, present, since, {})
  PROVE  /\ FilesOK(TextFiles(files, lost), doc, present, newest, since) /\ AllRead(TextFiles(files, lost))
         /\ Whole(TextFiles(files, lost), seen, doc, present, since, Binary \cup Cut)
<1> DEFINE but == (Binary \ Cut) \cup lost
           at == {i \in 1..Len(files) : files[i].path \notin but}
           text == TextFiles(files, lost)
           n == Len(text)
<1>1. /\ files \in Seq(FileType) /\ DistinctPaths(files)
      /\ \A i \in 1..Len(files) : FileOK(files[i], doc, present, newest, since)
  BY DEF FilesOK
<1>2. text \in Seq(FileType) /\ \E pos : Places(pos, text, files, at)
  BY <1>1, KeepElements DEF TextFiles
<1>3. PICK pos : Places(pos, text, files, at)
  BY <1>2
<1> HIDE DEF text
<1>4. /\ pos \in [1..n -> at] /\ \A k \in 1..n : text[k] = files[pos[k]]
      /\ \A k, l \in 1..n : pos[k] = pos[l] => k = l
      /\ \A i \in at : \E k \in 1..n : pos[k] = i
  BY <1>3 DEF Places
<1>5. \A k \in 1..n : pos[k] \in at /\ pos[k] \in 1..Len(files)
  BY <1>4
<1> HIDE DEF n
<1>6. \A k \in 1..n : FileOK(text[k], doc, present, newest, since) /\ text[k].at # Absent
  BY <1>1, <1>4, <1>5 DEF AllRead
<1>7. DistinctPaths(text)
  <2> SUFFICES ASSUME NEW k \in 1..n, NEW l \in 1..n, text[k].path = text[l].path PROVE k = l
    BY DEF DistinctPaths, n
  <2>1. files[pos[k]].path = files[pos[l]].path /\ pos[k] \in 1..Len(files) /\ pos[l] \in 1..Len(files)
    BY <1>4, <1>5
  <2>2. pos[k] = pos[l]
    BY <1>1, <2>1 DEF DistinctPaths
  <2> QED  BY <1>4, <2>2
<1>8. \A f \in PathsOf(files) \ but : f \in PathsOf(text)
  <2> SUFFICES ASSUME NEW f \in PathsOf(files) \ but PROVE f \in PathsOf(text)
    OBVIOUS
  <2>1. PICK i \in 1..Len(files) : files[i].path = f
    BY DEF PathsOf
  <2>2. PICK k \in 1..n : pos[k] = i
    BY <1>4, <2>1
  <2>3. text[k].path = f
    BY <1>4, <2>1, <2>2
  <2> QED  BY <2>3 DEF PathsOf, n
<1>9. Whole(text, seen, doc, present, since, Binary \cup Cut)
  BY <1>8 DEF Whole
<1> QED  BY <1>2, <1>6, <1>7, <1>9 DEF FilesOK, AllRead, text, n

(* When all goroutines have ended without an error, no file is left.       *)
LEMMA PoolIsDone ==
  ASSUME NEW files, NEW todo, NEW crew, PoolOK(files, todo, crew, FALSE), \A w \in Workers : crew[w].pc = "off"
  PROVE  AllRead(files)
<1>1. todo = <<>>
  BY DEF PoolOK
<1>2. SetOf(todo) = {}
  BY <1>1 DEF SetOf
<1>3. \A w \in Workers : crew[w].pc # "get"
  OBVIOUS
<1> QED  BY <1>2, <1>3 DEF PoolOK, AllRead

(* The pool ends, with an error or with all files.                         *)
LEMMA FinishPoolKeeps == ASSUME ReadInv, FinishPool PROVE ReadInv'
<1>1. fetch.pc = "pool" /\ head' = head /\ repo' = repo /\ faults' = faults /\ jobs' = jobs /\ worker' = worker /\ gone' = gone
      /\ \A w \in Workers : worker[w].pc = "off"
  BY DEF FinishPool, Reading
<1>2. ErrorInv' /\ RepositoryOK' /\ fetch.since <= head'
  BY <1>1, FinishPoolKeepsErrors DEF ReadInv, RepositoryOK, ReadTypes
<1>3. CASE \E err \in Errors : FailFetch(err)
  BY <1>1, <1>2, <1>3, ReadFails DEF ReadInv, ReadTypes
<1>4. CASE fetch.err = None /\ ~gone /\ HandOver
  <2>1. (gone \/ fetch.err # None) = FALSE
    BY <1>4
  <2>2. /\ FilesOK(fetch.files, fetch.doc, repo, head, fetch.since)
        /\ Whole(fetch.files, fetch.seen, fetch.doc, repo, fetch.since, {})
        /\ PoolOK(fetch.files, jobs, worker, gone \/ fetch.err # None)
    BY <1>1 DEF ReadInv, FilesInv
  <2>3. PoolOK(fetch.files, jobs, worker, FALSE)
    BY <2>1, <2>2
  <2>4. AllRead(fetch.files)
    BY <1>1, <2>3, PoolIsDone
  <2> PICK lost \in SUBSET Cut : fetch' = [fetch EXCEPT !.pc = "done", !.files = TextFiles(@, lost)]
    BY <1>4 DEF HandOver
  <2> DEFINE text == TextFiles(fetch.files, lost)
  <2>5. /\ FilesOK(text, fetch.doc, repo, head, fetch.since) /\ AllRead(text)
        /\ Whole(text, fetch.seen, fetch.doc, repo, fetch.since, Binary \cup Cut)
    BY <2>2, <2>4, TextIsKept
  <2>6. fetch' = [fetch EXCEPT !.pc = "done", !.files = text]
    OBVIOUS
  <2> HIDE DEF text
  <2>7. /\ fetch'.seen = fetch.seen /\ fetch'.pc = "done" /\ fetch'.mode = fetch.mode /\ fetch'.kind = fetch.kind
        /\ fetch'.since = fetch.since /\ fetch'.doc = fetch.doc /\ fetch'.files = text
        /\ fetch'.err = fetch.err /\ fetch'.cancelled = fetch.cancelled /\ Cut' = Cut
    BY <2>6 DEF ReadInv, ErrorInv, Fields, Cut
  <2>8. ReadTypes' /\ WalkInv'
    BY <1>1, <2>7 DEF ReadInv, ReadTypes, WalkInv
  <2>9. FilesInv'
    BY <1>1, <2>5, <2>7 DEF FilesInv
  <2> QED  BY <1>2, <2>8, <2>9 DEF ReadInv
<1>5. \/ fetch.err # None /\ FailFetch(fetch.err)
      \/ FailFetch("gone")
      \/ fetch.err = None /\ ~gone /\ HandOver
  BY Zenon DEF FinishPool
<1>6. fetch.err \in Errors /\ "gone" \in Errors
  BY DEF ReadInv, ReadTypes, Errors
<1> QED  BY <1>3, <1>4, <1>5, <1>6

-----------------------------------------------------------------------------
(* Pushes, and steps after the read *)

(* A step that leaves the read and the repository alone.                   *)
LEMMA ReadStaysPut ==
  ASSUME ReadInv, UNCHANGED <<head, repo, fetch, jobs, worker, gone>>, faults' \in 0..MaxFaults
  PROVE  ReadInv'
<1>1. ErrorInv' /\ RepositoryOK'
  BY DEF ReadInv, ErrorInv, ErrorIsFirst, RepositoryOK
<1>2. ReadTypes' /\ WalkInv'
  BY DEF ReadInv, ReadTypes, WalkInv
<1>3. FilesInv'
  BY DEF ReadInv, FilesInv, Cut
<1> QED  BY <1>1, <1>2, <1>3 DEF ReadInv

(* A push changes files to the newest commit, or deletes them.             *)
LEMMA PushIsPushed == ASSUME RepositoryOK, Push PROVE RepositoryOK' /\ Pushed(repo, head, repo') /\ head' = head + 1
<1>1. head \in Nat /\ head' = head + 1 /\ head < MaxHead /\ MaxHead \in Nat /\ faults' = faults
  BY RepositoryAssumption DEF RepositoryOK, Push
<1>2. PICK f \in Files, c \in {Absent, head + 1} : repo' = [repo EXCEPT ![f] = c]
  BY DEF Push
<1>3. repo' \in [Files -> 0..head']
  BY <1>1, <1>2 DEF RepositoryOK, Absent
<1>4. Pushed(repo, head, repo')
  BY <1>1, <1>2 DEF RepositoryOK, Pushed
<1> QED  BY <1>1, <1>3, <1>4 DEF RepositoryOK

(* What was read is not made wrong by a push.                              *)
LEMMA FilesWhilePushed ==
  ASSUME NEW present, NEW newest \in Nat, NEW present2, Pushed(present, newest, present2),
         NEW since \in 0..newest, NEW files, NEW doc, FilesOK(files, doc, present, newest, since)
  PROVE  FilesOK(files, doc, present2, newest + 1, since)
<1>1. files \in Seq(FileType) /\ DistinctPaths(files) /\ \A k \in 1..Len(files) : FileOK(files[k], doc, present, newest, since)
  BY DEF FilesOK
<1>2. ASSUME NEW file \in FileType, FileOK(file, doc, present, newest, since)
      PROVE  FileOK(file, doc, present2, newest + 1, since)
  <2>1. file.path \in Files /\ file.listed \in Nat /\ file.at \in Nat /\ since \in Nat
    BY DEF FileType
  <2>2. present2[file.path] \in {present[file.path], Absent, newest + 1}
    BY <2>1 DEF Pushed
  <2>3. Wanted(file.path, doc) /\ ListedWell(file, present, newest)
    BY <1>2 DEF FileOK
  <2>4. ListedWell(file, present2, newest + 1)
    BY <2>1, <2>2, <2>3 DEF ListedWell
  <2>5. CASE file.at = Absent
    BY <2>3, <2>4, <2>5 DEF FileOK
  <2>6. CASE /\ file.at \in file.listed..newest
             /\ present[file.path] \in {file.at, Absent} \/ present[file.path] > since
    <3>1. file.at \in file.listed..newest+1
      BY <2>1, <2>6
    <3>2. newest + 1 > since
      OBVIOUS
    <3>3. present2[file.path] \in {file.at, Absent} \/ present2[file.path] > since
      BY <2>2, <2>6, <3>2
    <3> QED  BY <2>3, <2>4, <3>1, <3>3 DEF FileOK
  <2> QED  BY <1>2, <2>5, <2>6 DEF FileOK
<1>3. \A k \in 1..Len(files) : files[k] \in FileType
  BY <1>1, ElementOfSeq
<1> QED  BY <1>1, <1>2, <1>3 DEF FilesOK

(* Users push during a read.                                               *)
LEMMA PushKeeps == ASSUME ReadInv, Push, UNCHANGED fetchVars PROVE ReadInv'
<1>1. fetch' = fetch /\ jobs' = jobs /\ worker' = worker /\ gone' = gone
  BY DEF fetchVars
<1>2. RepositoryOK' /\ Pushed(repo, head, repo') /\ head' = head + 1
  BY PushIsPushed DEF ReadInv
<1>3. head \in Nat /\ fetch.since \in 0..head
  BY RepositoryAssumption DEF ReadInv, RepositoryOK, ReadTypes
<1>4. ErrorInv'
  BY <1>1 DEF ReadInv, ErrorInv, ErrorIsFirst
<1>5. ReadTypes'
  BY <1>1, <1>2, <1>3 DEF ReadInv, ReadTypes
<1>6. fetch.pc \in {"tree", "config", "select"} => WalkOK(fetch.seen, fetch.dirs, fetch.tree, repo', head + 1, fetch.since)
  BY <1>2, <1>3, WalkWhilePushed DEF ReadInv, WalkInv
<1>7. WalkInv'
  BY <1>1, <1>2, <1>6 DEF ReadInv, WalkInv
<1>8. fetch.pc \in {"get", "pool", "done"} => FilesOK(fetch.files, fetch.doc, repo', head + 1, fetch.since)
  BY <1>2, <1>3, FilesWhilePushed DEF ReadInv, FilesInv
<1>9. \A f \in Files : repo'[f] \in 1..fetch.since => repo[f] \in 1..fetch.since
  BY <1>2, <1>3 DEF Pushed, Absent
<1>10. \A but : Whole(fetch.files, fetch.seen, fetch.doc, repo, fetch.since, but)
                  => Whole(fetch.files, fetch.seen, fetch.doc, repo', fetch.since, but)
  BY <1>9 DEF Whole
<1>11. FilesInv'
  BY <1>1, <1>2, <1>8, <1>10 DEF ReadInv, FilesInv, Cut
<1> QED  BY <1>2, <1>4, <1>5, <1>7, <1>11 DEF ReadInv

(* No read runs at the start.                                              *)
LEMMA ReadInit == Init => ReadInv
<1> SUFFICES ASSUME Init PROVE ReadInv
  OBVIOUS
<1>1. head = 1 /\ faults = 0 /\ repo = [f \in Files |-> IF f \in Initial THEN 1 ELSE Absent]
      /\ fetch = NoFetch /\ jobs = <<>> /\ worker = NoWorker /\ gone = FALSE
  BY DEF Init, FetchInit, RepositoryInit
<1>2. RepositoryOK
  BY <1>1, RepositoryAssumption DEF RepositoryOK, Absent
<1>3. fetch.pc = "idle" /\ fetch.mode = "listing" /\ fetch.kind = "index" /\ fetch.since = 0
      /\ fetch.files = <<>> /\ fetch.err = None /\ fetch.cancelled = FALSE
  BY <1>1 DEF NoFetch
<1>4. NoWorker \in Crew
  BY DEF NoWorker, Crew
<1>5. ReadTypes
  <2>1. fetch.since \in 0..head
    BY <1>1, <1>3
  <2> QED  BY <1>1, <1>3, <1>4, <2>1 DEF ReadTypes, Errors
<1>6. WalkInv /\ FilesInv
  BY <1>3 DEF WalkInv, FilesInv
<1> QED  BY <1>2, <1>5, <1>6, ErrorInit DEF ReadInv

(* So every step of a read keeps its invariant.                            *)
LEMMA FetchKeeps == ASSUME ReadInv, Fetch PROVE ReadInv'
  BY BeginFetchKeeps, LeaveKeeps, EndFetchKeeps, ListDirectoryKeeps, ReadConfigKeeps, SelectKeeps, GetNextKeeps,
     FinishPoolKeeps, TakeIndexKeeps, FetchContentKeeps
  DEF Fetch, ReadStep, WorkerStep

-----------------------------------------------------------------------------
(* What is torn *)

(* Only a read that is at its contents has torn ones, and there is a cause *)
(* for them: a call of the read failed, or the caller left a loop, or a    *)
(* pool was stopped, which does not hand over.                             *)
Causes(f, left) ==
    \/ f.mode = "loop" /\ left
    \/ f.pc = "pool" /\ (left \/ f.cancelled)
    \/ f.pc = "failed"

TornInv ==
    /\ fetch.before \in 0..faults /\ fetch.torn \subseteq Files /\ fetch.misread \in BOOLEAN
    /\ fetch.misread => fetch.before < faults \/ gone
    /\ fetch.pc \in {"idle", "tree", "config", "select"} => fetch.torn = {}
    /\ fetch.pc = "get" => fetch.mode = "loop"
    /\ fetch.torn # {} => fetch.before < faults \/ Causes(fetch, gone)

(* Calls may fail.                                                         *)
MayFail == faults' \in Nat /\ faults <= faults'

(* A call fails, or none does.                                             *)
LEMMA CallsMayFail ==
  ASSUME RepositoryOK, UNCHANGED faults \/ Fault PROVE MayFail /\ faults \in Nat /\ faults' \in 0..MaxFaults
  BY RepositoryAssumption DEF RepositoryOK, Fault, MayFail

(* A step after which nothing else is torn, and what is torn has a cause.  *)
LEMMA NothingTorn ==
  ASSUME ReadInv, TornInv, MayFail, gone => gone',
         fetch'.before = fetch.before, fetch'.torn = fetch.torn, fetch'.misread = fetch.misread,
         fetch'.pc \in {"idle", "tree", "config", "select"} => fetch.torn = {},
         fetch'.pc = "get" => fetch'.mode = "loop",
         fetch.torn # {} /\ Causes(fetch, gone) => Causes(fetch', gone')
  PROVE  TornInv'
<1>1. faults \in Nat /\ faults' \in Nat /\ faults <= faults' /\ fetch.before \in 0..faults
  BY RepositoryAssumption DEF ReadInv, RepositoryOK, TornInv, MayFail
<1>2. fetch'.before \in 0..faults' /\ (fetch.before < faults => fetch'.before < faults')
  BY <1>1
<1>3. fetch'.misread => fetch'.before < faults' \/ gone'
  BY <1>2 DEF TornInv
<1>4. fetch'.torn # {} => fetch'.before < faults' \/ Causes(fetch', gone')
  BY <1>2 DEF TornInv
<1> QED  BY <1>2, <1>3, <1>4 DEF TornInv

(* A read that fails.                                                      *)
LEMMA FailsTorn ==
  ASSUME ReadInv, TornInv, NEW err, FailFetch(err), MayFail, gone' = gone PROVE TornInv'
<1>1. fetch'.before = fetch.before /\ fetch'.torn = fetch.torn /\ fetch'.misread = fetch.misread /\ fetch'.pc = "failed"
  BY DEF FailFetch, ReadInv, ErrorInv, Fields
<1> QED  BY <1>1, NothingTorn DEF Causes

(* A read that ends in a call to GitFlame.                                 *)
LEMMA CallFailsTorn ==
  ASSUME ReadInv, TornInv, Unreachable \/ Cancelled, gone' = gone PROVE TornInv'
  BY CallsMayFail, FailsTorn DEF Unreachable, Cancelled, ReadInv

(* A read begins, or is over.                                              *)
LEMMA BeginFetchTorn ==
  ASSUME ReadInv, NEW kind, NEW yaml, BeginFetch(kind, yaml) PROVE TornInv'
<1>1. /\ fetch'.before = faults /\ fetch'.torn = {} /\ fetch'.misread = FALSE /\ faults' = faults
      /\ fetch'.pc \in {"tree", "config"}
  BY DEF BeginFetch, NoFetch
<1>2. faults \in 0..faults
  BY RepositoryAssumption DEF ReadInv, RepositoryOK
<1> QED  BY <1>1, <1>2 DEF TornInv

(* A read is over.                                                         *)
LEMMA EndFetchTorn == ASSUME ReadInv, EndFetch PROVE TornInv'
<1>1. fetch'.before = 0 /\ fetch'.torn = {} /\ fetch'.misread = FALSE /\ faults' = faults /\ fetch'.pc = "idle"
  BY DEF EndFetch, NoFetch
<1>2. 0 \in 0..faults
  BY RepositoryAssumption DEF ReadInv, RepositoryOK
<1> QED  BY <1>1, <1>2 DEF TornInv

(* The caller leaves: a cause for what is torn from now on.                *)
LEMMA LeaveTorn == ASSUME ReadInv, TornInv, Leave PROVE TornInv'
<1>1. gone' = TRUE /\ fetch' = fetch /\ faults' = faults
  BY DEF Leave
<1>2. MayFail
  BY <1>1, CallsMayFail DEF ReadInv
<1> QED  BY <1>1, <1>2, NothingTorn DEF TornInv, Causes

(* The tree, the configuration and the selection come before the contents. *)
LEMMA ListDirectoryTorn == ASSUME ReadInv, TornInv, ListDirectory PROVE TornInv'
<1>1. fetch.pc = "tree" /\ gone' = gone
  BY DEF ListDirectory, Reading, OnlyFetch
<1>2. CASE Unreachable \/ Cancelled
  BY <1>1, <1>2, CallFailsTorn
<1>3. CASE \E err : FailFetch(err) /\ UNCHANGED faults
  BY <1>1, <1>3, CallsMayFail, FailsTorn DEF ReadInv
<1>4. CASE \E seen, dirs, tree :
             /\ fetch' = [fetch EXCEPT !.seen = seen, !.dirs = dirs, !.tree = tree,
                                       !.pc = IF dirs = <<>> THEN AfterTree ELSE "tree"]
             /\ UNCHANGED faults
  <2>1. /\ fetch'.before = fetch.before /\ fetch'.torn = fetch.torn /\ fetch'.misread = fetch.misread
        /\ fetch'.pc \in {"tree", "config", "select"}
    BY <1>4 DEF ReadInv, ErrorInv, Fields, AfterTree
  <2>2. fetch.torn = {} /\ MayFail
    BY <1>1, <1>4, CallsMayFail DEF TornInv, ReadInv
  <2> QED  BY <1>1, <2>1, <2>2, NothingTorn
<1>5. \/ Unreachable \/ Cancelled
      \/ \E err : FailFetch(err) /\ UNCHANGED faults
      \/ \E seen, dirs, tree :
             /\ fetch' = [fetch EXCEPT !.seen = seen, !.dirs = dirs, !.tree = tree,
                                       !.pc = IF dirs = <<>> THEN AfterTree ELSE "tree"]
             /\ UNCHANGED faults
  <2> DEFINE Goal == \E seen, dirs, tree :
             fetch' = [fetch EXCEPT !.seen = seen, !.dirs = dirs, !.tree = tree,
                                    !.pc = IF dirs = <<>> THEN AfterTree ELSE "tree"]
  <2>1. ASSUME NEW answer,
               LET next == FoldLeft(Visit, [seen |-> fetch.seen, dirs |-> Tail(fetch.dirs), tree |-> fetch.tree], answer)
               IN IF Len(next.tree) > TreeLimit THEN FailFetch("too_large")
                  ELSE fetch' = [fetch EXCEPT !.seen = next.seen, !.dirs = next.dirs, !.tree = next.tree,
                                              !.pc = IF next.dirs = <<>> THEN AfterTree ELSE "tree"]
        PROVE  FailFetch("too_large") \/ Goal
    <3> DEFINE next == FoldLeft(Visit, [seen |-> fetch.seen, dirs |-> Tail(fetch.dirs), tree |-> fetch.tree], answer)
    <3>1. \/ FailFetch("too_large")
          \/ fetch' = [fetch EXCEPT !.seen = next.seen, !.dirs = next.dirs, !.tree = next.tree,
                                    !.pc = IF next.dirs = <<>> THEN AfterTree ELSE "tree"]
      BY <2>1, Zenon
    <3>2. ASSUME fetch' = [fetch EXCEPT !.seen = next.seen, !.dirs = next.dirs, !.tree = next.tree,
                                        !.pc = IF next.dirs = <<>> THEN AfterTree ELSE "tree"]
          PROVE  Goal
      <4> HIDE DEF next
      <4> WITNESS next.seen, next.dirs, next.tree
      <4> QED  BY <3>2
    <3> QED  BY <3>1, <3>2
  <2> HIDE DEF Goal
  <2>2. (Unreachable \/ Cancelled) \/ (UNCHANGED faults /\ ((\E err : FailFetch(err)) \/ Goal))
    BY <2>1, Zenon DEF ListDirectory
  <2> QED  BY <2>2 DEF Goal
<1> QED  BY <1>2, <1>3, <1>4, <1>5

(* The configuration is read, and misread only with a cause.               *)
LEMMA ReadConfigTorn == ASSUME ReadInv, TornInv, ReadConfig PROVE TornInv'
<1>1. fetch.pc = "config" /\ gone' = gone /\ fetch.torn = {}
  BY DEF ReadConfig, Reading, OnlyFetch, TornInv
<1>2. CASE Unreachable \/ Cancelled
  BY <1>1, <1>2, CallFailsTorn
<1>3. CASE \E doc, misread : /\ misread \in BOOLEAN /\ Used(doc, misread)
                             /\ UNCHANGED faults \/ Fault
                             /\ misread => EndsEarly(gone)
  <2> PICK doc, misread : /\ misread \in BOOLEAN /\ Used(doc, misread)
                          /\ UNCHANGED faults \/ Fault
                          /\ misread => EndsEarly(gone)
    BY <1>3
  <2>1. MayFail /\ faults \in Nat
    BY CallsMayFail DEF ReadInv
  <2>2. CASE FailFetch("invalid_ai_config")
    BY <1>1, <2>1, <2>2, FailsTorn
  <2>3. CASE ToPool(doc, misread) \/ ToLoop(doc, misread)
    <3>1. /\ fetch'.before = fetch.before /\ fetch'.torn = {} /\ fetch'.misread = misread
          /\ fetch'.pc \in {"tree", "select"}
      BY <1>1, <2>3 DEF ReadInv, ErrorInv, Fields, ToPool, ToLoop
    <3>2. fetch.before \in 0..faults
      BY DEF TornInv
    <3>3. fetch'.before \in 0..faults'
      BY <2>1, <3>1, <3>2 DEF MayFail
    <3>4. misread => fetch'.before < faults' \/ gone'
      BY <1>1, <2>1, <3>1, <3>2 DEF EndsEarly, Fault
    <3> QED  BY <3>1, <3>3, <3>4 DEF TornInv
  <2> QED  BY <2>2, <2>3 DEF Used
<1>4. EndsEarly(gone) => UNCHANGED faults \/ Fault
  BY DEF EndsEarly
<1>5. \/ \E doc : Used(doc, FALSE) /\ UNCHANGED faults
      \/ \E doc : Used(doc, TRUE) /\ EndsEarly(gone)
      \/ Unreachable \/ Cancelled
  BY ReadConfigUses DEF ReadInv
<1>6. CASE \E doc : Used(doc, FALSE) /\ UNCHANGED faults
  BY <1>3, <1>6
<1>7. CASE \E doc : Used(doc, TRUE) /\ EndsEarly(gone)
  BY <1>3, <1>4, <1>7
<1> QED  BY <1>2, <1>5, <1>6, <1>7

(* The files are selected.                                                 *)
LEMMA SelectTorn == ASSUME ReadInv, TornInv, Select PROVE TornInv'
<1>1. fetch.pc = "select" /\ gone' = gone /\ faults' = faults /\ fetch.torn = {}
  BY DEF Select, Reading, TornInv
<1>2. \E pc, files : /\ pc = "get" => fetch.mode = "loop"
                     /\ fetch' = [fetch EXCEPT !.pc = pc, !.files = files]
  <2>1. CASE fetch' = [fetch EXCEPT !.pc = "done"]
    <3>1. fetch' = [fetch EXCEPT !.pc = "done", !.files = fetch.files]
      BY <2>1 DEF ReadInv, ErrorInv, Fields
    <3> QED  BY <3>1
  <2> QED  BY <2>1, Zenon DEF Select
<1>3. /\ fetch'.before = fetch.before /\ fetch'.torn = fetch.torn /\ fetch'.misread = fetch.misread
      /\ fetch'.pc = "get" => fetch'.mode = "loop"
  BY <1>2 DEF ReadInv, ErrorInv, Fields
<1>4. MayFail
  BY <1>1, CallsMayFail DEF ReadInv
<1> QED  BY <1>1, <1>3, <1>4, NothingTorn

(* A content arrives, whole or torn: a stopped loop has lost its caller.   *)
LEMMA ContentTorn ==
  ASSUME ReadInv, TornInv, NEW path \in Files, NEW stopped \in BOOLEAN, NEW torn, Arrives(path, stopped, torn), gone' = gone,
         fetch'.before = fetch.before, fetch'.torn = torn, fetch'.misread = fetch.misread, fetch'.mode = fetch.mode,
         fetch'.cancelled = fetch.cancelled,
         \/ fetch.pc = "get" /\ fetch'.pc \in {"get", "done"} /\ (stopped => gone)
         \/ fetch.pc = "pool" /\ fetch'.pc = "pool" /\ (stopped => gone \/ fetch.cancelled)
  PROVE  TornInv'
<1>1. faults \in Nat /\ faults' \in Nat /\ faults <= faults' /\ fetch.before \in 0..faults
  BY ArrivalFaults, RepositoryAssumption DEF ReadInv, RepositoryOK, TornInv
<1>2. \/ torn = fetch.torn
      \/ torn = fetch.torn \cup {path} /\ (stopped \/ faults < faults')
  BY ArrivalFaults DEF ReadInv
<1>3. fetch'.before \in 0..faults' /\ (fetch.before < faults => fetch'.before < faults')
      /\ (faults < faults' => fetch'.before < faults')
  BY <1>1
<1>4. Causes(fetch, gone) => Causes(fetch', gone')
  BY DEF Causes
<1>5. stopped => Causes(fetch', gone')
  BY DEF Causes, TornInv
<1>6. fetch'.torn # {} => fetch'.before < faults' \/ Causes(fetch', gone')
  BY <1>2, <1>3, <1>4, <1>5 DEF TornInv
<1>7. fetch'.misread => fetch'.before < faults' \/ gone'
  BY <1>3 DEF TornInv
<1>8. fetch'.torn \subseteq Files
  BY <1>2 DEF TornInv
<1> QED  BY <1>3, <1>6, <1>7, <1>8 DEF TornInv

(* The files at hand have paths.                                           *)
LEMMA PathsAreFiles ==
  ASSUME ReadInv, fetch.pc \in {"get", "pool"}, NEW i \in 1..Len(fetch.files) PROVE fetch.files[i].path \in Files
<1>1. fetch.files \in Seq(FileType)
  BY DEF ReadInv, FilesInv, FilesOK
<1>2. fetch.files[i] \in FileType
  BY <1>1, ElementOfSeq
<1> QED  BY <1>2 DEF FileType

(* The loop fetches a file.                                                *)
LEMMA GetNextTorn == ASSUME ReadInv, TornInv, GetNext PROVE TornInv'
<1> DEFINE n == Len(fetch.files)
           i == CHOOSE m \in 1..n : fetch.files[m].at = Absent /\ \A l \in 1..m-1 : fetch.files[l].at # Absent
           path == fetch.files[i].path
           content == repo[path]
           pc == IF i = n THEN "done" ELSE "get"
<1>1. fetch.pc = "get" /\ gone' = gone
  BY DEF GetNext, Reading, OnlyFetch
<1>2. PICK k \in 1..n : ReadTo(fetch.files, k)
  BY <1>1 DEF ReadInv, FilesInv
<1>3. n \in Nat
  BY <1>1 DEF ReadInv, FilesInv, FilesOK
<1>4. i = k
  BY <1>2, <1>3, NextToRead
<1>5. path \in Files
  BY <1>1, <1>4, PathsAreFiles
<1>6. \/ \E torn : Arrives(path, gone, torn) /\ fetch' = [fetch EXCEPT !.files[i].at = content, !.torn = torn, !.pc = pc]
      \/ FailFetch("not_found") /\ UNCHANGED faults
      \/ Unreachable \/ Cancelled
  BY Zenon DEF GetNext
<1>7. pc \in {"get", "done"} /\ gone \in BOOLEAN
  BY DEF ReadInv, ReadTypes
<1> HIDE DEF i, path, content, pc
<1>8. CASE FailFetch("not_found") /\ UNCHANGED faults
  BY <1>1, <1>8, CallsMayFail, FailsTorn DEF ReadInv
<1>9. CASE Unreachable \/ Cancelled
  BY <1>1, <1>9, CallFailsTorn
<1>10. CASE \E torn : Arrives(path, gone, torn) /\ fetch' = [fetch EXCEPT !.files[i].at = content, !.torn = torn, !.pc = pc]
  <2> PICK torn : Arrives(path, gone, torn) /\ fetch' = [fetch EXCEPT !.files[i].at = content, !.torn = torn, !.pc = pc]
    BY <1>10
  <2>1. /\ fetch'.before = fetch.before /\ fetch'.torn = torn /\ fetch'.misread = fetch.misread
        /\ fetch'.mode = fetch.mode /\ fetch'.cancelled = fetch.cancelled /\ fetch'.pc = pc
    BY DEF ReadInv, ErrorInv, Fields
  <2> QED  BY <1>1, <1>5, <1>7, <2>1, ContentTorn
<1> QED  BY <1>6, <1>8, <1>9, <1>10

(* The pool.                                                               *)
LEMMA TakeIndexTorn == ASSUME ReadInv, TornInv, NEW w \in Workers, TakeIndex(w) PROVE TornInv'
<1>1. gone' = gone /\ fetch' = fetch /\ faults' = faults
  BY DEF TakeIndex
<1> QED  BY <1>1 DEF TornInv

(* A goroutine of the pool fetches its file, or reports why it cannot.     *)
LEMMA FetchContentTorn == ASSUME ReadInv, TornInv, NEW w \in Workers, FetchContent(w) PROVE TornInv'
<1> DEFINE i == worker[w].index
           path == fetch.files[i].path
           stopped == gone \/ fetch.cancelled
<1>1. fetch.pc = "pool" /\ gone' = gone /\ worker[w].pc = "get"
  BY DEF FetchContent, Reading
<1>2. path \in Files
  <2>1. i \in 1..Len(fetch.files)
    BY <1>1 DEF ReadInv, FilesInv, PoolOK
  <2> QED  BY <1>1, <2>1, PathsAreFiles
<1>3. CASE \E err : Report(w, err) /\ (UNCHANGED faults \/ Fault)
  <2>1. /\ fetch'.before = fetch.before /\ fetch'.torn = fetch.torn /\ fetch'.misread = fetch.misread
        /\ fetch'.mode = fetch.mode /\ fetch'.cancelled = TRUE /\ fetch'.pc = fetch.pc
    BY <1>3 DEF Report, ReadInv, ErrorInv, Fields
  <2>2. MayFail
    BY <1>3, CallsMayFail DEF ReadInv
  <2> QED  BY <1>1, <2>1, <2>2, NothingTorn DEF Causes
<1>4. CASE \E torn, content : Arrives(path, stopped, torn) /\ fetch' = [fetch EXCEPT !.files[i].at = content, !.torn = torn]
  <2> PICK torn, content : Arrives(path, stopped, torn) /\ fetch' = [fetch EXCEPT !.files[i].at = content, !.torn = torn]
    BY <1>4
  <2>1. /\ fetch'.before = fetch.before /\ fetch'.torn = torn /\ fetch'.misread = fetch.misread
        /\ fetch'.mode = fetch.mode /\ fetch'.cancelled = fetch.cancelled /\ fetch'.pc = fetch.pc
    BY DEF ReadInv, ErrorInv, Fields
  <2>2. stopped \in BOOLEAN /\ (stopped => gone \/ fetch.cancelled)
    BY DEF ReadInv, ReadTypes
  <2> HIDE DEF stopped, path
  <2> QED  BY <1>1, <1>2, <2>1, <2>2, ContentTorn
<1>5. \/ \E err : Report(w, err) /\ (UNCHANGED faults \/ Fault)
      \/ \E torn, content : Arrives(path, stopped, torn) /\ fetch' = [fetch EXCEPT !.files[i].at = content, !.torn = torn]
  BY Zenon DEF FetchContent
<1> QED  BY <1>3, <1>4, <1>5

(* A pool that hands over has not been stopped.                            *)
LEMMA FinishPoolTorn == ASSUME ReadInv, TornInv, FinishPool PROVE TornInv'
<1>1. fetch.pc = "pool" /\ gone' = gone /\ faults' = faults
  BY DEF FinishPool, Reading
<1>2. MayFail
  BY <1>1, CallsMayFail DEF ReadInv
<1>3. CASE \E err : FailFetch(err)
  BY <1>1, <1>2, <1>3, FailsTorn
<1>4. CASE fetch.err = None /\ ~gone /\ \E files : fetch' = [fetch EXCEPT !.pc = "done", !.files = files]
  <2>1. /\ fetch'.before = fetch.before /\ fetch'.torn = fetch.torn /\ fetch'.misread = fetch.misread
        /\ fetch'.mode = fetch.mode /\ fetch'.pc = "done"
    BY <1>4 DEF ReadInv, ErrorInv, Fields
  <2>2. ~Causes(fetch, gone)
    BY <1>1, <1>4 DEF Causes, ReadInv, ErrorInv
  <2> QED  BY <1>1, <1>2, <2>1, <2>2, NothingTorn
<1>5. \/ \E err : FailFetch(err)
      \/ fetch.err = None /\ ~gone /\ \E files : fetch' = [fetch EXCEPT !.pc = "done", !.files = files]
  BY Zenon DEF FinishPool, HandOver
<1> QED  BY <1>3, <1>4, <1>5

(* Every step of a read.                                                   *)
LEMMA FetchTorn == ASSUME ReadInv, TornInv, Fetch PROVE TornInv'
  BY BeginFetchTorn, LeaveTorn, EndFetchTorn, ListDirectoryTorn, ReadConfigTorn, SelectTorn, GetNextTorn,
     FinishPoolTorn, TakeIndexTorn, FetchContentTorn
  DEF Fetch, ReadStep, WorkerStep

(* All other steps leave the read alone.                                   *)
LEMMA TornStaysPut ==
  ASSUME ReadInv, TornInv, fetch' = fetch, gone' = gone, UNCHANGED faults \/ Fault PROVE TornInv'
<1>1. MayFail
  BY CallsMayFail DEF ReadInv
<1> QED  BY <1>1, NothingTorn DEF TornInv

(* Nothing is torn at the start.                                           *)
LEMMA TornInit == Init => TornInv
  BY DEF Init, FetchInit, RepositoryInit, NoFetch, TornInv

-----------------------------------------------------------------------------
(* The invariant of all, and the steps between its parts *)

Inv == ReadInv /\ TornInv /\ ApplyInv /\ (session.files = <<>> => session.ops = <<>>)

(* The requests leave the branch of the users alone; calls may fail.       *)
LEMMA ApplyTouches ==
  ASSUME RepositoryOK, ApplyNext
  PROVE  /\ head' = head /\ repo' = repo /\ faults' \in 0..MaxFaults /\ (UNCHANGED faults \/ Fault)
         /\ SessionOK => session'.files = session.files /\ session'.ops = session.ops
<1>1. head' = head /\ repo' = repo
  BY DEF ApplyNext, ApplyStep, ClosePullRequest, BeginApply, SaveOutcome, StopRequest, CreateBranch, LookUpBranch,
         Commit, CreateFile, FetchFileSHA, PutFile, FindPullRequest, CreatePullRequest, FindConflicting,
         OnlyApply, OnlyBranch
<1>2. UNCHANGED faults \/ Fault
  BY Zenon DEF ApplyNext, ApplyStep, ClosePullRequest, BeginApply, SaveOutcome, StopRequest, CreateBranch, LookUpBranch,
         Commit, CreateFile, FetchFileSHA, PutFile, FindPullRequest, CreatePullRequest, FindConflicting, WriteFile
<1>3. faults' \in 0..MaxFaults
  BY <1>2, RepositoryAssumption DEF RepositoryOK, Fault
<1>4. session' = session \/ \E status : session' = [session EXCEPT !.status = status]
  BY Zenon DEF ApplyNext, ApplyStep, ClosePullRequest, BeginApply, SaveOutcome, StopRequest, CreateBranch, LookUpBranch,
         Commit, CreateFile, FetchFileSHA, PutFile, FindPullRequest, CreatePullRequest, FindConflicting,
         OnlyApply, OnlyBranch
<1>5. SessionOK => session'.files = session.files /\ session'.ops = session.ops
  BY <1>4 DEF SessionOK
<1> QED  BY <1>1, <1>2, <1>3, <1>5

(* The files read become those of the request: each of them has a content. *)
LEMMA AnalyzeKeeps == ASSUME Inv, Analyze PROVE Inv'
<1>0. PICK rest \in [fetch.torn -> Rest] :
         LET Content(file) == IF file.path \in fetch.torn THEN rest[file.path] ELSE file.at
             files == [i \in 1..Len(fetch.files) |-> [path |-> fetch.files[i].path, content |-> Content(fetch.files[i])]]
         IN  ValidRepositoryFiles(files) /\ session' = [session EXCEPT !.files = files]
  BY Zenon DEF Analyze
<1> DEFINE files == [i \in 1..Len(fetch.files) |->
                        [path |-> fetch.files[i].path,
                         content |-> IF fetch.files[i].path \in fetch.torn THEN rest[fetch.files[i].path]
                                     ELSE fetch.files[i].at]]
           n == Len(fetch.files)
<1>1. fetch.pc = "done" /\ session.files = <<>> /\ EndFetch /\ api' = api /\ branch' = branch /\ pr' = pr /\ apply' = apply
  BY DEF Analyze, Reading
<1>2. ValidRepositoryFiles(files) /\ session' = [session EXCEPT !.files = files]
  BY <1>0, Zenon
<1>3. ReadInv' /\ TornInv'
  BY <1>1, EndFetchKeeps, EndFetchTorn DEF Inv
<1>4. fetch.files \in Seq(FileType) /\ AllRead(fetch.files)
  BY <1>1 DEF Inv, ReadInv, FilesInv, FilesOK
<1>5. n \in Nat
  BY <1>4
<1>6. Len(files) = n /\ \A i \in 1..n : files[i].content # Absent
  <2>1. Len(files) = n
    BY <1>5
  <2>2. \A i \in 1..n : \/ files[i].content = fetch.files[i].at
                         \/ /\ fetch.files[i].path \in fetch.torn
                            /\ files[i].content = rest[fetch.files[i].path]
    OBVIOUS
  <2>3. \A f \in fetch.torn : rest[f] # Absent
    BY RepliesAssumption DEF Empty, Absent
  <2> HIDE DEF files
  <2> QED  BY <1>4, <2>1, <2>2, <2>3 DEF AllRead
<1>7. files # <<>>
  <2>1. Len(files) \in 1..MaxFiles
    BY <1>2 DEF ValidRepositoryFiles
  <2>2. Len(files) # 0
    BY <2>1
  <2> HIDE DEF files
  <2> QED  BY <2>2
<1> HIDE DEF files
<1>8. FilesRead(files)
  BY <1>5, <1>6 DEF FilesRead
<1>9. session.ops = <<>> /\ ApplyInv /\ SessionOK
  BY <1>1 DEF Inv, ApplyInv
<1>10. /\ session'.files = files /\ session'.ops = <<>> /\ session'.status = session.status
       /\ session' \in [files : {session'.files}, ops : {session'.ops}, status : {"none", "applied", "failed"}]
  BY <1>2, <1>9 DEF SessionOK
<1>11. Acceptable(<<>>, files)
  <2>1. <<>> \in Seq(OperationAt(Files)) /\ Len(<<>>) = 0 /\ 1..0 = {}
    OBVIOUS
  <2> QED  BY <2>1 DEF Acceptable
<1>12. ~branch.made /\ pr = "none" /\ session.status = "none"
  BY <1>9 DEF SessionOK
<1>13. SessionOK'
  BY <1>1, <1>8, <1>10, <1>11, <1>12 DEF SessionOK
<1>14. \A r \in Requests : apply[r] = IdleRequest
  BY <1>9, NothingBegun
<1>15. Refusals'
  BY <1>1, <1>14 DEF Refusals, IdleRequest
<1>16. ApplyInv'
  BY <1>1, <1>9, <1>10, <1>13, <1>15 DEF ApplyInv
<1> QED  BY <1>3, <1>7, <1>10, <1>16 DEF Inv

(* A reply is accepted.                                                    *)
LEMMA GenerateKeepsInv == ASSUME Inv, Generate PROVE Inv'
<1>1. head' = head /\ repo' = repo /\ faults' = faults /\ fetch' = fetch /\ jobs' = jobs /\ worker' = worker /\ gone' = gone
  BY DEF Generate, repositoryVars, fetchVars
<1>2. ReadInv' /\ TornInv'
  <2>1. ReadInv'
    BY <1>1, ReadStaysPut DEF Inv, ReadInv, RepositoryOK
  <2> QED  BY <1>1, <2>1, TornStaysPut DEF Inv
<1>3. session'.files = session.files /\ session.files # <<>>
  BY DEF Generate, AcceptOperations, Inv, ApplyInv, SessionOK
<1> QED  BY <1>2, <1>3, GenerateKeeps DEF Inv

(* A request goes on.                                                      *)
LEMMA ApplyKeeps == ASSUME Inv, Apply PROVE Inv'
<1>1. ApplyNext /\ fetch' = fetch /\ jobs' = jobs /\ worker' = worker /\ gone' = gone /\ RepositoryOK /\ SessionOK
  BY DEF Apply, fetchVars, Inv, ReadInv, ApplyInv
<1>2. head' = head /\ repo' = repo /\ faults' \in 0..MaxFaults /\ (UNCHANGED faults \/ Fault)
      /\ session'.files = session.files /\ session'.ops = session.ops
  BY <1>1, ApplyTouches
<1>3. ReadInv' /\ TornInv'
  BY <1>1, <1>2, ReadStaysPut, TornStaysPut DEF Inv
<1>4. ApplyInv'
  BY <1>1, ApplyStepKeeps DEF Inv
<1> QED  BY <1>2, <1>3, <1>4 DEF Inv

(* Users push, the read goes on, or nothing happens: the requests stay.    *)
LEMMA RequestsStayPut ==
  ASSUME ApplyInv, session.files = <<>> => session.ops = <<>>, UNCHANGED applyVars
  PROVE  ApplyInv' /\ (session'.files = <<>> => session'.ops = <<>>)
<1>1. session' = session /\ api' = api /\ branch' = branch /\ pr' = pr /\ apply' = apply
  BY DEF applyVars
<1> QED  BY <1>1 DEF ApplyInv, SessionOK, Refusals

(* The whole invariant holds at the start,                                 *)
LEMMA InvInit == Init => Inv
  BY ReadInit, TornInit, ApplyInvInit DEF Inv, Init, ApplyInit

(* and every step keeps it.                                                *)
LEMMA InvNext == Inv /\ [Next]_codeVars => Inv'
<1> SUFFICES ASSUME Inv, [Next]_codeVars PROVE Inv'
  OBVIOUS
<1>1. CASE Fetch
  BY <1>1, FetchKeeps, FetchTorn, RequestsStayPut DEF Inv, Fetch
<1>2. CASE UserPush
  <2>1. fetch' = fetch /\ gone' = gone /\ faults' = faults /\ UNCHANGED applyVars
    BY <1>2 DEF UserPush, Push, fetchVars, applyVars
  <2>2. ReadInv'
    BY <1>2, PushKeeps DEF Inv, UserPush
  <2> QED  BY <2>1, <2>2, TornStaysPut, RequestsStayPut DEF Inv
<1>3. CASE UNCHANGED codeVars
  <2>1. /\ head' = head /\ repo' = repo /\ faults' = faults /\ fetch' = fetch /\ jobs' = jobs /\ worker' = worker
        /\ gone' = gone /\ UNCHANGED applyVars
    BY <1>3 DEF codeVars, repositoryVars, fetchVars
  <2>2. ReadInv'
    BY <2>1, ReadStaysPut DEF Inv, ReadInv, RepositoryOK
  <2> QED  BY <2>1, <2>2, TornStaysPut, RequestsStayPut DEF Inv
<1> QED  BY <1>1, <1>2, <1>3, AnalyzeKeeps, GenerateKeepsInv, ApplyKeeps DEF Next

-----------------------------------------------------------------------------
(* What the invariant says *)

(* It has the types in it.                                                 *)
LEMMA TypesFollow == Inv => TypeOK
<1> SUFFICES ASSUME Inv PROVE FetchTypeOK
  BY ApplyTypes DEF Inv, TypeOK
<1>1. head \in 1..MaxHead /\ head \in Nat /\ MaxHead \in Nat /\ repo \in [Files -> 0..head] /\ faults \in 0..MaxFaults
  BY RepositoryAssumption DEF Inv, ReadInv, RepositoryOK
<1>2. RepositoryTypeOK
  BY <1>1 DEF RepositoryTypeOK
<1>3. fetch.files \in Seq(FileRecord)
  <2>1. CASE fetch.pc \in {"get", "pool", "done"}
    <3>1. FilesOK(fetch.files, fetch.doc, repo, head, fetch.since)
      BY <2>1 DEF Inv, ReadInv, FilesInv
    <3>2. fetch.files \in Seq(FileType)
      BY <3>1 DEF FilesOK
    <3>3. ASSUME NEW i \in 1..Len(fetch.files) PROVE fetch.files[i] \in FileRecord
      <4>1. fetch.files[i] \in FileType
        BY <3>2, ElementOfSeq
      <4>2. FileOK(fetch.files[i], fetch.doc, repo, head, fetch.since)
        BY <3>1 DEF FilesOK
      <4> DEFINE file == fetch.files[i]
      <4> HIDE DEF file
      <4>3. file \in FileType /\ FileOK(file, fetch.doc, repo, head, fetch.since)
        BY <4>1, <4>2 DEF file
      <4>4. file.path \in Files /\ file.listed \in 0..MaxHead /\ file.at \in 0..MaxHead
        BY <1>1, <4>3 DEF FileType, FileOK, ListedWell, Absent
      <4>5. file \in FileRecord
        BY <4>3, <4>4 DEF FileType, FileRecord
      <4> QED  BY <4>5 DEF file
    <3>4. Len(fetch.files) \in Nat /\ fetch.files = [i \in 1..Len(fetch.files) |-> fetch.files[i]]
      BY <3>2
    <3> QED  BY <3>3, <3>4, IsASeq
  <2>2. CASE fetch.pc \notin {"get", "pool", "done"}
    <3>1. fetch.files = <<>>
      BY <2>2 DEF Inv, ReadInv, ReadTypes, FilesInv
    <3> QED  BY <3>1
  <2> QED  BY <2>1, <2>2
<1>4. jobs \in Seq(1..Len(fetch.files)) \/ ~Reading("pool")
  BY DEF Inv, ReadInv, FilesInv, PoolOK, Reading
<1>5. fetch.since \in 0..MaxHead
  BY <1>1 DEF Inv, ReadInv, ReadTypes
<1>6. fetch.before \in 0..MaxFaults /\ fetch.torn \subseteq Files /\ fetch.misread \in BOOLEAN
  BY <1>1, RepositoryAssumption DEF Inv, TornInv
<1> QED  BY <1>2, <1>3, <1>4, <1>5, <1>6 DEF Inv, ReadInv, ReadTypes, FetchTypeOK, Crew, Errors

(* A read that is done is complete.                                        *)
LEMMA DoneIsComplete == Inv => ReadIsComplete
<1> SUFFICES ASSUME Inv, Reading("done") PROVE ReadIsComplete
  BY DEF ReadIsComplete
<1>1. /\ FilesOK(fetch.files, fetch.doc, repo, head, fetch.since)
      /\ Whole(fetch.files, fetch.seen, fetch.doc, repo, fetch.since, Binary \cup Cut)
      /\ AllRead(fetch.files)
  BY DEF Reading, Inv, ReadInv, FilesInv
<1>1a. fetch.files \in Seq(FileType) /\ DistinctPaths(fetch.files)
  BY <1>1 DEF FilesOK
<1>2. ASSUME NEW i \in 1..Len(fetch.files)
      PROVE  /\ fetch.files[i].path \in Files /\ Wanted(fetch.files[i].path, fetch.doc)
             /\ fetch.files[i].at # Absent /\ fetch.files[i].at >= fetch.files[i].listed
             /\ repo[fetch.files[i].path] \in {fetch.files[i].at, Absent} \/ repo[fetch.files[i].path] > fetch.since
  <2> DEFINE file == fetch.files[i]
  <2>1. file \in FileType /\ FileOK(file, fetch.doc, repo, head, fetch.since) /\ file.at # Absent
    BY <1>1, <1>1a, ElementOfSeq DEF FilesOK, AllRead
  <2> HIDE DEF file
  <2>2. /\ file.path \in Files /\ Wanted(file.path, fetch.doc)
        /\ file.at \in file.listed..head /\ file.at \in Nat /\ file.listed \in Nat
        /\ repo[file.path] \in {file.at, Absent} \/ repo[file.path] > fetch.since
    BY <2>1 DEF FileType, FileOK
  <2>3. file.at >= file.listed
    BY <2>2, RepositoryAssumption DEF Inv, ReadInv, RepositoryOK
  <2> QED  BY <2>1, <2>2, <2>3 DEF file
<1>3. ASSUME NEW f \in Files, Wanted(f, fetch.doc), f \notin Binary \cup Cut, repo[f] \in 1..fetch.since
      PROVE  \/ \E i \in 1..Len(fetch.files) : fetch.files[i].path = f /\ fetch.files[i].at = repo[f]
             \/ Cardinality({e \in fetch.seen \cap Files : Wanted(e, fetch.doc)}) > FileLimit
  <2>1. f \in PathsOf(fetch.files) \/ Cardinality(WantedSeen(fetch.seen, fetch.doc)) > FileLimit
    BY <1>1, <1>3 DEF Whole
  <2>2. ASSUME f \in PathsOf(fetch.files)
        PROVE  \E i \in 1..Len(fetch.files) : fetch.files[i].path = f /\ fetch.files[i].at = repo[f]
    <3>1. PICK i \in 1..Len(fetch.files) : fetch.files[i].path = f
      BY <2>2 DEF PathsOf
    <3>2. repo[f] # Absent /\ ~(repo[f] > fetch.since)
      <4>1. fetch.since \in Nat
        BY RepositoryAssumption DEF Inv, ReadInv, ReadTypes, RepositoryOK
      <4> QED  BY <1>3, <4>1 DEF Absent
    <3> QED  BY <1>2, <3>1, <3>2
  <2> QED  BY <2>1, <2>2 DEF WantedSeen
<1>4. \A i \in 1..Len(fetch.files) : \A j \in 1..Len(fetch.files) :
         fetch.files[i].path = fetch.files[j].path => i = j
  BY <1>1a DEF DistinctPaths
<1>5. /\ fetch.torn # {} => faults > fetch.before \/ (fetch.mode = "loop" /\ gone)
      /\ fetch.misread => faults > fetch.before \/ gone
  <2>1. faults \in Nat /\ fetch.before \in Nat /\ fetch.pc = "done"
    BY RepositoryAssumption DEF Inv, ReadInv, RepositoryOK, TornInv, Reading
  <2>2. fetch.torn # {} => fetch.before < faults \/ (fetch.mode = "loop" /\ gone)
    BY <2>1 DEF Inv, TornInv, Causes
  <2>3. fetch.misread => fetch.before < faults \/ gone
    BY DEF Inv, TornInv
  <2> QED  BY <2>1, <2>2, <2>3
<1> QED  BY <1>2, <1>3, <1>4, <1>5 DEF ReadIsComplete

(* Every step of the system is a step of the promise, or none.             *)
LEMMA NextPromise == Inv /\ [Next]_codeVars => [Promise!Next]_Promise!vars
<1> SUFFICES ASSUME Inv, [Next]_codeVars PROVE [Promise!Next]_Promise!vars
  OBVIOUS
<1>1. CASE Fetch \/ UserPush \/ UNCHANGED codeVars
  <2>1. UNCHANGED <<session, branch, pr>>
    BY <1>1 DEF Fetch, UserPush, codeVars, applyVars
  <2> QED  BY <2>1, FetchStepPromise
<1>2. CASE Analyze \/ Generate
  BY <1>2, AnalyzePromise, GeneratePromise DEF Inv
<1>3. CASE Apply
  BY <1>3, ApplyPromise DEF Apply, Inv, ReadInv
<1> QED  BY <1>1, <1>2, <1>3 DEF Next

-----------------------------------------------------------------------------
(* The files of a read and the operations of a session stay what the code  *)
(* takes them for, through reading, generating and applying                *)
(* (gitflame_client.go, service/workflow.go and server.go).                *)
THEOREM Invariant == Spec => []Inv
  BY InvInit, InvNext, PTL DEF Spec

(* Every variable keeps its type: in particular a file that is read has a  *)
(* content of some commit, the indices in the channel are those of files,  *)
(* and a request is at one of its operations (gitflame_client.go:559-680,  *)
(* server.go:367-433).                                                     *)
THEOREM TypesAreKept == Spec => []TypeOK
  BY Invariant, TypesFollow, PTL

(* A read that succeeds returned every wanted text file that did not       *)
(* change since it began and is not cut, or as many as the limit allows,   *)
(* each once, with its content and not older than the tree.  Besides files *)
(* of more than 2 MB only those may be cut whose call failed, in a loop    *)
(* also those read for a caller who has left, and never those of a pool    *)
(* that was stopped (repositoryFiles, fetchRepositoryFileContents and the  *)
(* error doGET drops, gitflame_client.go:559-680, 1128).                   *)
THEOREM ReadsAreComplete == Spec => []ReadIsComplete
  BY Invariant, DoneIsComplete, PTL

(* What executeCodeGenerationTask accepts of any reply can be carried out  *)
(* on the files that were read, one operation after the other, and none is *)
(* dropped when it is applied (service/workflow.go:244-273,                *)
(* server.go:382).                                                         *)
THEOREM AcceptedAreApplicable == Spec => []AcceptedIsApplicable
<1>1. Inv => AcceptedIsApplicable
  BY Accepted DEF Inv
<1> QED  BY <1>1, Invariant, PTL

(* A session that says applied has a pull request, and the branch holds    *)
(* exactly what was accepted on top of what it was made from, however many *)
(* requests worked on it and wherever they stopped (server.go:416-425).    *)
THEOREM AppliedAreReal == Spec => []AppliedIsReal
<1>1. Inv => AppliedIsReal
  BY Applied DEF Inv
<1> QED  BY <1>1, Invariant, PTL

(* When GitFlame refuses an operation, one of the accepted operations is   *)
(* on the branch already, or a file one of them names was added or deleted *)
(* between the read and the branch; a content that was cut is no reason    *)
(* (ValidateGeneratedFiles, service/workflow.go:684-736, and the refusals  *)
(* of gitflame_client.go:302-411).                                         *)
THEOREM RefusalsHaveReasons == Spec => []RefusedOnlyWhenDone
<1>1. Inv => RefusedOnlyWhenDone
  BY Refused DEF Inv
<1> QED  BY <1>1, Invariant, PTL

(* Applying implements PullRequest: a pull request is opened only when     *)
(* every accepted change is on its branch, changes on the branch are never *)
(* lost, and success is reported only after that (ApplyGeneratedFiles,     *)
(* gitflame_client.go:115-148).                                            *)
THEOREM KeepsThePromise == Spec => PullRequestSafe
<1>1. Inv /\ [Next]_codeVars => [Promise!Next]_Promise!vars
  BY NextPromise
<1> QED  BY <1>1, InitPromise, Invariant, PTL DEF Spec, PullRequestSafe, Promise!Spec

=============================================================================
