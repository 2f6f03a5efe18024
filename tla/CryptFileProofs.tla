-------------------------- MODULE CryptFileProofs --------------------------
(***************************************************************************)
(* Proofs about the file under encryption, for any finite sets of opens of *)
(* notepad and of other processes: who has the file open while it is in    *)
(* the list, who takes it off, and that notepad's text is in the clear     *)
(* neither on the disk nor in front of another process.  The last rests on *)
(* what the cache may hold while the file is not in the list, and between  *)
(* the clearing of the cache and the removal of the node.                  *)
(***************************************************************************)
EXTENDS CryptFile, FiniteSetTheorems, TLAPS

NoGap == mishaps \subseteq {"refused"}

NoSecretCached == \A k \in Blocks : cache[k] # Clear("secret")

\* What a process has written waits in the cache as it was written.
DirtyIsClear == \A k \in dirty : cache[k] \in {Clear("public"), Clear("secret")}

\* As long as no gap has been gone through: the disk has the text ciphered;
\* the cache has none of it unless the file is in the list, where a write of
\* notepad's text needs it to be; and it has none either when a close has
\* cleared it for the removal and nobody has the file open.
TextIsHidden ==
    /\ SecretIsCiphered
    /\ ~inList => NoSecretCached
    /\ \A s \in Secure : pc[s] = "open" /\ ret[s] # "PASS" => inList
    /\ \A s \in Secure : ret[s] # "CRYPTING"
    /\ \A g \in Opens : pc[g] = "remove" /\ (\A h \in Opens : pc[h] # "open") => NoSecretCached

IInv == TypeOK /\ Exclusive /\ ListedIsOpen /\ DirtyIsClear /\ (NoGap => TextIsHidden)

-----------------------------------------------------------------------------
(* The count of file objects in use, and the operations on the file.        *)

\* UncleanCount says whether nobody, one file object or more are in use.
LEMMA Count ==
    /\ UncleanCount \in Nat
    /\ UncleanCount = 0 => \A h \in Opens : pc[h] \notin UncleanLabels
    /\ UncleanCount > 0 => \E h \in Opens : pc[h] \in UncleanLabels
    /\ UncleanCount <= 1 =>
         \A g, h \in Opens : pc[g] \in UncleanLabels /\ pc[h] \in UncleanLabels => g = h
<1> DEFINE U == {h \in Opens : pc[h] \in UncleanLabels}
<1>1. IsFiniteSet(U)
  BY CryptAssumption, FS_Subset DEF Opens
<1>2. UncleanCount = Cardinality(U) /\ Cardinality(U) \in Nat
  BY <1>1, FS_CardinalityType DEF UncleanCount
<1>3. Cardinality(U) = 0 <=> U = {}
  BY <1>1, FS_EmptySet
<1>4. ASSUME Cardinality(U) <= 1, NEW g \in U, NEW h \in U PROVE g = h
  <2>1. U # {} /\ Cardinality(U) = 1
    BY <1>2, <1>3, <1>4
  <2>2. PICK x : U = {x}
    BY <2>1, <1>1, FS_Singleton
  <2> QED BY <2>2
<1> HIDE DEF U
<1>5. \A h \in Opens : h \in U <=> pc[h] \in UncleanLabels
  BY DEF U
<1>6. U \subseteq Opens
  BY DEF U
<1> QED BY <1>2, <1>3, <1>4, <1>5, <1>6

\* A page that is written while the file is in the list is ciphered.
LEMMA CipherFacts ==
    ASSUME inList \in BOOLEAN
    PROVE  /\ Offset \in 0..1
           /\ \A block \in Block : Cipher(block) \in Block
           /\ \A text : Cipher(Clear(text)) = IF inList THEN <<text, TRUE>> ELSE Clear(text)
<1>1. ASSUME NEW block \in Block PROVE Cipher(block) \in Block
  <2>1. block[1] \in {"zero", "header", "public", "secret"} /\ block[2] \in BOOLEAN
    BY <1>1 DEF Block
  <2>2. (~block[2]) \in BOOLEAN
    BY <2>1
  <2>3. <<block[1], ~block[2]>> \in Block
    BY <2>1, <2>2 DEF Block
  <2> QED BY <2>3, <1>1 DEF Cipher
<1>2. ASSUME NEW text
      PROVE  Cipher(Clear(text)) = IF inList THEN <<text, TRUE>> ELSE Clear(text)
  <2>1. (~FALSE) = TRUE
    OBVIOUS
  <2>2. Clear(text)[1] = text /\ Clear(text)[2] = FALSE
    BY DEF Clear
  <2> QED BY <2>1, <2>2 DEF Cipher
<1>3. Offset \in 0..1
  BY DEF Offset
<1> QED BY <1>1, <1>2, <1>3

\* Writing dirty pages keeps the type of the disk ...
LEMMA WrittenType ==
    ASSUME TypeOK, NEW K \in SUBSET dirty
    PROVE  Written(K) \in [Blocks -> Block]
<1>1. ASSUME NEW k \in dirty PROVE cache[k] \in Block
  BY DEF TypeOK
<1>2. ASSUME NEW b \in Blocks, b - Offset \in K PROVE Cipher(cache[b - Offset]) \in Block
  BY <1>1, <1>2, CipherFacts DEF TypeOK
<1> QED BY <1>2 DEF Written, TypeOK

\* ... and puts no text on it in the clear: in the list it is ciphered, and
\* elsewhere there is none.
LEMMA WrittenIsCiphered ==
    ASSUME TypeOK, DirtyIsClear, NEW K \in SUBSET dirty,
           SecretIsCiphered, ~inList => NoSecretCached
    PROVE  \A b \in Blocks : Written(K)[b] # Clear("secret")
<1> SUFFICES ASSUME NEW b \in Blocks PROVE Written(K)[b] # Clear("secret")
  OBVIOUS
<1>1. CASE ~(b - Offset \in K /\ b < size)
  BY <1>1 DEF Written, SecretIsCiphered
<1>2. CASE b - Offset \in K /\ b < size
  <2> DEFINE k == b - Offset
  <2>1. k \in Blocks /\ k \in dirty
    BY <1>2 DEF TypeOK
  <2>2. Written(K)[b] = Cipher(cache[k])
    BY <1>2 DEF Written
  <2>3. CASE inList
    <3>1. \A text : <<text, TRUE>> # Clear("secret")
      BY DEF Clear
    <3> QED BY <2>1, <2>2, <2>3, <3>1, CipherFacts DEF DirtyIsClear, TypeOK
  <2>4. CASE ~inList
    BY <2>1, <2>2, <2>4 DEF Cipher, NoSecretCached
  <2> QED BY <2>3, <2>4
<1> QED BY <1>1, <1>2

\* What a request to the file system does to the invariant's parts about data.
DataKept ==
    /\ size' \in 0..Cardinality(Blocks) /\ disk' \in [Blocks -> Block]
    /\ cache' \in [Blocks -> Block \cup {NoPage}]
    /\ dirty' \subseteq {k \in Blocks : cache'[k] # NoPage}
    /\ DirtyIsClear'
    /\ \A k \in Blocks : cache'[k] \in {cache[k], NoPage}
    /\ SecretIsCiphered /\ (~inList => NoSecretCached) => SecretIsCiphered'

\* What a block may be, and what an erased file holds.
LEMMA BlockFacts ==
    /\ Cardinality(Blocks) = 2
    /\ NoPage \notin Block
    /\ \A text \in {"zero", "header", "public", "secret"} : Clear(text) \in Block
    /\ Zeros \in [Blocks -> Block] /\ \A b \in Blocks : Zeros[b] # Clear("secret")
<1>1. Blocks = {0, 1}
  BY DEF Blocks
<1>2. Cardinality({0, 1}) = 2
  <2>1. IsFiniteSet({0}) /\ Cardinality({0}) = 1
    BY FS_Singleton
  <2>2. Cardinality({0} \cup {1}) = 2
    BY <2>1, FS_AddElement
  <2> QED BY <2>2, {0, 1} = {0} \cup {1}
<1>3. NoPage \notin Block
  BY DEF NoPage, Block
<1>4. \A text \in {"zero", "header", "public", "secret"} : Clear(text) \in Block
  BY DEF Block, Clear
<1>5. Clear("zero") # Clear("secret")
  BY DEF Clear
<1>6. Zeros \in [Blocks -> Block] /\ \A b \in Blocks : Zeros[b] # Clear("secret")
  BY <1>4, <1>5 DEF Zeros
<1> QED BY <1>1, <1>2, <1>3, <1>4, <1>6

\* The parts about data are kept where nothing is done to the file ...
LEMMA Stutters ==
    ASSUME TypeOK, DirtyIsClear, UNCHANGED dataVars
    PROVE  DataKept
BY DEF DataKept, dataVars, TypeOK, DirtyIsClear, SecretIsCiphered

\* ... where its length is set ...
LEMMA SizeIsSet ==
    ASSUME TypeOK, DirtyIsClear, NEW n \in 0..Cardinality(Blocks), SetSize(n)
    PROVE  DataKept
BY BlockFacts DEF DataKept, SetSize, TypeOK, DirtyIsClear, SecretIsCiphered

\* ... and where its cache is cleared, which leaves no text in it.
LEMMA CacheIsCleared ==
    ASSUME TypeOK, DirtyIsClear, FileCacheClear
    PROVE  DataKept /\ NoSecretCached' /\ dirty' = {}
<1>1. disk' = Written(dirty) /\ cache' = NoCache /\ dirty' = {} /\ size' = size
  BY DEF FileCacheClear
<1>2. Written(dirty) \in [Blocks -> Block]
  BY WrittenType
<1>3. NoCache \in [Blocks -> Block \cup {NoPage}] /\ \A k \in Blocks : NoCache[k] = NoPage
  BY DEF NoCache
<1>4. NoPage # Clear("secret")
  BY BlockFacts
<1>5. NoSecretCached'
  BY <1>1, <1>3, <1>4 DEF NoSecretCached, Clear
<1>6. SecretIsCiphered /\ (~inList => NoSecretCached) => SecretIsCiphered'
  BY <1>1, WrittenIsCiphered DEF SecretIsCiphered, Clear
<1> QED BY <1>1, <1>2, <1>3, <1>5, <1>6 DEF DataKept, DirtyIsClear, TypeOK

\* The open and the cleanup of the file system do one of these.
LEMMA LowerKeeps ==
    ASSUME TypeOK, DirtyIsClear, LowerOpen \/ LowerCleanup
    PROVE  DataKept
<1>1. 0 \in 0..Cardinality(Blocks)
  BY BlockFacts
<1> QED BY <1>1, SizeIsSet, Stutters DEF LowerOpen, LowerCleanup

-----------------------------------------------------------------------------
(* Each step.                                                               *)

\* A file that nobody has open holds no text in the clear.
LEMMA InitCorrect == Init => IInv
<1> SUFFICES ASSUME Init PROVE IInv
  OBVIOUS
<1> USE DEF Init
<1>1. <<"secret", TRUE>> \in Block /\ <<"secret", TRUE>> # Clear("secret")
  BY DEF Block, Clear
<1>2. Clear("public") # Clear("secret") /\ Clear("header") # Clear("secret")
  BY DEF Clear
<1>3. size \in 0..Cardinality(Blocks)
  <2>1. Cardinality(Blocks) = 2
    BY BlockFacts
  <2>2. size = 0 \/ size = 2
    OBVIOUS
  <2> QED BY <2>1, <2>2
<1>4. disk \in [Blocks -> Block] /\ SecretIsCiphered
  <2>1. CASE disk = Zeros
    BY <2>1, BlockFacts DEF SecretIsCiphered
  <2>2. CASE disk = [b \in Blocks |-> Clear("public")]
    BY <2>2, <1>2, BlockFacts DEF SecretIsCiphered
  <2>3. CASE disk = [b \in Blocks |-> IF b = 0 THEN Clear("header") ELSE <<"secret", TRUE>>]
    BY <2>3, <1>1, <1>2, BlockFacts DEF SecretIsCiphered
  <2> QED BY <2>1, <2>2, <2>3
<1>5. cache \in [Blocks -> Block \cup {NoPage}] /\ NoSecretCached
  BY BlockFacts DEF NoCache, NoSecretCached
<1>6. TypeOK
  BY <1>3, <1>4, <1>5 DEF TypeOK
<1> QED BY <1>4, <1>5, <1>6 DEF IInv, Exclusive, ListedIsOpen, DirtyIsClear, TextIsHidden

\* A thread's step that leaves the list, the decisions, the deletion and the
\* history alone, has nobody open, clean up or close, and does no more to the
\* data than the file system does, keeps the invariant.
LEMMA QuietStep ==
    ASSUME IInv, NEW h \in Opens, NEW label, Goto(h, label),
           label \in UncleanLabels \cup {"clearMy", "lower", "cleaned"}, label # "open",
           pc[h] # "open", pc[h] # "remove", pc[h] # "closed",
           DataKept, UNCHANGED <<listVars, deleting, mishaps>>,
           ret' = ret \/ \E s \in Secure, r \in {"PASS", "GO_ON"} : s = h /\ ret' = [ret EXCEPT ![s] = r]
    PROVE  IInv'
<1> USE DEF IInv, listVars, Goto
<1>1. pc' = [pc EXCEPT ![h] = label] /\ pc'[h] = label /\ \A g \in Opens \ {h} : pc'[g] = pc[g]
  BY DEF TypeOK
<1>2. TypeOK'
  <2>1. ret' \in [Secure -> {"PASS", "CRYPTING", "GO_ON"}]
    BY DEF TypeOK
  <2> QED BY <1>1, <2>1 DEF TypeOK, DataKept, UncleanLabels
<1>3. Exclusive'
  BY <1>1 DEF Exclusive, Opens
<1>4. ListedIsOpen'
  BY <1>1 DEF ListedIsOpen, UncleanLabels
<1>5. DirtyIsClear'
  BY DEF DataKept
<1>6. ASSUME NoGap' PROVE TextIsHidden'
  <2>1. TextIsHidden
    BY <1>6 DEF NoGap
  <2>2. NoSecretCached => NoSecretCached'
    BY BlockFacts DEF NoSecretCached, DataKept, Clear, NoPage
  <2>3. SecretIsCiphered'
    BY <2>1 DEF DataKept, TextIsHidden
  <2>4. \A s \in Secure : pc'[s] = "open" /\ ret'[s] # "PASS" => inList'
    BY <1>1, <2>1 DEF TextIsHidden, TypeOK, Opens
  <2>5. \A s \in Secure : ret'[s] # "CRYPTING"
    BY <2>1 DEF TextIsHidden, TypeOK
  <2>6. \A g \in Opens : pc'[g] = "remove" /\ (\A f \in Opens : pc'[f] # "open") => NoSecretCached'
    BY <1>1, <2>1, <2>2 DEF TextIsHidden, UncleanLabels
  <2> QED BY <2>1, <2>2, <2>3, <2>4, <2>5, <2>6 DEF TextIsHidden
<1> QED BY <1>2, <1>3, <1>4, <1>5, <1>6

\* The requests of cfIrpCreatePre that go past the cache.
LEMMA HeaderIsDone ==
    ASSUME IInv, NEW s \in Secure, WriteHeader(s) \/ ReadHeader(s)
    PROVE  DataKept
<1> USE DEF IInv
<1>1. Written(dirty) \in [Blocks -> Block]
  BY WrittenType
<1>2. SecretIsCiphered /\ (~inList => NoSecretCached) => \A b \in Blocks : Written(dirty)[b] # Clear("secret")
  BY WrittenIsCiphered
<1>3. CASE WriteHeader(s)
  <2>1. disk' = [Written(dirty) EXCEPT ![0] = Clear("header")] /\ cache' = NoCache /\ dirty' = {}
    BY <1>3 DEF WriteHeader
  <2>2. Clear("header") \in Block /\ Clear("header") # Clear("secret")
    BY BlockFacts DEF Clear
  <2>3. disk' \in [Blocks -> Block]
    BY <1>1, <2>1, <2>2
  <2>4. SecretIsCiphered /\ (~inList => NoSecretCached) => SecretIsCiphered'
    <3> SUFFICES ASSUME SecretIsCiphered /\ (~inList => NoSecretCached), NEW b \in Blocks
                 PROVE  disk'[b] # Clear("secret")
      BY DEF SecretIsCiphered, Clear
    <3> QED BY <1>1, <1>2, <2>1, <2>2
  <2>5. size' \in 0..Cardinality(Blocks)
    <3>1. Cardinality(Blocks) = 2 /\ size \in 0..Cardinality(Blocks)
      BY BlockFacts DEF TypeOK
    <3> QED BY <1>3, <3>1 DEF WriteHeader
  <2> QED BY <2>1, <2>3, <2>4, <2>5 DEF DataKept, DirtyIsClear, NoCache
<1>4. CASE ReadHeader(s)
  <2>1. disk' = Written(dirty) /\ dirty' = {} /\ cache' = cache /\ size' = size
    BY <1>4 DEF ReadHeader
  <2>2. SecretIsCiphered /\ (~inList => NoSecretCached) => SecretIsCiphered'
    BY <1>2, <2>1 DEF SecretIsCiphered, Clear
  <2> QED BY <1>1, <2>1, <2>2 DEF DataKept, DirtyIsClear, TypeOK
<1> QED BY <1>3, <1>4

\* What cfIrpCreatePre does through my_file.
LEMMA CreatePreStep ==
    ASSUME IInv, NEW s \in Secure,
           \/ OpenMyFile(s) \/ InspectMyFile(s) \/ SetHeaderSize(s) \/ WriteHeader(s)
           \/ WriteHeaderFails(s) \/ ReadHeader(s) \/ CloseMyFile(s) \/ ClearMyFile(s)
           \/ AppendClear(s)
    PROVE  IInv'
<1> USE DEF IInv
<1>1. s \in Opens
  BY DEF Opens
<1>2. DataKept
  <2>1. 1 \in 0..Cardinality(Blocks)
    BY BlockFacts
  <2>2. CASE OpenMyFile(s) \/ CloseMyFile(s)
    BY <2>2, LowerKeeps DEF OpenMyFile, CloseMyFile
  <2>3. CASE InspectMyFile(s) \/ WriteHeaderFails(s)
    BY <2>3, Stutters DEF InspectMyFile, WriteHeaderFails
  <2>4. CASE SetHeaderSize(s)
    BY <2>1, <2>4, SizeIsSet DEF SetHeaderSize
  <2>5. CASE WriteHeader(s) \/ ReadHeader(s)
    BY <2>5, HeaderIsDone
  <2>6. CASE ClearMyFile(s) \/ AppendClear(s)
    BY <2>6, CacheIsCleared DEF ClearMyFile, AppendClear
  <2> QED BY <2>2, <2>3, <2>4, <2>5, <2>6
<1>3. UNCHANGED <<listVars, deleting, mishaps>>
  BY DEF OpenMyFile, InspectMyFile, SetHeaderSize, WriteHeader, WriteHeaderFails, ReadHeader,
         CloseMyFile, ClearMyFile, AppendClear
<1>4. ret' = ret \/ \E r \in {"PASS", "GO_ON"} : ret' = [ret EXCEPT ![s] = r]
  BY DEF OpenMyFile, InspectMyFile, SetHeaderSize, WriteHeader, WriteHeaderFails, ReadHeader,
         CloseMyFile, ClearMyFile, AppendClear
<1>5. pc[s] # "open" /\ pc[s] # "remove" /\ pc[s] # "closed"
  BY DEF OpenMyFile, InspectMyFile, SetHeaderSize, WriteHeader, WriteHeaderFails, ReadHeader,
         CloseMyFile, ClearMyFile, AppendClear
<1>6. PICK label \in (UncleanLabels \cup {"clearMy", "lower", "cleaned"}) \ {"open"} : Goto(s, label)
  BY DEF OpenMyFile, InspectMyFile, SetHeaderSize, WriteHeader, WriteHeaderFails, ReadHeader,
         CloseMyFile, ClearMyFile, AppendClear, UncleanLabels
<1> QED BY <1>1, <1>2, <1>3, <1>4, <1>5, <1>6, QuietStep

\* What the steps that change no data have in common.
LEMMA SameData ==
    ASSUME IInv, UNCHANGED dataVars
    PROVE  /\ DataKept
           /\ NoSecretCached => NoSecretCached'
           /\ SecretIsCiphered => SecretIsCiphered'
BY Stutters DEF IInv, dataVars, NoSecretCached, SecretIsCiphered

\* An open that is passed on because the file is in the list is a gap.
LEMMA LookStep ==
    ASSUME IInv, NEW s \in Secure, LookForMyFile(s)
    PROVE  IInv'
<1> USE DEF IInv
<1>1. DataKept /\ s \in Opens
  BY SameData DEF LookForMyFile, Opens
<1>2. CASE inList
  <2> USE <1>2 DEF LookForMyFile, Goto, listVars
  <2>1. ~NoGap'
    BY DEF NoGap
  <2>2. pc' = [pc EXCEPT ![s] = "closeMy"] /\ ret' = [ret EXCEPT ![s] = "CRYPTING"]
    OBVIOUS
  <2>3. TypeOK'
    BY <1>1, <2>2 DEF TypeOK, DataKept, UncleanLabels
  <2>4. Exclusive' /\ ListedIsOpen'
    BY <1>1, <2>2 DEF Exclusive, ListedIsOpen, TypeOK, Opens
  <2> QED BY <1>1, <2>1, <2>3, <2>4 DEF DataKept
<1>3. CASE ~inList
  <2>1. /\ Goto(s, "inspect") /\ ret' = [ret EXCEPT ![s] = "PASS"] /\ pc[s] = "look"
        /\ UNCHANGED <<listVars, deleting, mishaps>>
    BY <1>3 DEF LookForMyFile
  <2>2. "inspect" \in UncleanLabels
    BY DEF UncleanLabels
  <2> QED BY <1>1, <2>1, <2>2, QuietStep
<1> QED BY <1>2, <1>3

\* A file object is in use, and nobody else is told.
LEMMA OpenedStep ==
    ASSUME IInv, NEW h \in Opens, Goto(h, "open"), UNCHANGED <<listVars, dataVars, deleting, ret, mishaps>>,
           pc[h] # "remove",
           h \in Plain => ~inList, h \in Secure => ret[h] # "GO_ON"
    PROVE  IInv'
<1> USE DEF IInv, Goto, listVars
<1>1. pc' = [pc EXCEPT ![h] = "open"] /\ pc'[h] = "open" /\ \A g \in Opens \ {h} : pc'[g] = pc[g]
  BY DEF TypeOK
<1>2. TypeOK' /\ DirtyIsClear'
  BY <1>1, SameData DEF TypeOK, DataKept, UncleanLabels
<1>3. Exclusive' /\ ListedIsOpen'
  BY <1>1, CryptAssumption DEF Exclusive, ListedIsOpen, Opens
<1>4. ASSUME NoGap' PROVE TextIsHidden'
  <2>1. TextIsHidden
    BY <1>4 DEF NoGap
  <2>2. \A s \in Secure : pc'[s] = "open" /\ ret'[s] # "PASS" => inList'
    BY <1>1, <2>1, CryptAssumption DEF TextIsHidden, TypeOK, Opens
  <2> QED BY <1>1, <2>1, <2>2, SameData DEF TextIsHidden
<1> QED BY <1>2, <1>3, <1>4

\* An open that the file system refuses leaves no open.
LEMMA CreateRefusedStep ==
    ASSUME IInv, NEW s \in Secure, CreateRefused(s)
    PROVE  IInv'
<1> USE DEF IInv, CreateRefused, Goto, listVars
<1>1. s \in Opens /\ pc' = [pc EXCEPT ![s] = "idle"] /\ ret' = [ret EXCEPT ![s] = "PASS"]
  BY DEF Opens
<1>2. TypeOK' /\ DirtyIsClear'
  BY <1>1, SameData DEF TypeOK, DataKept, UncleanLabels
<1>3. Exclusive' /\ ListedIsOpen'
  BY <1>1 DEF Exclusive, ListedIsOpen, Opens, TypeOK
<1>4. ASSUME NoGap' PROVE TextIsHidden'
  <2>1. TextIsHidden
    BY <1>4 DEF NoGap
  <2>2. \A t \in Secure : pc'[t] = "open" /\ ret'[t] # "PASS" => inList'
    BY <1>1, <2>1 DEF TextIsHidden, TypeOK, Opens
  <2>3. \A t \in Secure : ret'[t] # "CRYPTING"
    BY <1>1, <2>1 DEF TextIsHidden, TypeOK
  <2>4. \A g \in Opens : pc'[g] = "remove" /\ (\A h \in Opens : pc'[h] # "open") => NoSecretCached'
    BY <1>1, <2>1, SameData DEF TextIsHidden, TypeOK
  <2> QED BY <1>1, <2>1, <2>2, <2>3, <2>4, SameData DEF TextIsHidden
<1> QED BY <1>2, <1>3, <1>4

\* One that gets in the list has the file for notepad alone.
LEMMA AppendStep ==
    ASSUME IInv, NEW s \in Secure, Append(s)
    PROVE  IInv'
<1> USE DEF IInv
<1>1. s \in Opens /\ s \notin Plain /\ pc[s] = "append" /\ "append" \in UncleanLabels
  BY CryptAssumption DEF Opens, Append, UncleanLabels
<1>2. UNCHANGED <<dataVars, deleting, ret, mishaps>>
  BY DEF Append
<1>3. CASE UncleanCount > 1 /\ ~inList /\ Goto(s, "cancel") /\ UNCHANGED listVars
  <2>1. "cancel" \in UncleanLabels /\ DataKept
    BY <1>2, SameData DEF UncleanLabels
  <2> QED BY <1>1, <1>2, <1>3, <2>1, QuietStep
<1>4. CASE AppendListed(s) \/ (UncleanCount <= 1 /\ AppendNode(s))
  <2>1. pc' = [pc EXCEPT ![s] = "open"] /\ inList' /\ inList' \in BOOLEAN /\ lockLost' \in BOOLEAN
    BY <1>4 DEF AppendListed, AppendNode, Goto, TypeOK
  <2>2. TypeOK' /\ DirtyIsClear'
    BY <1>1, <1>2, <2>1, SameData DEF TypeOK, DataKept, UncleanLabels
  <2>3. \A p \in Plain : pc[p] # "open"
    <3>1. CASE inList
      BY <3>1 DEF Exclusive
    <3>2. CASE UncleanCount <= 1
      <4>1. "open" \in UncleanLabels
        BY DEF UncleanLabels
      <4> QED BY <1>1, <3>2, <4>1, Count DEF Opens
    <3> QED BY <1>4, <3>1, <3>2 DEF AppendListed
  <2>4. Exclusive' /\ ListedIsOpen'
    BY <1>1, <2>1, <2>3 DEF Exclusive, ListedIsOpen, Opens, TypeOK
  <2>5. ASSUME NoGap' PROVE TextIsHidden'
    <3>1. TextIsHidden
      BY <1>2, <2>5 DEF NoGap
    <3>2. pc'[s] = "open"
      BY <1>1, <2>1 DEF TypeOK
    <3> QED BY <1>1, <1>2, <2>1, <3>1, <3>2, SameData DEF TextIsHidden
  <2> QED BY <2>2, <2>4, <2>5
<1> QED BY <1>3, <1>4 DEF Append

\* The other answers to an open: it goes on, it is accepted, or it is undone.
LEMMA AnswerStep ==
    ASSUME IInv,
           \/ \E s \in Secure : CreateSecure(s)
           \/ \E p \in Plain : CreatePlain(p) \/ CheckPlain(p)
           \/ \E h \in Opens : CancelFileOpen(h)
    PROVE  IInv'
<1> USE DEF IInv
<1>1. ASSUME NEW s \in Secure, CreateSecure(s) PROVE IInv'
  <2> USE DEF CreateSecure
  <2>1. s \in Opens /\ s \notin Plain /\ pc[s] = "lower"
    BY <1>1, CryptAssumption DEF Opens
  <2>2. UNCHANGED <<listVars, dataVars, deleting, ret, mishaps>>
    BY <1>1
  <2>3. CASE ret[s] = "GO_ON"
    <3>1. Goto(s, "clear") /\ "clear" \in UncleanLabels /\ DataKept
      BY <1>1, <2>3, SameData DEF UncleanLabels
    <3> QED BY <2>1, <2>2, <3>1, QuietStep
  <2>4. CASE ret[s] # "GO_ON"
    <3>1. Goto(s, "open")
      BY <1>1, <2>4
    <3> QED BY <2>1, <2>2, <2>4, <3>1, OpenedStep
  <2> QED BY <2>3, <2>4
<1>2. ASSUME NEW p \in Plain, CreatePlain(p) PROVE IInv'
  <2>1. p \in Opens /\ DataKept /\ Goto(p, "check") /\ "check" \in UncleanLabels
    BY <1>2, LowerKeeps DEF CreatePlain, Opens, UncleanLabels
  <2> QED BY <1>2, <2>1, QuietStep DEF CreatePlain
<1>3. ASSUME NEW p \in Plain, CheckPlain(p) PROVE IInv'
  <2> USE DEF CheckPlain
  <2>1. p \in Opens /\ p \notin Secure /\ pc[p] = "check"
    BY <1>3, CryptAssumption DEF Opens
  <2>2. UNCHANGED <<listVars, dataVars, deleting, ret, mishaps>>
    BY <1>3
  <2>3. CASE inList
    <3>1. Goto(p, "cancel") /\ "cancel" \in UncleanLabels /\ DataKept
      BY <1>3, <2>3, SameData DEF UncleanLabels
    <3> QED BY <2>1, <2>2, <3>1, QuietStep
  <2>4. CASE ~inList
    <3>1. Goto(p, "open")
      BY <1>3, <2>4
    <3> QED BY <2>1, <2>2, <2>4, <3>1, OpenedStep
  <2> QED BY <2>3, <2>4
<1>4. ASSUME NEW h \in Opens, CancelFileOpen(h) PROVE IInv'
  <2>1. DataKept /\ Goto(h, "cleaned") /\ pc[h] = "cancel"
    BY <1>4, LowerKeeps DEF CancelFileOpen
  <2> QED BY <1>4, <2>1, QuietStep DEF CancelFileOpen
<1> QED BY <1>1, <1>2, <1>3, <1>4

\* Where no thread moves, only the cache can give the text away.
LEMMA DataStep ==
    ASSUME IInv, UNCHANGED <<listVars, pc, ret, mishaps>>, deleting' \in BOOLEAN, DataKept
    PROVE  IInv'
<1> USE DEF IInv, listVars
<1>1. TypeOK' /\ DirtyIsClear'
  BY DEF TypeOK, DataKept
<1>2. Exclusive' /\ ListedIsOpen'
  BY DEF Exclusive, ListedIsOpen
<1>3. ASSUME NoGap' PROVE TextIsHidden'
  <2>1. TextIsHidden
    BY <1>3 DEF NoGap
  <2>2. NoSecretCached => NoSecretCached'
    BY BlockFacts DEF NoSecretCached, DataKept, Clear, NoPage
  <2> QED BY <2>1, <2>2 DEF TextIsHidden, DataKept
<1> QED BY <1>1, <1>2, <1>3

\* A page is read as the file's place in the list says ...
LEMMA ReadPageStep ==
    ASSUME IInv, NEW h \in Opens, NEW k \in Blocks, ReadPage(h, k)
    PROVE  IInv'
<1> USE DEF IInv, listVars
<1> DEFINE page == IF k + Offset < size THEN Cipher(disk[k + Offset]) ELSE Clear("zero")
<1>1. /\ cache' = [cache EXCEPT ![k] = page] /\ cache[k] = NoPage
      /\ UNCHANGED <<inList, lockLost, size, disk, dirty, deleting, pc, ret, mishaps>>
      /\ pc[h] = "open"
  BY DEF ReadPage
<1>2. page \in Block
  <2>1. CASE k + Offset < size
    <3>1. Offset \in 0..1 /\ size \in 0..2 /\ k \in 0..1
      BY CipherFacts, BlockFacts DEF TypeOK, Blocks
    <3>2. k + Offset \in Blocks
      BY <2>1, <3>1 DEF Blocks
    <3> QED BY <2>1, <3>2, CipherFacts DEF TypeOK
  <2> QED BY <2>1, BlockFacts
<1>3. SecretIsCiphered /\ ~inList => page # Clear("secret")
  <2>1. CASE k + Offset < size /\ ~inList
    <3>1. Cipher(disk[k + Offset]) = disk[k] /\ page = disk[k]
      BY <2>1 DEF Cipher, Offset, Blocks
    <3> QED BY <3>1 DEF SecretIsCiphered
  <2>2. Clear("zero") # Clear("secret")
    BY DEF Clear
  <2> QED BY <2>1, <2>2
<1> HIDE DEF page
<1>4. cache' \in [Blocks -> Block \cup {NoPage}] /\ cache'[k] = page /\ \A j \in Blocks \ {k} : cache'[j] = cache[j]
  BY <1>1, <1>2 DEF TypeOK
<1>5. k \notin dirty
  BY <1>1 DEF TypeOK
<1>6. TypeOK'
  BY <1>1, <1>2, <1>4, <1>5, BlockFacts DEF TypeOK
<1>7. DirtyIsClear'
  BY <1>1, <1>4, <1>5 DEF DirtyIsClear, TypeOK
<1>8. Exclusive' /\ ListedIsOpen'
  BY <1>1 DEF Exclusive, ListedIsOpen
<1>9. ASSUME NoGap' PROVE TextIsHidden'
  <2>1. TextIsHidden
    BY <1>1, <1>9 DEF NoGap
  <2>2. ~inList => NoSecretCached'
    BY <1>3, <1>4, <2>1 DEF TextIsHidden, NoSecretCached, Clear
  <2> QED BY <1>1, <2>1, <2>2 DEF TextIsHidden, SecretIsCiphered
<1> QED BY <1>6, <1>7, <1>8, <1>9

\* ... and written with notepad's text only while the file is in it.
LEMMA WritePageStep ==
    ASSUME IInv, NEW h \in Opens, NEW k \in Blocks, WritePage(h, k)
    PROVE  IInv'
<1> USE DEF IInv, listVars
<1>1. /\ cache' = [cache EXCEPT ![k] = Clear(Text(h))] /\ dirty' = dirty \cup {k}
      /\ size' = IF k < size THEN size ELSE k + 1
      /\ UNCHANGED <<inList, lockLost, disk, deleting, pc, ret, mishaps>>
      /\ pc[h] = "open"
  BY DEF WritePage
<1>2. Text(h) \in {"secret", "public"} /\ Clear(Text(h)) \in Block /\ Clear(Text(h)) # NoPage
  BY BlockFacts DEF Text
<1>3. NoGap /\ ~inList => Clear(Text(h)) # Clear("secret")
  BY <1>1 DEF Text, TextIsHidden, Clear
<1>4. /\ cache' \in [Blocks -> Block \cup {NoPage}] /\ cache'[k] = Clear(Text(h))
      /\ \A j \in Blocks \ {k} : cache'[j] = cache[j]
  BY <1>1, <1>2 DEF TypeOK
<1>5. size' \in 0..Cardinality(Blocks)
  <2>1. size \in 0..2 /\ k \in 0..1 /\ Cardinality(Blocks) = 2
    BY BlockFacts DEF TypeOK, Blocks
  <2> QED BY <1>1, <2>1
<1>6. TypeOK'
  BY <1>1, <1>2, <1>4, <1>5 DEF TypeOK
<1>7. DirtyIsClear'
  BY <1>1, <1>2, <1>4 DEF DirtyIsClear, TypeOK
<1>8. Exclusive' /\ ListedIsOpen'
  BY <1>1 DEF Exclusive, ListedIsOpen
<1>9. ASSUME NoGap' PROVE TextIsHidden'
  <2>1. TextIsHidden /\ NoGap
    BY <1>1, <1>9 DEF NoGap
  <2>2. ~inList => NoSecretCached'
    BY <1>3, <1>4, <2>1 DEF TextIsHidden, NoSecretCached, Clear
  <2> QED BY <1>1, <2>1, <2>2 DEF TextIsHidden, SecretIsCiphered
<1> QED BY <1>6, <1>7, <1>8, <1>9

\* What is done to an open file, by who has it open and by the cache manager.
LEMMA UseStep ==
    ASSUME IInv, (\E h \in Opens : Use(h)) \/ (\E k \in Blocks : LazyWrite(k)) \/ FileIsGone
    PROVE  IInv'
<1> USE DEF IInv
<1>1. ASSUME NEW h \in Opens, NEW n \in 0..Cardinality(Blocks), SetEndOfFile(h, n) PROVE IInv'
  <2>1. n + Offset \in 0..Cardinality(Blocks) /\ SetSize(n + Offset)
    BY <1>1 DEF SetEndOfFile
  <2>2. DataKept
    BY <2>1, SizeIsSet
  <2> QED BY <1>1, <2>2, DataStep DEF SetEndOfFile, TypeOK
<1>2. ASSUME NEW h \in Opens, SetDisposition(h) PROVE IInv'
  BY <1>2, Stutters, DataStep DEF SetDisposition, TypeOK
<1>3. ASSUME NEW k \in Blocks, LazyWrite(k) PROVE IInv'
  <2>1. {k} \in SUBSET dirty /\ disk' = Written({k}) /\ dirty' = dirty \ {k}
    BY <1>3 DEF LazyWrite
  <2>2. Written({k}) \in [Blocks -> Block]
    BY <2>1, WrittenType
  <2>3. SecretIsCiphered /\ (~inList => NoSecretCached) => SecretIsCiphered'
    BY <2>1, WrittenIsCiphered DEF SecretIsCiphered, Clear
  <2>4. DataKept
    BY <1>3, <2>1, <2>2, <2>3 DEF DataKept, LazyWrite, TypeOK, DirtyIsClear
  <2> QED BY <1>3, <2>4, DataStep DEF LazyWrite, TypeOK
<1>4. ASSUME FileIsGone PROVE IInv'
  BY <1>4, Stutters, DataStep DEF FileIsGone
<1> QED BY <1>1, <1>2, <1>3, <1>4, ReadPageStep, WritePageStep DEF Use

\* A cleanup that overtakes a close that is clearing the cache is a gap.
LEMMA CleanupStep ==
    ASSUME IInv, NEW h \in Opens, Cleanup(h)
    PROVE  IInv'
<1> USE DEF IInv, listVars
<1>1. /\ pc[h] = "open" /\ pc' = [pc EXCEPT ![h] = "cleaned"]
      /\ mishaps' = IF \E g \in Opens : pc[g] = "remove" THEN mishaps \cup {"overtaken"} ELSE mishaps
      /\ UNCHANGED <<inList, lockLost, deleting, ret>>
  BY DEF Cleanup, Goto
<1>2. DataKept
  BY LowerKeeps DEF Cleanup
<1>3. TypeOK' /\ DirtyIsClear'
  BY <1>1, <1>2 DEF TypeOK, DataKept
<1>4. Exclusive' /\ ListedIsOpen'
  BY <1>1 DEF Exclusive, ListedIsOpen, Opens, TypeOK
<1>5. ASSUME NoGap' PROVE TextIsHidden'
  <2>1. mishaps' = mishaps /\ \A g \in Opens : pc[g] # "remove"
    BY <1>1, <1>5 DEF NoGap
  <2>2. TextIsHidden
    BY <1>5, <2>1 DEF NoGap
  <2>3. NoSecretCached => NoSecretCached'
    BY <1>2, BlockFacts DEF NoSecretCached, DataKept, Clear, NoPage
  <2>4. \A g \in Opens : pc'[g] # "remove"
    BY <1>1, <2>1 DEF TypeOK
  <2>5. \A s \in Secure : pc'[s] = "open" /\ ret'[s] # "PASS" => inList'
    BY <1>1, <2>2 DEF TextIsHidden, TypeOK, Opens
  <2> QED BY <1>1, <1>2, <2>2, <2>3, <2>4, <2>5 DEF TextIsHidden, DataKept
<1> QED BY <1>3, <1>4, <1>5

\* A close of a file in the list has not ended until the list is looked at.
LEMMA CloseStep ==
    ASSUME IInv, NEW h \in Opens, Close(h)
    PROVE  IInv'
<1> USE DEF IInv, listVars
<1>1. /\ pc[h] = "cleaned" /\ pc' = [pc EXCEPT ![h] = IF inList THEN "closed" ELSE "idle"]
      /\ ret' = [s \in Secure |-> IF s = h THEN "PASS" ELSE ret[s]]
      /\ UNCHANGED <<inList, lockLost, deleting, mishaps>>
  BY DEF Close, Goto
<1>2. DataKept /\ (NoSecretCached => NoSecretCached') /\ (SecretIsCiphered => SecretIsCiphered')
  BY SameData DEF Close
<1>3. TypeOK' /\ DirtyIsClear'
  BY <1>1, <1>2 DEF TypeOK, DataKept
<1>4. Exclusive' /\ ListedIsOpen'
  BY <1>1 DEF Exclusive, ListedIsOpen, Opens, TypeOK
<1>5. ASSUME NoGap' PROVE TextIsHidden'
  <2>1. TextIsHidden
    BY <1>1, <1>5 DEF NoGap
  <2>2. \A s \in Secure : pc'[s] = "open" /\ ret'[s] # "PASS" => inList'
    BY <1>1, <2>1 DEF TextIsHidden, TypeOK, Opens
  <2>3. \A s \in Secure : ret'[s] # "CRYPTING"
    BY <1>1, <2>1 DEF TextIsHidden
  <2>4. \A g \in Opens : pc'[g] = "remove" /\ (\A f \in Opens : pc'[f] # "open") => NoSecretCached'
    BY <1>1, <1>2, <2>1 DEF TextIsHidden, TypeOK
  <2> QED BY <1>1, <1>2, <2>1, <2>2, <2>3, <2>4 DEF TextIsHidden
<1> QED BY <1>3, <1>4, <1>5

\* It has somebody else's close to rely on, or clears the cache ...
LEMMA CleanupCompleteStep ==
    ASSUME IInv, NEW h \in Opens, CleanupComplete(h)
    PROVE  IInv'
<1> USE DEF IInv, listVars
<1>1. /\ pc[h] = "closed" /\ UNCHANGED <<inList, lockLost, deleting, ret, mishaps>>
  BY DEF CleanupComplete
<1>2. /\ DataKept
      /\ \/ pc' = [pc EXCEPT ![h] = "remove"] /\ NoSecretCached'
         \/ UncleanCount > 1 /\ pc' = [pc EXCEPT ![h] = "idle"]
  BY CacheIsCleared, SameData DEF CleanupComplete, Goto
<1>3. TypeOK' /\ DirtyIsClear'
  BY <1>1, <1>2 DEF TypeOK, DataKept
<1>4. Exclusive'
  BY <1>1, <1>2 DEF Exclusive, Opens, TypeOK
<1>5. ListedIsOpen'
  <2>1. CASE pc' = [pc EXCEPT ![h] = "remove"]
    BY <1>1, <2>1 DEF ListedIsOpen, TypeOK
  <2>2. CASE UncleanCount > 1 /\ pc' = [pc EXCEPT ![h] = "idle"]
    <3>1. UncleanCount > 0
      BY <2>2, Count
    <3>2. PICK g \in Opens : pc[g] \in UncleanLabels
      BY <3>1, Count
    <3>3. g # h /\ pc[g] # "idle"
      BY <1>1, <3>2 DEF UncleanLabels
    <3>4. pc'[g] # "idle"
      BY <2>2, <3>3 DEF TypeOK
    <3> QED BY <3>4 DEF ListedIsOpen
  <2> QED BY <1>2, <2>1, <2>2
<1>6. ASSUME NoGap' PROVE TextIsHidden'
  <2>1. TextIsHidden
    BY <1>1, <1>6 DEF NoGap
  <2>2. NoSecretCached => NoSecretCached'
    BY <1>2, BlockFacts DEF NoSecretCached, DataKept, Clear, NoPage
  <2>3. \A g \in Opens : pc'[g] = "open" <=> pc[g] = "open"
    BY <1>1, <1>2 DEF TypeOK
  <2>4. \A g \in Opens : pc'[g] = "remove" /\ (\A f \in Opens : pc'[f] # "open") => NoSecretCached'
    BY <1>1, <1>2, <2>1, <2>2, <2>3 DEF TextIsHidden, TypeOK
  <2>5. \A s \in Secure : pc'[s] = "open" /\ ret'[s] # "PASS" => inList'
    BY <1>1, <2>1, <2>3 DEF TextIsHidden, Opens
  <2> QED BY <1>1, <1>2, <2>1, <2>2, <2>4, <2>5 DEF TextIsHidden, DataKept
<1> QED BY <1>3, <1>4, <1>5, <1>6

\* ... and takes the file off the list when nobody can read it.
LEMMA RemoveStep ==
    ASSUME IInv, NEW h \in Opens, Remove(h)
    PROVE  IInv'
<1> USE DEF IInv, listVars
<1>1. /\ pc[h] = "remove" /\ pc' = [pc EXCEPT ![h] = "idle"]
      /\ inList' = (inList /\ UncleanCount > 0 /\ ~deleting)
      /\ mishaps' = IF inList /\ deleting /\ UncleanCount > 0
                      THEN mishaps \cup {"deleted"} ELSE mishaps
      /\ UNCHANGED <<lockLost, deleting, ret>>
  BY DEF Remove, Goto
<1>2. DataKept /\ (NoSecretCached => NoSecretCached') /\ (SecretIsCiphered => SecretIsCiphered')
  BY SameData DEF Remove
<1>3. inList' \in BOOLEAN /\ (inList' => inList /\ UncleanCount > 0)
  BY <1>1
<1>4. TypeOK' /\ DirtyIsClear'
  BY <1>1, <1>2, <1>3 DEF TypeOK, DataKept
<1>5. Exclusive'
  BY <1>1, <1>3 DEF Exclusive, Opens, TypeOK
<1>6. ListedIsOpen'
  <2> SUFFICES ASSUME inList' PROVE \E g \in Opens : pc'[g] # "idle"
    BY DEF ListedIsOpen
  <2>1. PICK g \in Opens : pc[g] \in UncleanLabels
    BY <1>3, Count
  <2>2. g # h /\ pc[g] # "idle"
    BY <1>1, <2>1 DEF UncleanLabels
  <2> QED BY <1>1, <2>2 DEF TypeOK
<1>7. ASSUME NoGap' PROVE TextIsHidden'
  <2>1. mishaps' = mishaps /\ TextIsHidden
    BY <1>1, <1>7 DEF NoGap
  <2>2. inList /\ ~inList' => UncleanCount = 0
    <3>1. inList /\ deleting /\ UncleanCount > 0 => "deleted" \in mishaps'
      BY <1>1
    <3>2. "deleted" \notin mishaps'
      BY <1>7 DEF NoGap
    <3> DEFINE inUse == UncleanCount > 0
    <3>3. inList /\ ~inList' => ~inUse
      <4> HIDE DEF inUse
      <4>1. inList' = (inList /\ inUse /\ ~deleting) /\ (inList /\ deleting /\ inUse => "deleted" \in mishaps')
        BY <1>1, <3>1 DEF inUse
      <4> QED BY <4>1, <3>2, Zenon
    <3> QED BY <3>3, Count
  <2>3. inList /\ ~inList' => \A g \in Opens : pc[g] # "open"
    BY <2>2, Count DEF UncleanLabels
  <2>4. ~inList' => NoSecretCached'
    BY <1>1, <1>2, <2>1, <2>3 DEF TextIsHidden
  <2>5. \A s \in Secure : pc'[s] = "open" /\ ret'[s] # "PASS" => inList'
    BY <1>1, <2>1, <2>3 DEF TextIsHidden, TypeOK, Opens
  <2>6. \A g \in Opens : pc'[g] = "remove" /\ (\A f \in Opens : pc'[f] # "open") => NoSecretCached'
    BY <1>1, <1>2, <2>1 DEF TextIsHidden, TypeOK
  <2> QED BY <1>1, <1>2, <2>1, <2>4, <2>5, <2>6 DEF TextIsHidden
<1> QED BY <1>4, <1>5, <1>6, <1>7

-----------------------------------------------------------------------------
(* The theorems.                                                            *)

\* Every step keeps the invariant.
LEMMA NextStep == IInv /\ [Next]_vars => IInv'
<1> SUFFICES ASSUME IInv, [Next]_vars PROVE IInv'
  OBVIOUS
<1>1. CASE Create
  BY <1>1, CreatePreStep, LookStep, CreateRefusedStep, AppendStep, AnswerStep DEF Create
<1>2. CASE \E h \in Opens : Use(h) \/ Cleanup(h) \/ Close(h) \/ CleanupComplete(h) \/ Remove(h)
  BY <1>2, UseStep, CleanupStep, CloseStep, CleanupCompleteStep, RemoveStep
<1>3. CASE (\E k \in Blocks : LazyWrite(k)) \/ FileIsGone
  BY <1>3, UseStep
<1>4. CASE UNCHANGED vars
  BY <1>4, Stutters, DataStep DEF vars, IInv, TypeOK
<1> QED BY <1>1, <1>2, <1>3, <1>4 DEF Next

\* The invariant holds in every state of every behaviour of crypt_file.
LEMMA InvariantHolds == Spec => []IInv
BY InitCorrect, NextStep, PTL DEF Spec

\* The variables have their types, whatever the opens and their order.
THEOREM TypeCorrect == Spec => []TypeOK
<1>1. IInv => TypeOK
  BY DEF IInv
<1> QED BY <1>1, InvariantHolds, PTL

\* No other process has the file open while it is in the list, however many
\* open it at once: OnSfilterIrpPost checks after the file system has opened it.
THEOREM OthersAreKeptOut == Spec => []Exclusive
<1>1. IInv => Exclusive
  BY DEF IInv
<1> QED BY <1>1, InvariantHolds, PTL

\* A file in the list has an open that will take it off, unless the file
\* system refused an open that cfIrpCreatePre had let through.
THEOREM ListIsCleaned == Spec => []ListedIsOpen
<1>1. IInv => ListedIsOpen
  BY DEF IInv
<1> QED BY <1>1, InvariantHolds, PTL

\* Notepad's text is never in the clear on the disk, or before another process,
\* in a run that goes through none of the gaps between the filter's checks.
THEOREM SecretIsKept == Spec => []SecretStaysSecret
<1>1. IInv => SecretStaysSecret
  <2> SUFFICES ASSUME IInv, mishaps \subseteq {"refused"} PROVE SecretIsCiphered /\ SecretIsHidden
    BY DEF SecretStaysSecret
  <2>1. TextIsHidden /\ Exclusive
    BY DEF IInv, NoGap
  <2>2. SecretIsHidden
    BY <2>1 DEF TextIsHidden, Exclusive, SecretIsHidden, NoSecretCached
  <2> QED BY <2>1, <2>2 DEF TextIsHidden
<1> QED BY <1>1, InvariantHolds, PTL

=============================================================================
