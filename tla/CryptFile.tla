----------------------------- MODULE CryptFile -----------------------------
(***************************************************************************)
(* The transparent encryption of crypt_file for one file: the list of the   *)
(* files under encryption (cf_list.c), IRP_MJ_CREATE of notepad.exe, whose  *)
(* files are encrypted, and of the other processes (cf_create.c,            *)
(* cf_sfilter.c), the close that takes the file off the list, and the shift *)
(* and the cipher of its paging requests (cf_modify_irp.c).                 *)
(*                                                                          *)
(* An encrypted file begins with a header block, which the filter hides     *)
(* from the requests for a file in the list.  The file system and the cache *)
(* manager are external: they do what FASTFAT's do, which is all that the   *)
(* filter supports.  The length is set, and dirty pages are written, by     *)
(* anyone at any time.                                                      *)
(*                                                                          *)
(* Agents.  pc[h] is the thread that opens, uses and closes file object h.  *)
(* A step is a critical section of the list's lock, or a request to the     *)
(* file system.                                                             *)
(***************************************************************************)
EXTENDS Integers, FiniteSets

CONSTANTS
    Secure,         \* file objects that notepad.exe opens
    Plain           \* and those of other processes

ASSUME CryptAssumption == IsFiniteSet(Secure \cup Plain) /\ Secure \cap Plain = {}

VARIABLES
    inList,         \* is the file's FCB in s_cf_list?
    lockLost,       \* s_cf_list_lock was left acquired
    \* the file: its length in blocks, what is on the disk, what is cached,
    \* and FCB_STATE_DELETE_ON_CLOSE
    size, disk, cache, dirty, deleting,
    \* threads, and for notepad what cfIrpCreatePre has decided
    pc, ret,
    \* history: the gaps between the filter's checks and what they are for
    \* that the run has been through
    mishaps

listVars == <<inList, lockLost>>
dataVars == <<size, disk, cache, dirty>>

vars == <<listVars, dataVars, deleting, pc, ret, mishaps>>

Opens == Secure \cup Plain

\* Block 0 of an encrypted file is its header; a page is a block as the cache
\* sees it.  A block is a text, and whether it has been ciphered.
Blocks == 0..1
Block == {"zero", "header", "public", "secret"} \X BOOLEAN
Clear(text) == <<text, FALSE>>
NoPage == <<"none", FALSE>>

Zeros == [b \in Blocks |-> Clear("zero")]
NoCache == [k \in Blocks |-> NoPage]

\* The file is new, or in the clear, or has been encrypted before.
Init ==
    /\ inList = FALSE /\ lockLost = FALSE
    /\ \/ size = 0 /\ disk = Zeros
       \/ size = 2 /\ disk = [b \in Blocks |-> Clear("public")]
       \/ size = 2 /\ disk = [b \in Blocks |-> IF b = 0 THEN Clear("header") ELSE <<"secret", TRUE>>]
    /\ cache = NoCache /\ dirty = {} /\ deleting = FALSE
    /\ pc = [h \in Opens |-> "idle"]
    /\ ret = [s \in Secure |-> "PASS"]
    /\ mishaps = {}

-----------------------------------------------------------------------------
(* The file system, as the filter uses it.                                  *)

Goto(h, label) == pc' = [pc EXCEPT ![h] = label]

\* fcb->UncleanCount: the file objects, the filter's own my_file among them,
\* that have been opened and have had no cleanup.
UncleanLabels ==
    {"look", "inspect", "setSize", "writeHeader", "readHeader", "closeMy",
     "clear", "append", "check", "cancel", "open"}
UncleanCount == Cardinality({h \in Opens : pc[h] \in UncleanLabels})

\* How cfIrpReadPre, cfIrpReadPost and cfIrpWritePre change a paging request.
Offset == IF inList THEN 1 ELSE 0
Cipher(block) == IF inList THEN <<block[1], ~block[2]>> ELSE block

\* The disk when the dirty pages in K have been written: what is beyond the
\* end of the file is not.
Written(K) ==
    [b \in Blocks |-> IF b - Offset \in K /\ b < size THEN Cipher(cache[b - Offset]) ELSE disk[b]]

\* Every paging request takes the lock, to look for the file in the list.
MayWrite(K) == K # {} => ~lockLost

\* The end of the file is set, or the file is overwritten.
SetSize(n) ==
    /\ size' = n
    /\ disk' = [b \in Blocks |-> IF b < n THEN disk[b] ELSE Zeros[b]]
    /\ cache' = [k \in Blocks |-> IF k < n THEN cache[k] ELSE NoPage]
    /\ dirty' = {k \in dirty : k < n}

\* (FASTFAT) an open may overwrite the file; there is none while it is being deleted.
LowerOpen == ~deleting /\ (SetSize(0) \/ UNCHANGED dataVars)

\* (FASTFAT) the last cleanup of a file that is being deleted truncates it ...
LowerCleanup ==
    IF deleting /\ UncleanCount = 1 THEN SetSize(0) ELSE UNCHANGED dataVars

\* ... and after the last close there may be a new file of that name.
FileIsGone ==
    /\ deleting /\ deleting' = FALSE
    /\ \A h \in Opens : pc[h] = "idle"
    /\ UNCHANGED <<listVars, dataVars, pc, ret, mishaps>>

LazyWrite(k) ==
    /\ k \in dirty /\ ~lockLost
    /\ disk' = Written({k})
    /\ dirty' = dirty \ {k}
    /\ UNCHANGED <<listVars, size, cache, deleting, pc, ret, mishaps>>

\* cfFileCacheClear: with the FCB held, the pages are written and dropped.
FileCacheClear ==
    /\ MayWrite(dirty)
    /\ disk' = Written(dirty)
    /\ cache' = NoCache /\ dirty' = {}
    /\ UNCHANGED size

-----------------------------------------------------------------------------
(* IRP_MJ_CREATE of notepad.exe: cfIrpCreatePre.                            *)

\* cfCreateFileAccordingIrp opens my_file below the filter, as the IRP asks.
OpenMyFile(s) ==
    /\ pc[s] = "idle"
    /\ LowerOpen
    /\ Goto(s, "look")
    /\ UNCHANGED <<listVars, deleting, ret, mishaps>>

\* A file in the list is passed on: it is encrypted for all who have it open.
LookForMyFile(s) ==
    /\ pc[s] = "look" /\ ~lockLost
    /\ Goto(s, IF inList THEN "closeMy" ELSE "inspect")
    /\ ret' = [ret EXCEPT ![s] = IF inList THEN "CRYPTING" ELSE "PASS"]
    /\ mishaps' = IF inList THEN mishaps \cup {"passed"} ELSE mishaps
    /\ UNCHANGED <<listVars, dataVars, deleting>>

\* A new file gets a header, if it will be written; one that has contents is
\* read, to see whether it has one.
InspectMyFile(s) ==
    /\ pc[s] = "inspect"
    /\ \/ size = 0 /\ Goto(s, "setSize")
       \/ size = 0 /\ Goto(s, "closeMy")
       \/ size > 0 /\ Goto(s, "readHeader")
    /\ UNCHANGED <<listVars, dataVars, deleting, ret, mishaps>>

\* cfWriteAHeader: two requests.  One that goes past the cache has it written
\* and dropped first.
SetHeaderSize(s) ==
    /\ pc[s] = "setSize"
    /\ SetSize(1)
    /\ Goto(s, "writeHeader")
    /\ UNCHANGED <<listVars, deleting, ret, mishaps>>

WriteHeader(s) ==
    /\ pc[s] = "writeHeader" /\ MayWrite(dirty)
    /\ disk' = [Written(dirty) EXCEPT ![0] = Clear("header")]
    /\ size' = IF size = 0 THEN 1 ELSE size
    /\ cache' = NoCache /\ dirty' = {}
    /\ ret' = [ret EXCEPT ![s] = "GO_ON"]
    /\ Goto(s, "closeMy")
    /\ UNCHANGED <<listVars, deleting, mishaps>>

\* The outcome of neither is looked at.
WriteHeaderFails(s) ==
    /\ pc[s] \in {"setSize", "writeHeader"}
    /\ ret' = [ret EXCEPT ![s] = "GO_ON"]
    /\ Goto(s, "closeMy")
    /\ UNCHANGED <<listVars, dataVars, deleting, mishaps>>

ReadHeader(s) ==
    /\ pc[s] = "readHeader" /\ MayWrite(dirty)
    /\ disk' = Written(dirty) /\ dirty' = {}
    /\ ret' = [ret EXCEPT ![s] = IF disk'[0] = Clear("header") THEN "GO_ON" ELSE "PASS"]
    /\ Goto(s, "closeMy")
    /\ UNCHANGED <<listVars, size, cache, deleting, mishaps>>

CloseMyFile(s) ==
    /\ pc[s] = "closeMy"
    /\ LowerCleanup
    /\ Goto(s, IF ret[s] = "GO_ON" THEN "clearMy" ELSE "lower")
    /\ UNCHANGED <<listVars, deleting, ret, mishaps>>

ClearMyFile(s) ==
    /\ pc[s] = "clearMy"
    /\ FileCacheClear
    /\ Goto(s, "lower")
    /\ UNCHANGED <<listVars, deleting, ret, mishaps>>

\* The file system gets the IRP, as a FILE_OPEN.  Only a file that must be
\* encrypted comes back to OnSfilterIrpPost.
CreateSecure(s) ==
    /\ pc[s] = "lower" /\ ~deleting
    /\ Goto(s, IF ret[s] = "GO_ON" THEN "clear" ELSE "open")
    /\ UNCHANGED <<listVars, dataVars, deleting, ret, mishaps>>

\* It may refuse now what my_file was allowed, or the query of my_file's
\* length has failed.
CreateRefused(s) ==
    /\ pc[s] = "lower"
    /\ Goto(s, "idle")
    /\ ret' = [ret EXCEPT ![s] = "PASS"]
    /\ mishaps' = mishaps \cup {"refused"}
    /\ UNCHANGED <<listVars, dataVars, deleting>>

-----------------------------------------------------------------------------
(* OnSfilterIrpPost for IRP_MJ_CREATE.                                      *)

\* cfFileCryptAppendLk: the cache is cleared before the lock is taken.
AppendClear(s) ==
    /\ pc[s] = "clear" /\ ~lockLost
    /\ FileCacheClear
    /\ Goto(s, "append")
    /\ UNCHANGED <<listVars, deleting, ret, mishaps>>

\* A file that is in the list by now is left with the lock held.
AppendListed(s) == inList /\ lockLost' = TRUE /\ UNCHANGED inList /\ Goto(s, "open")
AppendNode(s) == ~inList /\ inList' = TRUE /\ UNCHANGED lockLost /\ Goto(s, "open")

\* (A mutant) the file objects of others are not counted.
AppendUncounted(s) ==
    /\ pc[s] = "append" /\ ~lockLost
    /\ AppendListed(s) \/ AppendNode(s)
    /\ UNCHANGED <<dataVars, deleting, ret, mishaps>>

Append(s) ==
    /\ pc[s] = "append" /\ ~lockLost
    /\ \/ AppendListed(s)
       \/ UncleanCount <= 1 /\ AppendNode(s)
       \/ UncleanCount > 1 /\ ~inList /\ Goto(s, "cancel") /\ UNCHANGED listVars
    /\ UNCHANGED <<dataVars, deleting, ret, mishaps>>

\* The others open the file first ...
CreatePlain(p) ==
    /\ pc[p] = "idle" /\ ~lockLost
    /\ LowerOpen
    /\ Goto(p, "check")
    /\ UNCHANGED <<listVars, deleting, ret, mishaps>>

\* ... and are refused, if it is in the list.
CheckPlain(p) ==
    /\ pc[p] = "check" /\ ~lockLost
    /\ Goto(p, IF inList THEN "cancel" ELSE "open")
    /\ UNCHANGED <<listVars, dataVars, deleting, ret, mishaps>>

\* IoCancelFileOpen: a cleanup below the filter, and a close to come.
CancelFileOpen(h) ==
    /\ pc[h] = "cancel"
    /\ LowerCleanup
    /\ Goto(h, "cleaned")
    /\ UNCHANGED <<listVars, deleting, ret, mishaps>>

Create ==
    \/ \E s \in Secure :
          \/ OpenMyFile(s) \/ LookForMyFile(s) \/ InspectMyFile(s) \/ SetHeaderSize(s)
          \/ WriteHeader(s) \/ WriteHeaderFails(s) \/ ReadHeader(s) \/ CloseMyFile(s)
          \/ ClearMyFile(s) \/ CreateSecure(s) \/ CreateRefused(s) \/ AppendClear(s) \/ Append(s)
    \/ \E p \in Plain : CreatePlain(p) \/ CheckPlain(p)
    \/ \E h \in Opens : CancelFileOpen(h)

-----------------------------------------------------------------------------
(* Reading and writing, through the cache.                                  *)

\* What a process writes: notepad's text, where it is to be encrypted.
Text(h) == IF h \in Secure /\ ret[h] # "PASS" THEN "secret" ELSE "public"

\* The file system, which does not know of the shift, allows what is within
\* the length; a paging read beyond the end fills the page with zeros.
ReadPage(h, k) ==
    /\ pc[h] = "open" /\ ~lockLost
    /\ k < size /\ cache[k] = NoPage
    /\ cache' = [cache EXCEPT ![k] =
                    IF k + Offset < size THEN Cipher(disk[k + Offset]) ELSE Clear("zero")]
    /\ UNCHANGED <<listVars, size, disk, dirty, deleting, pc, ret, mishaps>>

\* A cached write is not shifted, and makes the file longer if it must.
WritePage(h, k) ==
    /\ pc[h] = "open" /\ ~lockLost
    /\ cache' = [cache EXCEPT ![k] = Clear(Text(h))]
    /\ dirty' = dirty \cup {k}
    /\ size' = IF k < size THEN size ELSE k + 1
    /\ UNCHANGED <<listVars, disk, deleting, pc, ret, mishaps>>

\* cfIrpSetInforPre adds the header to the length.
SetEndOfFile(h, n) ==
    /\ pc[h] = "open" /\ ~lockLost
    /\ n + Offset \in 0..Cardinality(Blocks)
    /\ SetSize(n + Offset)
    /\ UNCHANGED <<listVars, deleting, pc, ret, mishaps>>

SetDisposition(h) ==
    /\ pc[h] = "open" /\ ~lockLost
    /\ deleting' = ~deleting
    /\ UNCHANGED <<listVars, dataVars, pc, ret, mishaps>>

Use(h) ==
    \/ \E k \in Blocks : ReadPage(h, k) \/ WritePage(h, k)
    \/ \E n \in 0..Cardinality(Blocks) : SetEndOfFile(h, n)
    \/ SetDisposition(h)

-----------------------------------------------------------------------------
(* IRP_MJ_CLEANUP and IRP_MJ_CLOSE.                                         *)

\* A cleanup can come between the two halves of another file object's close.
Cleanup(h) ==
    /\ pc[h] = "open" /\ ~lockLost
    /\ LowerCleanup
    /\ Goto(h, "cleaned")
    /\ mishaps' = IF \E g \in Opens : pc[g] = "remove" THEN mishaps \cup {"overtaken"} ELSE mishaps
    /\ UNCHANGED <<listVars, deleting, ret>>

\* The close of a file in the list comes back to OnSfilterIrpPost.
Close(h) ==
    /\ pc[h] = "cleaned" /\ ~lockLost
    /\ Goto(h, IF inList THEN "closed" ELSE "idle")
    /\ ret' = [s \in Secure |-> IF s = h THEN "PASS" ELSE ret[s]]
    /\ UNCHANGED <<listVars, dataVars, deleting, mishaps>>

\* (A mutant) the cache is not cleared before the file leaves the list.
CleanupCompleteUncleared(h) ==
    /\ pc[h] = "closed" /\ ~lockLost
    /\ Goto(h, IF UncleanCount <= 1 THEN "remove" ELSE "idle")
    /\ UNCHANGED <<listVars, dataVars, deleting, ret, mishaps>>

\* cfCryptFileCleanupComplete first clears the cache, unless two or more file
\* objects are in use and the file stays ...
CleanupComplete(h) ==
    /\ pc[h] = "closed" /\ ~lockLost
    /\ \/ (UncleanCount <= 1 \/ deleting) /\ FileCacheClear /\ Goto(h, "remove")
       \/ UncleanCount > 1 /\ ~deleting /\ UNCHANGED dataVars /\ Goto(h, "idle")
    /\ UNCHANGED <<listVars, deleting, ret, mishaps>>

\* (A mutant) the file leaves the list if one file object is in use.
RemoveIfOne(h) ==
    /\ pc[h] = "remove" /\ ~lockLost
    /\ Goto(h, "idle")
    /\ inList' = (inList /\ UncleanCount # 1 /\ ~deleting)
    /\ UNCHANGED <<lockLost, dataVars, deleting, ret, mishaps>>

\* ... and then removes the node, if none is, or the file is being deleted.
Remove(h) ==
    /\ pc[h] = "remove" /\ ~lockLost
    /\ Goto(h, "idle")
    /\ inList' = (inList /\ UncleanCount > 0 /\ ~deleting)
    /\ mishaps' = IF inList /\ deleting /\ UncleanCount > 0
                    THEN mishaps \cup {"deleted"} ELSE mishaps
    /\ UNCHANGED <<lockLost, dataVars, deleting, ret>>

Next ==
    \/ Create
    \/ \E h \in Opens : Use(h) \/ Cleanup(h) \/ Close(h) \/ CleanupComplete(h) \/ Remove(h)
    \/ \E k \in Blocks : LazyWrite(k)
    \/ FileIsGone

Spec == Init /\ [][Next]_vars

-----------------------------------------------------------------------------
TypeOK ==
    /\ inList \in BOOLEAN /\ lockLost \in BOOLEAN /\ deleting \in BOOLEAN
    /\ size \in 0..Cardinality(Blocks) /\ disk \in [Blocks -> Block]
    /\ cache \in [Blocks -> Block \cup {NoPage}]
    /\ dirty \subseteq {k \in Blocks : cache[k] # NoPage}
    /\ pc \in [Opens -> UncleanLabels \cup {"idle", "clearMy", "lower", "cleaned", "closed", "remove"}]
    /\ ret \in [Secure -> {"PASS", "CRYPTING", "GO_ON"}]
    /\ mishaps \subseteq {"passed", "refused", "overtaken", "deleted"}

\* No other process has a file open while it is being encrypted, although it
\* is opened first and checked afterwards, and the list is checked first and
\* extended afterwards.
Exclusive == inList => \A p \in Plain : pc[p] # "open"

\* A file that stays in the list has somebody who will close it: whichever
\* close sees no file object in use takes it off.
ListedIsOpen ==
    inList => "refused" \in mishaps \/ \E h \in Opens : pc[h] # "idle"

SecretIsCiphered == \A b \in Blocks : disk[b] # Clear("secret")
SecretIsHidden ==
    \A p \in Plain : pc[p] = "open" => \A k \in Blocks : cache[k] # Clear("secret")

\* What notepad writes in an encrypted file reaches the disk ciphered, whoever
\* writes the page and when, and no other process sees it in the cache: unless
\* an open was passed for the list's sake, a cleanup overtook the close that
\* was clearing the cache, or the file was taken off the list while in use.
SecretStaysSecret ==
    mishaps \subseteq {"refused"} => SecretIsCiphered /\ SecretIsHidden

-----------------------------------------------------------------------------
(* What the comments and assertions say and the code does not do.           *)

\* cf_list.c:84-85: the function has a lock, to insert the file only once.
\* It returns with the lock held if the file has been inserted (97-100).
LockIsReleased == ~lockLost

\* cf_create.c:372-375: the overwrite is taken off the IRP, since it would
\* take the header away.  my_file, and every other process, has done it.
HeaderStays == inList => size > 0 /\ disk[0] = Clear("header")

\* cf_create.c:355: the cache is cleared, so that the header does not appear
\* in it.  It can be read again before the file is in the list.
SecureReadsClear ==
    \A s \in Secure : pc[s] = "open" /\ inList =>
      \A k \in Blocks : cache[k] \notin {Clear("header"), <<"secret", TRUE>>}

\* cf_create.c:269-270: a file that is in the list is passed on.  It may have
\* left the list when the file system opens it.
PassedIsListed == \A s \in Secure : pc[s] = "open" /\ ret[s] = "CRYPTING" => inList

\* cf_sfilter.c:226, ASSERT(crypting == FALSE).
CreateFindsNoNode == \A s \in Secure : pc[s] = "clear" => ~inList
=============================================================================
