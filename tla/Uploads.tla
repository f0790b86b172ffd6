------------------------------ MODULE Uploads ------------------------------
(***************************************************************************)
(* The images of one account in the object storage: its profile image,     *)
(* under a key that ends in the format of the image, and its product       *)
(* images, under keys of ever later time.  Storage and database are        *)
(* written by separate steps, the storage may refuse any of them, and the  *)
(* erasure of the account deletes page by page what it finds.              *)
(***************************************************************************)
EXTENDS Integers, FiniteSets, FiniteSetsExt

CONSTANTS
    Request,    \* requests that are under way at once
    Ext,        \* formats that are decoded and stored: jpg, png, webp
    PageSize,   \* objects that one listing returns
    MaxFiles,   \* bound: product images saved
    MaxFaults   \* bound: refusals of the storage and requests that stop half-way

Profile == [kind : {"profile"}, ext : Ext]
ProductKey == [kind : {"product"}, at : 1..MaxFiles]

VARIABLES
    objects,    \* keys in the storage
    avatar,     \* of the account: a key, or what has none
    files,      \* product images made so far
    erased,     \* whether the account is anonymized
    task,       \* what each request is in the middle of
    faults,     \* faults so far
    late,       \* keys saved when an erasure had looked for them already (for the properties)
    unread,     \* profile images that were not the avatar an erasure read (for the properties)
    failed      \* keys whose deletion the storage refused (for the properties)

history == <<late, unread, failed>>
vars == <<objects, avatar, files, erased, task, faults, history>>

\* An account without avatar, or with the one of an OAuth provider, has no object.
None == [kind |-> "none"]
External == [kind |-> "external"]
Idle == [op |-> "none"]

TypeOK ==
    /\ objects \subseteq Profile \cup ProductKey
    /\ avatar \in Profile \cup {None, External}
    /\ files \in 0..MaxFiles /\ erased \in BOOLEAN /\ faults \in 0..MaxFaults
    /\ \A r \in Request : task[r].op \in {"none", "set", "remove", "clear", "erase",
                                          "list", "page", "anonymize"}
    /\ late \cup unread \cup failed \subseteq Profile \cup ProductKey
-----------------------------------------------------------------------------
Does(r, t) == task' = [task EXCEPT ![r] = t]

Fault == faults < MaxFaults /\ faults' = faults + 1

\* An erasure looks for a profile image when it reads the account, and for product
\* images when it lists them for the last time.
LooksNoMore(t, k) ==
    IF k.kind = "profile" THEN t.op \in {"erase", "list", "page", "anonymize"}
    ELSE t.op = "anonymize" \/ (t.op = "page" /\ ~t.more)

Save(k) ==
    /\ objects' = objects \cup {k}
    /\ late' = IF erased \/ \E r \in Request : LooksNoMore(task[r], k)
               THEN late \cup {k} ELSE late \ {k}
    /\ unread' = unread \ {k} /\ failed' = failed \ {k}

\* uploadProfileImage saves the image under a key of the account and the format, ...
UploadAvatar(r, ext) ==
    /\ task[r] = Idle
    /\ LET key == [kind |-> "profile", ext |-> ext]
       IN  Save(key) /\ Does(r, [op |-> "set", key |-> key])
    /\ UNCHANGED <<avatar, files, erased, faults>>

\* ... and the key becomes the avatar, also of an account erased meanwhile.
SetAvatar(r) ==
    /\ task[r].op = "set"
    /\ avatar' = task[r].key
    /\ Does(r, Idle)
    /\ UNCHANGED <<objects, files, erased, faults, history>>

UploadProduct ==
    /\ files < MaxFiles
    /\ files' = files + 1
    /\ Save([kind |-> "product", at |-> files + 1])
    /\ UNCHANGED <<avatar, erased, task, faults>>

\* A deletion in the storage; a refusal is logged and taken for an answer.
Delete(key, ok) ==
    IF ok THEN objects' = objects \ {key} /\ UNCHANGED <<faults, failed>>
    ELSE Fault /\ failed' = failed \cup ({key} \cap objects) /\ UNCHANGED objects

\* DELETE /upload of a file of one's own, the profile image included.
DeleteFile(key, ok) ==
    /\ key \in objects
    /\ Delete(key, ok)
    /\ UNCHANGED <<avatar, files, erased, task, late, unread>>

\* removeProfilePicture reads the account, deletes what it owns ...
BeginRemove(r) ==
    /\ task[r] = Idle
    /\ Does(r, [op |-> "remove", key |-> avatar])
    /\ UNCHANGED <<objects, avatar, files, erased, faults, history>>

RemoveFile(r, ok) ==
    /\ task[r].op = "remove"
    /\ Delete(task[r].key, ok)
    /\ Does(r, [op |-> "clear"])
    /\ UNCHANGED <<avatar, files, erased, late, unread>>

\* ... and clears the avatar.
ClearAvatar(r) ==
    /\ task[r].op = "clear"
    /\ avatar' = None
    /\ Does(r, Idle)
    /\ UNCHANGED <<objects, files, erased, faults, history>>
-----------------------------------------------------------------------------
(* Erasure: anonymizeAccount, which needs the password of the account *)

BeginErasure(r) ==
    /\ task[r] = Idle /\ ~erased
    /\ Does(r, [op |-> "erase", key |-> avatar])
    /\ UNCHANGED <<objects, avatar, files, erased, faults, history>>

EraseAvatar(r, ok) ==
    /\ task[r].op = "erase"
    /\ Delete(task[r].key, ok)
    /\ Does(r, [op |-> "list", key |-> task[r].key, after |-> 0])
    /\ UNCHANGED <<avatar, files, erased, late, unread>>

\* Mutant: only the first page is deleted.
OnePage(found) == FALSE

\* IsTruncated: there is more than fits in a page.
Truncated(found) == Cardinality(found) > PageSize

\* deletePrefix lists a page of the product images, in the order of their keys, ...
ListPage(r) ==
    /\ task[r].op = "list"
    /\ LET found == {k \in objects : k.kind = "product" /\ k.at > task[r].after}
           page == {k \in found : Cardinality({l \in found : l.at < k.at}) < PageSize}
       IN  Does(r, [op |-> "page", key |-> task[r].key, page |-> page,
                    more |-> Truncated(found)])
    /\ UNCHANGED <<objects, avatar, files, erased, faults, history>>

\* ... and deletes it, until a page was the last.
DeletePage(r) ==
    /\ task[r].op = "page"
    /\ objects' = objects \ task[r].page
    /\ Does(r, IF task[r].more
               THEN [op |-> "list", key |-> task[r].key,
                     after |-> Max({k.at : k \in task[r].page})]
               ELSE [op |-> "anonymize", key |-> task[r].key])
    /\ UNCHANGED <<avatar, files, erased, faults, history>>

\* The storage refuses a listing or a deletion: this is logged, and the record is
\* anonymized all the same.
PrefixFails(r) ==
    /\ task[r].op \in {"list", "page"}
    /\ Fault
    /\ failed' = failed \cup {k \in objects : k.kind = "product"}
    /\ Does(r, [op |-> "anonymize", key |-> task[r].key])
    /\ UNCHANGED <<objects, avatar, files, erased, late, unread>>

Anonymize(r) ==
    /\ task[r].op = "anonymize"
    /\ erased' = TRUE
    /\ avatar' = None
    /\ unread' = unread \cup {k \in objects : k.kind = "profile" /\ k # task[r].key}
    /\ Does(r, Idle)
    /\ UNCHANGED <<objects, files, faults, late, failed>>

\* A request stops half-way.
Stops(r) ==
    /\ task[r] # Idle
    /\ Fault
    /\ Does(r, Idle)
    /\ UNCHANGED <<objects, avatar, files, erased, history>>
-----------------------------------------------------------------------------
Init ==
    /\ objects = {}
    /\ avatar \in {None, External}
    /\ files = 0 /\ erased = FALSE /\ faults = 0
    /\ task = [r \in Request |-> Idle]
    /\ late = {} /\ unread = {} /\ failed = {}

Next ==
    \/ \E r \in Request :
          \/ \E ext \in Ext : UploadAvatar(r, ext)
          \/ SetAvatar(r)
          \/ BeginRemove(r) \/ ClearAvatar(r)
          \/ BeginErasure(r) \/ ListPage(r) \/ DeletePage(r) \/ PrefixFails(r) \/ Anonymize(r)
          \/ \E ok \in BOOLEAN : RemoveFile(r, ok) \/ EraseAvatar(r, ok)
          \/ Stops(r)
    \/ UploadProduct
    \/ \E key \in objects, ok \in BOOLEAN : DeleteFile(key, ok)

Spec == Init /\ [][Next]_vars
-----------------------------------------------------------------------------
(* Properties *)

\* An image outlives the erasure of its account only if it was saved when the erasure
\* had already looked for it, if it is a profile image that was not the avatar when
\* the erasure read the account, or if the storage refused to delete it.
OnlyTheseOutlive == erased => objects \subseteq late \cup unread \cup failed
=============================================================================
