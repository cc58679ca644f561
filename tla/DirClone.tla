------------------------------ MODULE DirClone ------------------------------
(***************************************************************************)
(* Directory-Clone Attribute Inheritor: vnode_attr_authorize_dir_clone,   *)
(* bsd/vfs/vfs_subr.c l.128-231.  The filesystem calls it three times     *)
(* per cloned object: OP_VATTR_SETUP (mark the attributes it must fetch   *)
(* for the source vap and the destination directory dvap), then, after   *)
(* fetching them, OP_AUTHORIZE (authorize the action on the source, then  *)
(* rewrite owner, group and flags of vap for the clone), then             *)
(* OP_VATTR_CLEANUP.  The authorization itself is vnode_attr_authorize,   *)
(* used here through the decision it was checked to implement             *)
(* (VfsAuthorize refines VfsDecision).                                    *)
(*                                                                         *)
(* A field the filesystem did not return is uninitialized memory in the  *)
(* caller's struct vnode_attr: reading it yields any value.               *)
(***************************************************************************)
EXTENDS VfsRights

CONSTANTS
  Clones,   \* [action, src, dst, mp, cred, noownercopy, dst_flags_supported]
  NONE,
  KAUTH_UID_NONE,   \* "no override owner / group" of the mount
  KAUTH_GID_NONE

ASSUME KAUTH_UID_NONE \notin Users /\ KAUTH_GID_NONE \notin Groups

\* The clone's authorization never asks for DELETE: vnode_attr_authorize
\* is called with a NULL dvap, which a delete would dereference.
ASSUME \A c \in Clones : "DELETE" \notin c.action

VARIABLES
  phase,    \* "setup", "getattr", "authorize", "cleanup", "done", "crash"
  clone,    \* the request: its inputs
  vact,     \* VATTR_IS_ACTIVE on vap / dvap (wanted by SETUP or VATTR_SET)
  dact,
  dsup,     \* VATTR_IS_SUPPORTED on dvap after the filesystem's getattr
  vap,      \* attribute values of vap: the source's, rewritten for the clone
  dvap,     \* attribute values read from dvap, NONE for a NULL dvap
  result

vars == <<phase, clone, vact, dact, dsup, vap, dvap, result>>

DV_R == {"UF_DATAVAULT", "SF_RESTRICTED"}

VD == INSTANCE VfsDecision WITH
        Calls <- {}, phase <- "busy", call <- NONE, decision <- NONE

TypeOK ==
  /\ phase \in {"setup", "getattr", "authorize", "cleanup", "done", "crash"}
  /\ clone \in Clones
  /\ vact \subseteq AttrNames /\ dact \subseteq AttrNames
  /\ dsup \subseteq AttrNames
  /\ vap.flags \subseteq FlagNames
  /\ vap.uid \in Users
  /\ vap.gid \in Groups
  /\ dvap = NONE \/ dvap.flags \subseteq FlagNames
  /\ result \in {0, EACCES, EROFS, EINVAL}

---------------------------------------------------------------------------
Init ==
  /\ phase = "setup"
  /\ clone \in Clones
  /\ vact = {} /\ dact = {} /\ dsup = {}
  /\ vap = clone.src
  /\ dvap = NONE
  /\ result = 0

\* Variant of Setup without the superuser NOOWNERCOPY branch (l.170-172).
SetupNoOwnerCopyGidDropped ==
  /\ phase = "setup"
  /\ vact' = {"va_type", "va_mode", "va_flags", "va_uid", "va_gid"}
             \cup (IF clone.cred.suser THEN {} ELSE {"va_acl"})
  /\ dact' = IF clone.dst = NONE THEN {}
             ELSE {"va_flags"} \cup (IF ~clone.cred.suser THEN {"va_gid"} ELSE {})
  /\ phase' = "getattr"
  /\ UNCHANGED <<clone, dsup, vap, dvap, result>>

\* OP_VATTR_SETUP (l.144-173).
Setup ==
  LET suser   == clone.cred.suser
      hasDvap == clone.dst # NONE
  IN
  /\ phase = "setup"
  /\ vact' = {"va_type", "va_mode", "va_flags", "va_uid", "va_gid"}
             \cup (IF suser THEN {} ELSE {"va_acl"})
  /\ dact' = IF ~hasDvap THEN {}
             ELSE {"va_flags"}
                  \cup (IF ~suser \/ clone.noownercopy THEN {"va_gid"} ELSE {})
  /\ phase' = "getattr"
  /\ UNCHANGED <<clone, dsup, vap, dvap, result>>

\* The filesystem fills vap (all wanted source attributes) and dvap
\* (va_flags only if it supports flags on the destination); the
\* destination's unsupported flags word is whatever the stack held.
FsGetattr ==
  /\ phase = "getattr"
  /\ dsup' = IF clone.dst_flags_supported THEN dact ELSE dact \ {"va_flags"}
  /\ IF clone.dst = NONE
     THEN dvap' = NONE
     ELSE \E garbage \in SUBSET DV_R :
            dvap' = [clone.dst EXCEPT !.flags =
                       IF "va_flags" \in dsup' THEN @ ELSE garbage]
  /\ phase' = "authorize"
  /\ UNCHANGED <<clone, vact, dact, vap, result>>

\* Variant of CloneUid that takes the override owner without testing that
\* one is set.
CloneUidNoOwnerTest ==
  IF clone.mp.ignore_ownership THEN clone.mp.fsowner ELSE clone.cred.uid

\* Owner and group of the clone (l.188-217): unless a superuser asked to
\* keep the source owner, the volume's override owner/group or the caller
\* owns it, and the group defaults to the destination's.
CloneUid ==
  IF clone.mp.ignore_ownership /\ clone.mp.fsowner # KAUTH_UID_NONE
  THEN clone.mp.fsowner ELSE clone.cred.uid

CloneGid ==
  CASE clone.mp.ignore_ownership /\ clone.mp.fsgroup # KAUTH_GID_NONE
         -> clone.mp.fsgroup
    [] "va_gid" \in dsup -> dvap.gid
    [] OTHER -> clone.cred.gid

\* Variant of CloneFlags that ORs the destination's bits into the
\* source's without first turning the source's off.
CloneFlagsSourceKept ==
  IF "va_flags" \in vact
  THEN vap.flags \cup (IF "va_flags" \in dact THEN dvap.flags \cap DV_R ELSE {})
  ELSE dvap.flags \cap DV_R

\* SF_RESTRICTED / UF_DATAVAULT come from the destination only (l.219-228).
CloneFlags ==
  IF "va_flags" \in vact
  THEN (vap.flags \ DV_R) \cup (IF "va_flags" \in dact THEN dvap.flags \cap DV_R ELSE {})
  ELSE dvap.flags \cap DV_R

\* The steps of OP_AUTHORIZE that dereference dvap when it is NULL.
DerefsNullDvap ==
  /\ dvap = NONE
  /\ \/ /\ ~clone.cred.suser \/ clone.noownercopy
        /\ ~(clone.mp.ignore_ownership /\ clone.mp.fsgroup # KAUTH_GID_NONE)
     \/ "va_flags" \in vact

\* OP_AUTHORIZE (l.178-231): authorize the action on the source, then
\* prepare the clone's attributes.
Authorize ==
  LET err == VD!Decide([action |-> clone.action, vap |-> View(vap, vact),
                        dvap |-> NONE, mp |-> clone.mp, cred |-> clone.cred])
      own == ~clone.cred.suser \/ clone.noownercopy
  IN
  /\ phase = "authorize"
  /\ result' = err
  /\ CASE err # 0 ->
            phase' = "cleanup" /\ UNCHANGED <<vap, vact>>
       [] DerefsNullDvap ->
            phase' = "crash" /\ UNCHANGED <<vap, vact>>
       [] OTHER ->
            /\ phase' = "cleanup"
            /\ vap' = [vap EXCEPT !.uid   = IF own THEN CloneUid ELSE @,
                                  !.gid   = IF own THEN CloneGid ELSE @,
                                  !.flags = CloneFlags]
            /\ vact' = vact \cup {"va_flags"}
                       \cup (IF own THEN {"va_uid", "va_gid"} ELSE {})
  /\ UNCHANGED <<clone, dact, dsup, dvap>>

\* OP_VATTR_CLEANUP: nothing to do.
Cleanup ==
  /\ phase = "cleanup"
  /\ phase' = "done"
  /\ UNCHANGED <<clone, vact, dact, dsup, vap, dvap, result>>

Next == Setup \/ FsGetattr \/ Authorize \/ Cleanup

Spec == Init /\ [][Next]_vars

---------------------------------------------------------------------------
(* Properties                                                              *)

\* spec.md 4.5, the owner and group the clone must get: a superuser who
\* did not pass VNODE_CLONEFILE_NOOWNERCOPY keeps the source's; otherwise
\* the volume's override owner/group (MNT_IGNORE_OWNERSHIP), else the
\* caller's uid and the destination directory's group.
SpecOwner ==
  CASE clone.cred.suser /\ ~clone.noownercopy -> clone.src.uid
    [] clone.mp.ignore_ownership /\ clone.mp.fsowner # KAUTH_UID_NONE -> clone.mp.fsowner
    [] OTHER -> clone.cred.uid

SpecGroup ==
  CASE clone.cred.suser /\ ~clone.noownercopy -> clone.src.gid
    [] clone.mp.ignore_ownership /\ clone.mp.fsgroup # KAUTH_GID_NONE -> clone.mp.fsgroup
    [] clone.dst # NONE -> clone.dst.gid
    [] OTHER -> clone.cred.gid

\* Across the three calls (SETUP decides what the filesystem fetches,
\* AUTHORIZE uses what it fetched) an authorized clone gets exactly the
\* owner and group spec.md 4.5 derives.
CloneOwnership ==
  phase = "done" /\ result = 0 => vap.uid = SpecOwner /\ vap.gid = SpecGroup

\* spec.md 4.5: UF_DATAVAULT and SF_RESTRICTED of the clone are exactly
\* the destination directory's, never the source's; every other flag is
\* the source's.
CloneFlagsFromDestination ==
  phase = "done" /\ result = 0 =>
    /\ vap.flags \cap DV_R = clone.dst.flags \cap DV_R
    /\ vap.flags \ DV_R = clone.src.flags \ DV_R

\* SETUP accepts a NULL dvap (it tests "if (dvap)"), so AUTHORIZE must not
\* dereference it.
NoNullDvapDeref == phase # "crash"
=============================================================================
