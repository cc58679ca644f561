---------------------------- MODULE VfsAuthorize ---------------------------
(***************************************************************************)
(* The Top-Level Gate of the vnode authorizer, bsd/vfs/vfs_subr.c:         *)
(* vnode_attr_authorize_init, the attribute fetch by the caller,          *)
(* vnode_attr_authorize and vnode_attr_authorize_internal, one action     *)
(* per block between two early exits ("goto out"), in the code's order.   *)
(* pc names the next block to run.  The call's snapshot is fixed for the  *)
(* whole call; rights is the local the code narrows as it goes.           *)
(***************************************************************************)
EXTENDS VfsRights

CONSTANTS
  Calls,      \* requests: [action, vap, dvap, mp, cred]; dvap may be NONE
  Droppable,  \* attributes a filesystem may fail to return from getattr
  NONE

VARIABLES
  pc,           \* next block of the call; "done" once it has returned
  call,         \* the request and its attribute snapshots
  vwant,        \* VATTR_WANTED on vap / dvap (vnode_attr_authorize_init)
  dwant,
  vsup,         \* VATTR_IS_SUPPORTED on vap / dvap after the getattr
  dsup,
  rights,       \* the local rights of vnode_attr_authorize(_internal)
  noimmutable,
  is_suser,
  found_deny,   \* out-parameter of vnode_attr_authorize_internal
  result

vars == <<pc, call, vwant, dwant, vsup, dsup, rights, noimmutable,
          is_suser, found_deny, result>>

Pcs == {"init", "getattr", "rofs", "noexec", "suser", "immutable",
        "parent", "strip", "delete", "simple", "rootexec", "convert",
        "done", "panic"}

Vap == View(call.vap, vsup)
Dvap == View(call.dvap, dsup)

TypeOK ==
  /\ pc \in Pcs
  /\ call \in Calls
  /\ vwant \subseteq AttrNames /\ dwant \subseteq AttrNames
  /\ vsup \subseteq AttrNames /\ dsup \subseteq AttrNames
  /\ rights \subseteq Rights
  /\ noimmutable \in BOOLEAN /\ is_suser \in BOOLEAN
  /\ found_deny \in BOOLEAN
  /\ result \in {0, EPERM, EACCES, EINVAL, EROFS}

---------------------------------------------------------------------------
\* One behaviour is one call: the evaluator keeps no state across calls.
Init ==
  /\ pc = "init"
  /\ call \in Calls
  /\ vwant = {} /\ dwant = {} /\ vsup = {} /\ dsup = {}
  /\ rights = {} /\ noimmutable = FALSE /\ is_suser = FALSE
  /\ found_deny = FALSE
  /\ result = 0

\* vnode_attr_authorize_init: which attributes the caller must fetch; a
\* delete without a parent snapshot is EINVAL.
vnode_attr_authorize_init ==
  LET del     == "DELETE" \in call.action
      suser   == call.cred.suser
      hasDvap == call.dvap # NONE
  IN
  /\ pc = "init"
  /\ vwant' = {"va_type", "va_mode", "va_flags"}
              \cup (IF suser THEN {} ELSE {"va_uid", "va_gid", "va_acl"})
  /\ dwant' = IF hasDvap /\ del
              THEN {"va_type", "va_mode", "va_flags"}
                   \cup (IF suser THEN {} ELSE {"va_uid", "va_gid", "va_acl"})
              ELSE {}
  /\ IF ~hasDvap /\ del
     THEN pc' = "done" /\ result' = EINVAL
     ELSE pc' = "getattr" /\ result' = 0
  /\ UNCHANGED <<call, vsup, dsup, rights, noimmutable, is_suser, found_deny>>

\* The caller's VNOP_GETATTR: the filesystem returns what was wanted,
\* except possibly one attribute of Droppable it does not support.
Getattr ==
  /\ pc = "getattr"
  /\ \E drop \in {{}} \cup {{a} : a \in Droppable \cap vwant} :
        vsup' = vwant \ drop
  /\ dsup' = dwant
  /\ pc' = "rofs"
  /\ UNCHANGED <<call, vwant, dwant, rights, noimmutable, is_suser,
                 found_deny, result>>

\* Variant of CheckReadOnly that keeps the modifier bits in rights.
CheckReadOnlyModifiersKept ==
  /\ pc = "rofs"
  /\ noimmutable' = ("NOIMMUTABLE" \in call.action)
  /\ rights' = call.action
  /\ is_suser' = FALSE
  /\ found_deny' \in BOOLEAN
  /\ pc' = "noexec" /\ UNCHANGED result
  /\ UNCHANGED <<call, vwant, dwant, vsup, dsup>>

\* vnode_attr_authorize entry and the read-only filesystem check.  The
\* local found_deny is uninitialized: any value.
CheckReadOnly ==
  LET r == call.action \ Modifiers
  IN
  /\ pc = "rofs"
  /\ noimmutable' = ("NOIMMUTABLE" \in call.action)
  /\ rights' = r
  /\ is_suser' = FALSE
  /\ found_deny' \in BOOLEAN
  /\ IF /\ r \cap WRITE_RIGHTS # {}
        /\ call.mp.rdonly
        /\ \/ call.vap.type \in {"VREG", "VDIR", "VLNK"}
           \/ "DELETE" \in r \/ "DELETE_CHILD" \in r
     THEN pc' = "done" /\ result' = EROFS
     ELSE pc' = "noexec" /\ result' = 0
  /\ UNCHANGED <<call, vwant, dwant, vsup, dsup>>

CheckNoExec ==
  /\ pc = "noexec"
  /\ IF "EXECUTE" \in rights /\ call.vap.type = "VREG" /\ call.mp.noexec
     THEN pc' = "done" /\ result' = EACCES
     ELSE pc' = "suser" /\ UNCHANGED result
  /\ UNCHANGED <<call, vwant, dwant, vsup, dsup, rights, noimmutable,
                 is_suser, found_deny>>

\* Superuser short-cut for requests with no execute or write right; a
\* non-superuser snapshot without uid, gid (or ACL under extended
\* security) is a kernel panic.
CheckSuser ==
  /\ pc = "suser"
  /\ CASE call.cred.suser /\ rights \cap (WRITE_RIGHTS \cup {"EXECUTE"}) = {} ->
            pc' = "done" /\ UNCHANGED is_suser
       [] call.cred.suser ->
            pc' = "immutable" /\ is_suser' = TRUE
       [] \/ "va_uid" \notin vsup \/ "va_gid" \notin vsup
          \/ call.mp.extsec /\ "va_acl" \notin vsup ->
            pc' = "panic" /\ UNCHANGED is_suser
       [] OTHER ->
            pc' = "immutable" /\ UNCHANGED is_suser
  /\ UNCHANGED <<call, vwant, dwant, vsup, dsup, rights, noimmutable,
                 found_deny, result>>

---------------------------------------------------------------------------
(* vnode_attr_authorize_internal                                           *)
CheckImmutable ==
  LET err == vnode_authorize_checkimmutable(Vap, rights, noimmutable)
  IN
  /\ pc = "immutable"
  /\ result' = err
  /\ pc' = IF err # 0 THEN "convert" ELSE "parent"
  /\ UNCHANGED <<call, vwant, dwant, vsup, dsup, rights, noimmutable,
                 is_suser, found_deny>>

\* Variant of CheckParentImmutable that never consults the parent.
CheckParentImmutableSkipped ==
  /\ pc = "parent"
  /\ pc' = "strip"
  /\ UNCHANGED <<call, vwant, dwant, vsup, dsup, rights, noimmutable,
                 is_suser, found_deny, result>>

\* Parent immutability vetoes a delete (parent_authorized_for_delete_child
\* is FALSE when called from vnode_attr_authorize).
CheckParentImmutable ==
  LET err == IF "DELETE" \in rights
             THEN vnode_authorize_checkimmutable(Dvap, {"DELETE_CHILD"}, FALSE)
             ELSE 0
  IN
  /\ pc = "parent"
  /\ result' = err
  /\ pc' = IF err # 0 THEN "convert" ELSE "strip"
  /\ UNCHANGED <<call, vwant, dwant, vsup, dsup, rights, noimmutable,
                 is_suser, found_deny>>

\* Rights authorized by reaching this point are cleared; nothing left is
\* success.
StripRights ==
  LET left == rights \ {"LINKTARGET", "CHECKIMMUTABLE"}
  IN
  /\ pc = "strip"
  /\ rights' = left
  /\ pc' = CASE left = {}           -> "convert"
             [] is_suser            -> "rootexec"
             [] "DELETE" \in left   -> "delete"
             [] OTHER               -> "simple"
  /\ UNCHANGED <<call, vwant, dwant, vsup, dsup, noimmutable, is_suser,
                 found_deny, result>>

AuthorizeDelete ==
  LET err == vnode_authorize_delete(Vap, Dvap, call.cred, FALSE)
  IN
  /\ pc = "delete"
  /\ result' = err
  /\ pc' = IF err = 0 /\ rights \ {"DELETE"} # {} THEN "simple" ELSE "convert"
  /\ UNCHANGED <<call, vwant, dwant, vsup, dsup, rights, noimmutable,
                 is_suser, found_deny>>

AuthorizeSimple ==
  LET pre == rights \cap {"DELETE"}
  IN
  /\ pc = "simple"
  /\ result' = vnode_authorize_simple(Vap, call.cred, rights, pre)
  /\ found_deny' = SimpleFoundDeny(Vap, call.cred, rights, pre)
  /\ pc' = "convert"
  /\ UNCHANGED <<call, vwant, dwant, vsup, dsup, rights, noimmutable,
                 is_suser>>

\* Variant of RootExecute that demands an x bit for any object type.
RootExecuteAnyType ==
  /\ pc = "rootexec"
  /\ IF /\ "EXECUTE" \in rights
        /\ "va_mode" \in vsup /\ (call.vap.mode & S_IXALL) = 0
     THEN result' = EPERM /\ UNCHANGED found_deny
     ELSE found_deny' = TRUE /\ UNCHANGED result
  /\ pc' = "convert"
  /\ UNCHANGED <<call, vwant, dwant, vsup, dsup, rights, noimmutable,
                 is_suser>>

\* Root may execute a regular file only if some x bit is set (when the
\* filesystem reports a mode); otherwise root is allowed and found_deny is
\* forced TRUE so no search-by-anyone right is cached.
RootExecute ==
  /\ pc = "rootexec"
  /\ IF /\ "EXECUTE" \in rights /\ call.vap.type = "VREG"
        /\ "va_mode" \in vsup /\ (call.vap.mode & S_IXALL) = 0
     THEN result' = EPERM /\ UNCHANGED found_deny
     ELSE found_deny' = TRUE /\ UNCHANGED result
  /\ pc' = "convert"
  /\ UNCHANGED <<call, vwant, dwant, vsup, dsup, rights, noimmutable,
                 is_suser>>

\* Back in vnode_attr_authorize: EPERM is reported as EACCES.
Convert ==
  /\ pc = "convert"
  /\ result' = IF result = EPERM THEN EACCES ELSE result
  /\ pc' = "done"
  /\ UNCHANGED <<call, vwant, dwant, vsup, dsup, rights, noimmutable,
                 is_suser, found_deny>>

Next ==
  \/ vnode_attr_authorize_init \/ Getattr
  \/ CheckReadOnly \/ CheckNoExec \/ CheckSuser
  \/ CheckImmutable \/ CheckParentImmutable \/ StripRights
  \/ AuthorizeDelete \/ AuthorizeSimple \/ RootExecute \/ Convert

Spec == Init /\ [][Next]_vars

---------------------------------------------------------------------------
(* Properties                                                              *)

\* Immutability cannot be defeated by privilege, ACL or mode: whenever a
\* call returns 0, the object was not immutable for the requested rights
\* (unless NOIMMUTABLE was passed) and, for a delete, the parent was not
\* immutable for DELETE_CHILD -- even for the superuser (the checks in
\* vnode_attr_authorize_internal run before the superuser branch).
ImmutabilityVeto ==
  pc = "done" /\ result = 0 =>
    LET r == call.action \ Modifiers
    IN  /\ vnode_authorize_checkimmutable(call.vap, r,
               "NOIMMUTABLE" \in call.action) = 0
        /\ "DELETE" \in r =>
             vnode_authorize_checkimmutable(call.dvap, {"DELETE_CHILD"}, FALSE) = 0

\* The step-by-step code returns, for every call, the decision the
\* Top-Level Gate of spec.md 4.6 promises (read-only volume, no-exec
\* volume, superuser metadata short-cut, immutability, root execute
\* x-bit, discretionary check, in that order).
DEC == INSTANCE VfsDecision WITH
         phase    <- IF pc = "done" THEN "done" ELSE "busy",
         decision <- IF pc = "done" THEN result ELSE NONE

RefinesDecision == DEC!Spec

\* Every call the caller starts is answered (spec.md 5: the gate returns a
\* decision, or Deny(Invalid) for an incomplete snapshot, synchronously).
EveryCallAnswered == (pc = "init") ~> (pc = "done")

\* Once called, the authorizer runs to completion on the calling thread.
CodeStep ==
  \/ vnode_attr_authorize_init \/ Getattr
  \/ CheckReadOnly \/ CheckNoExec \/ CheckSuser
  \/ CheckImmutable \/ CheckParentImmutable \/ StripRights
  \/ AuthorizeDelete \/ AuthorizeSimple \/ RootExecute \/ Convert

FairSpec == Spec /\ WF_vars(CodeStep)
=============================================================================
