----------------------------- MODULE VfsRights -----------------------------
(***************************************************************************)
(* Rights & Flags model of the vnode authorizer (xnu bsd/vfs/vfs_subr.c):  *)
(* the kauth rights, the va_flags bits and the errno values the           *)
(* authorizer returns, plus the three helpers that vnode_attr_authorize_   *)
(* internal calls but whose bodies are not part of this source extract:   *)
(* vnode_authorize_checkimmutable (only its header survives, l.234-236),  *)
(* vnode_authorize_delete and vnode_authorize_simple.  Those three are    *)
(* written from spec.md sections 4.2 - 4.4.                               *)
(*                                                                         *)
(* Attribute snapshots (struct vnode_attr) are records                     *)
(*   [type, mode, uid, gid, flags, acl]                                    *)
(* where mode is the integer st_mode permission bits, flags a set of flag *)
(* names and acl a sequence of entries [kind, who, rights].               *)
(***************************************************************************)
EXTENDS Integers, FiniteSets, Sequences, Bitwise

CONSTANTS
  Users,     \* uids (model values)
  Groups,    \* gids (model values)
  EVERYONE   \* the "everyone" ACL principal

ASSUME Users \cap Groups = {} /\ EVERYONE \notin Users \cup Groups

\* errno values returned by the authorizer (0 is "authorized").
EPERM  == 1
EACCES == 13
EINVAL == 22
EROFS  == 30

\* KAUTH_VNODE_WRITE_RIGHTS: the write-class rights.
WRITE_RIGHTS ==
  {"WRITE_DATA", "APPEND_DATA", "DELETE", "DELETE_CHILD", "WRITE_ATTRIBUTES",
   "WRITE_SECURITY", "TAKE_OWNERSHIP", "LINKTARGET", "CHECKIMMUTABLE"}

\* The metadata- and data-read rights.
READ_RIGHTS == {"READ_DATA", "READ_ATTRIBUTES", "READ_SECURITY"}

Rights == READ_RIGHTS \cup WRITE_RIGHTS \cup {"EXECUTE"}

\* Action modifiers: KAUTH_VNODE_ACCESS and KAUTH_VNODE_NOIMMUTABLE.
Modifiers == {"ACCESS", "NOIMMUTABLE"}

VTypes == {"VREG", "VDIR", "VLNK", "VCHR"}

FlagNames == {"UF_IMMUTABLE", "SF_IMMUTABLE", "APPEND", "SF_RESTRICTED",
              "UF_DATAVAULT"}

\* Attributes a struct vnode_attr can carry (VATTR_WANTED / SUPPORTED).
AttrNames == {"va_type", "va_mode", "va_flags", "va_uid", "va_gid", "va_acl"}

\* S_IXUSR | S_IXGRP | S_IXOTH
S_IXALL == 73

\* The snapshot as the helpers see it: an unsupported ACL is no ACL
\* (VATTR_IS_NOT(vap, va_acl, NULL)), an unsupported mode grants nothing.
View(vap, sup) ==
  [vap EXCEPT !.acl  = IF "va_acl" \in sup THEN @ ELSE <<>>,
              !.mode = IF "va_mode" \in sup THEN @ ELSE 0]

---------------------------------------------------------------------------
(* Immutability Gate, spec.md 4.2.  On a directory only SF_IMMUTABLE       *)
(* blocks the write-class rights; on anything else UF_IMMUTABLE or        *)
(* SF_IMMUTABLE does; the ignore argument (KAUTH_VNODE_NOIMMUTABLE) drops  *)
(* SF_IMMUTABLE.  APPEND additionally blocks WRITE_DATA but not           *)
(* APPEND_DATA.  Denial is EPERM.                                          *)
ImmutableFlags(vap, ignore) ==
  LET blocking == IF vap.type = "VDIR" THEN {"SF_IMMUTABLE"}
                  ELSE {"UF_IMMUTABLE", "SF_IMMUTABLE"}
  IN  IF ignore THEN blocking \ {"SF_IMMUTABLE"} ELSE blocking

vnode_authorize_checkimmutable(vap, rights, ignore) ==
  IF \/ rights \cap WRITE_RIGHTS # {} /\ vap.flags \cap ImmutableFlags(vap, ignore) # {}
     \/ "WRITE_DATA" \in rights /\ "APPEND" \in vap.flags
  THEN EPERM ELSE 0

---------------------------------------------------------------------------
(* Discretionary Authorizer, spec.md 4.4: ACL entries first (a matching   *)
(* deny for a right wins wherever it appears), then the POSIX class bits. *)
Matches(ace, cred) ==
  \/ ace.who = cred.uid
  \/ ace.who \in cred.gids
  \/ ace.who = EVERYONE

AclSays(vap, cred, kind, right) ==
  \E k \in DOMAIN vap.acl :
     /\ Matches(vap.acl[k], cred)
     /\ vap.acl[k].kind = kind
     /\ right \in vap.acl[k].rights

\* Shift of the class's rwx triple inside the mode word.
ClassShift(vap, cred) ==
  IF cred.uid = vap.uid THEN 64 ELSE IF vap.gid \in cred.gids THEN 8 ELSE 1

HasBit(vap, cred, bit) == (vap.mode & (bit * ClassShift(vap, cred))) # 0

ModeGrants(vap, cred, right) ==
  CASE right = "READ_DATA"                                  -> HasBit(vap, cred, 4)
    [] right \in {"WRITE_DATA", "APPEND_DATA", "DELETE_CHILD"} -> HasBit(vap, cred, 2)
    [] right = "EXECUTE"                                    -> HasBit(vap, cred, 1)
    [] right \in {"READ_ATTRIBUTES", "READ_SECURITY"}        ->
          HasBit(vap, cred, 4) \/ "SF_RESTRICTED" \notin vap.flags
    [] right \in {"WRITE_ATTRIBUTES", "WRITE_SECURITY", "TAKE_OWNERSHIP"} ->
          cred.uid = vap.uid
    [] OTHER -> FALSE

Grants(vap, cred, right) ==
  /\ ~AclSays(vap, cred, "DENY", right)
  /\ AclSays(vap, cred, "ALLOW", right) \/ ModeGrants(vap, cred, right)

\* vnode_authorize_simple: rights minus the pre-authorized ones must all
\* be granted; found_deny reports a matched ACL deny entry.
vnode_authorize_simple(vap, cred, rights, preauth) ==
  IF \A r \in rights \ preauth : Grants(vap, cred, r) THEN 0 ELSE EACCES

SimpleFoundDeny(vap, cred, rights, preauth) ==
  \E r \in rights \ preauth : AclSays(vap, cred, "DENY", r)

---------------------------------------------------------------------------
(* Delete-Rights Resolver, spec.md 4.3: DELETE on the object OR           *)
(* DELETE_CHILD on the parent (or a cached parent grant) suffices.        *)
vnode_authorize_delete(vap, dvap, cred, parent_authorized) ==
  IF \/ Grants(vap, cred, "DELETE")
     \/ parent_authorized
     \/ Grants(dvap, cred, "DELETE_CHILD")
  THEN 0 ELSE EACCES
=============================================================================
