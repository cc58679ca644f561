---------------------------- MODULE VfsDecision ----------------------------
(***************************************************************************)
(* What the Top-Level Gate promises (spec.md 4.6, 5, 7): one              *)
(* authorization call takes a snapshot of the object, its parent, the     *)
(* mount policy and the credential and returns one decision, computed    *)
(* atomically from the snapshot.  Decisions are reported as the errno the *)
(* kernel interface returns: a read-only volume is EROFS, a missing       *)
(* parent for a delete is EINVAL, every other denial is an access-denied  *)
(* EACCES, and 0 is Allow.  VfsAuthorize is checked to implement this.    *)
(***************************************************************************)
EXTENDS VfsRights

CONSTANTS
  Calls,   \* the authorization requests the caller may make
  NONE

VARIABLES
  phase,     \* "busy" or "done"
  call,      \* the request in progress
  decision   \* its decision once phase = "done", else NONE

vars == <<phase, call, decision>>

\* The immutability veto of spec 4.6 step 4: the object for the whole
\* request, the parent for DELETE_CHILD when DELETE is requested.
ImmutableVeto(c, rights) ==
  \/ vnode_authorize_checkimmutable(c.vap, rights, "NOIMMUTABLE" \in c.action) # 0
  \/ /\ "DELETE" \in rights
     /\ vnode_authorize_checkimmutable(c.dvap, {"DELETE_CHILD"}, FALSE) # 0

\* Discretionary decision of spec 4.6 step 6 for a non-superuser.
DiscretionaryAllows(c, rights) ==
  /\ "DELETE" \in rights =>
        vnode_authorize_delete(c.vap, c.dvap, c.cred, FALSE) = 0
  /\ vnode_authorize_simple(c.vap, c.cred,
        rights \ {"LINKTARGET", "CHECKIMMUTABLE"}, {"DELETE"}) = 0

Decide(c) ==
  LET rights == c.action \ Modifiers
  IN  CASE "DELETE" \in rights /\ c.dvap = NONE -> EINVAL
        [] /\ c.mp.rdonly
           /\ rights \cap WRITE_RIGHTS # {}
           /\ \/ c.vap.type \in {"VREG", "VDIR", "VLNK"}
              \/ rights \cap {"DELETE", "DELETE_CHILD"} # {}        -> EROFS
        [] /\ c.mp.noexec /\ "EXECUTE" \in rights
           /\ c.vap.type = "VREG"                                  -> EACCES
        [] c.cred.suser /\ rights \cap (WRITE_RIGHTS \cup {"EXECUTE"}) = {} -> 0
        [] ImmutableVeto(c, rights)                                -> EACCES
        [] c.cred.suser ->
             IF /\ "EXECUTE" \in rights /\ c.vap.type = "VREG"
                /\ (c.vap.mode & S_IXALL) = 0
             THEN EACCES ELSE 0
        [] OTHER -> IF DiscretionaryAllows(c, rights) THEN 0 ELSE EACCES

\* The evaluator keeps no state across calls (spec.md 3), so one behaviour
\* is one call.
Init ==
  /\ phase = "busy"
  /\ call \in Calls
  /\ decision = NONE

Answer ==
  /\ phase = "busy"
  /\ phase' = "done"
  /\ decision' = Decide(call)
  /\ UNCHANGED call

Next == Answer

Spec == Init /\ [][Next]_vars
=============================================================================
