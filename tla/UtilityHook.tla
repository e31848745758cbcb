---------------------------- MODULE UtilityHook ----------------------------
(***************************************************************************)
(* One backend running utility statements through supautils_hook           *)
(* (src/src/supautils.c), with the file-scope state of src/src/utils.c and *)
(* src/src/extension_custom_scripts.c.                                     *)
(*                                                                         *)
(* Statements nest: a utility statement runs triggers, functions, custom   *)
(* scripts and extension scripts, which run statements of their own, inside*)
(* exception blocks and SECURITY DEFINER functions.  The nesting is the    *)
(* stack of frames; a hook call is a frame whose pc is the point reached   *)
(* in its handler.  Errors are PostgreSQL's ereport(ERROR): control leaves *)
(* the frames one by one, running each PG_CATCH on the way, down to the    *)
(* innermost (sub)transaction, whose abort restores the user id PostgreSQL *)
(* saved when it began, and nothing supautils keeps in static variables.   *)
(***************************************************************************)
EXTENDS Naturals, Sequences

CONSTANTS
  Roles,              \* the roles of the cluster
  Superusers,         \* those with the superuser attribute
  PrivilegedRoles,    \* those with the privileges of supautils.privileged_role
  SupautilsSuperuser, \* supautils.superuser, or the bootstrap superuser
  NoRole,             \* InvalidOid
  MaxDepth            \* bound on the nesting of frames

ASSUME RolesAssumption ==
  /\ Superusers \subseteq Roles
  /\ PrivilegedRoles \subseteq Roles
  /\ SupautilsSuperuser \in Superusers
  /\ NoRole \notin Roles

ASSUME DepthAssumption == MaxDepth \in Nat

VARIABLES
  ident,         \* user id and security context (GetUserIdAndSecContext)
  outerRole,     \* the role of SET ROLE (GetOuterUserId)
  prev,          \* prev_role_oid and prev_role_sec_context
  isSwitched,    \* is_switched_to_superuser
  runningScript, \* running_custom_script
  stack,         \* the frames of the running statement, outermost first
  raising,       \* an error is on its way to the innermost PG_CATCH or abort
  switchLost,    \* history: an error left a handler that held the switch
                 \* without passing through its PG_CATCH
  latchLost      \* history: an error left run_custom_script

vars == <<ident, outerRole, prev, isSwitched, runningScript, stack, raising,
          switchLost, latchLost>>

-----------------------------------------------------------------------------
(* Values *)

\* SECURITY_LOCAL_USERID_CHANGE and SECURITY_RESTRICTED_OPERATION
SecFlags == {"local_userid_change", "restricted_operation"}

Identity == [user : Roles, sec : SUBSET SecFlags]

\* NoRole also stands for the identity while an error is on its way.
ASSUME NoRoleAssumption == NoRole \notin Identity

(* What the handlers of supautils_hook do once their early returns are past: *)
(*   passthrough    break: run the statement as the caller                   *)
(*   delegate       run it as superuser                                      *)
(*   create         the same, then alter_owner: FDW and PUBLICATION          *)
(*   create_evtrig  the same, for EVENT TRIGGER, open to superusers too      *)
(*   create_ext     CREATE EXTENSION                                         *)
(*   alter_ext      ALTER EXTENSION ... UPDATE of a privileged extension     *)
StmtKinds == {"passthrough", "delegate", "create", "create_evtrig",
              "create_ext", "alter_ext"}

FrameKinds == StmtKinds \cup {"block", "definer"}

\* The points of a handler between switch_to_superuser and
\* switch_to_original_role.
SwitchedPcs == {"global_script", "before_script", "options", "util", "owner",
                "after_script", "release"}

ScriptPcs == {"global_script", "before_script", "after_script"}

\* The points at which arbitrary code runs: prev_hook or
\* standard_ProcessUtility, and the body of a block or of a function.
CodePcs == {"util", "util_as_caller", "chain", "body"}

Pcs == SwitchedPcs \cup CodePcs \cup {"switch", "reswitch"}

Frame == [kind    : FrameKinds,
          pc      : Pcs,
          already : BOOLEAN,  \* already_switched_to_superuser
          latch   : BOOLEAN,  \* inside run_custom_script, past its guard
          entry   : Identity, \* the identity the frame was entered with
          role    : Roles]    \* definer: its owner; otherwise outerRole

-----------------------------------------------------------------------------
(* The stack *)

Top == stack[Len(stack)]

Below == SubSeq(stack, 1, Len(stack) - 1)

Replace(frame) == stack' = [stack EXCEPT ![Len(stack)] = frame]

Goto(pc) == Replace([Top EXCEPT !.pc = pc])

NewFrame(kind, pc, role) ==
  [kind |-> kind, pc |-> pc, already |-> FALSE, latch |-> FALSE,
   entry |-> ident, role |-> role]

Push(frame) == /\ Len(stack) < MaxDepth
               /\ stack' = Append(stack, frame)

\* Some frame is running and no error is on its way.
Running == /\ ~raising
           /\ stack # <<>>

\* The code under the top frame can start a statement, a block or a function.
RunsCode == Running /\ (Top.pc \in CodePcs \/ Top.latch)

-----------------------------------------------------------------------------
(* src/src/utils.c *)

\* is_super is superuser(), is_privileged is is_current_role_privileged().
IsSuper(role) == role \in Superusers

IsPrivileged(role) == role \in PrivilegedRoles

\* Faulty variants of switch_to_superuser: a nested call switches again;
SwitchToSuperuserAgain(nextPc) ==
  /\ Replace([Top EXCEPT !.already = isSwitched, !.pc = nextPc])
  /\ isSwitched' = TRUE
  /\ prev' = ident
  /\ ident' = [user |-> SupautilsSuperuser, sec |-> ident.sec \cup SecFlags]

\* the security context is left as it was.
SwitchToSuperuserUnrestricted(nextPc) ==
  /\ Replace([Top EXCEPT !.already = isSwitched, !.pc = nextPc])
  /\ IF isSwitched
       THEN UNCHANGED <<ident, prev, isSwitched>>
       ELSE /\ isSwitched' = TRUE
            /\ prev' = ident
            /\ ident' = [ident EXCEPT !.user = SupautilsSuperuser]

\* switch_to_superuser(supautils_superuser, &already_switched_to_superuser)
SwitchToSuperuser(nextPc) ==
  /\ Replace([Top EXCEPT !.already = isSwitched, !.pc = nextPc])
  /\ IF isSwitched
       THEN UNCHANGED <<ident, prev, isSwitched>>
       ELSE /\ isSwitched' = TRUE
            /\ prev' = ident
            /\ ident' = [user |-> SupautilsSuperuser,
                         sec  |-> ident.sec \cup SecFlags]

\* Faulty: the flag is not lowered.
SwitchToOriginalRoleStillSwitched(already) ==
  /\ UNCHANGED isSwitched
  /\ IF already THEN UNCHANGED ident ELSE ident' = prev

\* if (!already_switched_to_superuser) switch_to_original_role();
SwitchToOriginalRole(already) ==
  IF already
    THEN UNCHANGED <<ident, isSwitched>>
    ELSE /\ ident' = prev
         /\ isSwitched' = FALSE

-----------------------------------------------------------------------------
(* Starting: transactions, blocks, functions, statements *)

\* A transaction, a SAVEPOINT or a block with an EXCEPTION clause: PostgreSQL
\* saves the identity that its abort will restore.
BeginBlock ==
  /\ ~raising
  /\ stack = <<>> \/ RunsCode
  /\ Push(NewFrame("block", "body", outerRole))
  /\ UNCHANGED <<ident, outerRole, prev, isSwitched, runningScript, raising,
                 switchLost, latchLost>>

\* Commit of a (sub)transaction.  Nothing is restored.
EndBlock ==
  /\ Running
  /\ Top.kind = "block"
  /\ stack' = Below
  /\ UNCHANGED <<ident, outerRole, prev, isSwitched, runningScript, raising,
                 switchLost, latchLost>>

\* fmgr_security_definer: a function owned by role is called.
BeginDefiner(role) ==
  /\ RunsCode
  /\ Push(NewFrame("definer", "body", role))
  /\ ident' = [user |-> role, sec |-> ident.sec \cup {"local_userid_change"}]
  /\ UNCHANGED <<outerRole, prev, isSwitched, runningScript, raising,
                 switchLost, latchLost>>

EndDefiner ==
  /\ Running
  /\ Top.kind = "definer"
  /\ stack' = Below
  /\ ident' = Top.entry
  /\ UNCHANGED <<outerRole, prev, isSwitched, runningScript, raising,
                 switchLost, latchLost>>

\* SET ROLE: PostgreSQL rejects it under either security flag.
SetRole(role) ==
  /\ RunsCode
  /\ ident.sec = {}
  /\ outerRole' = role
  /\ ident' = [user |-> role, sec |-> {}]
  /\ UNCHANGED <<prev, isSwitched, runningScript, stack, raising,
                 switchLost, latchLost>>

\* The early returns of the handlers: who reaches the switch for each kind.
Dispatches(kind) ==
  \/ kind \in {"passthrough", "create_ext"}
  \/ kind \in {"delegate", "alter_ext"} /\ ~IsSuper(ident.user)
  \/ kind = "create" /\ ~IsSuper(ident.user) /\ IsPrivileged(ident.user)
  \/ kind = "create_evtrig" /\ IsPrivileged(ident.user)

\* ProcessUtility calls supautils_hook.
BeginStatement(kind) ==
  /\ RunsCode
  /\ Dispatches(kind)
  /\ Push(NewFrame(kind, IF kind = "passthrough" THEN "chain" ELSE "switch",
                   outerRole))
  /\ UNCHANGED <<ident, outerRole, prev, isSwitched, runningScript, raising,
                 switchLost, latchLost>>

-----------------------------------------------------------------------------
(* The steps of the handlers *)

\* switch_to_superuser succeeds.  In CREATE EXTENSION it is called again after
\* a statement that ran as the caller, into the same already_switched variable.
Switch ==
  /\ Running
  /\ Top.pc \in {"switch", "reswitch"}
  /\ SwitchToSuperuser(IF Top.pc = "reswitch" THEN "after_script"
                       ELSE IF Top.kind = "create_ext" THEN "global_script" ELSE "util")
  /\ UNCHANGED <<outerRole, runningScript, raising, switchLost, latchLost>>

\* switch_to_superuser raises the flag, then get_role_oid(supauser, false)
\* finds no such role.
SwitchFails ==
  /\ Running
  /\ Top.pc \in {"switch", "reswitch"}
  /\ ~isSwitched
  /\ isSwitched' = TRUE
  /\ raising' = TRUE
  /\ switchLost' = TRUE
  /\ Replace([Top EXCEPT !.already = FALSE])
  /\ UNCHANGED <<ident, outerRole, prev, runningScript, latchLost>>

\* Faulty: run_custom_script without its guard.
StartScriptUnguarded ==
  /\ Running
  /\ Top.pc \in ScriptPcs
  /\ ~Top.latch
  /\ runningScript' = TRUE
  /\ Replace([Top EXCEPT !.latch = TRUE])
  /\ UNCHANGED <<ident, outerRole, prev, isSwitched, raising,
                 switchLost, latchLost>>

\* run_custom_script: past the guard, the script's statements run.
StartScript ==
  /\ Running
  /\ Top.pc \in ScriptPcs
  /\ ~Top.latch
  /\ ~runningScript
  /\ runningScript' = TRUE
  /\ Replace([Top EXCEPT !.latch = TRUE])
  /\ UNCHANGED <<ident, outerRole, prev, isSwitched, raising,
                 switchLost, latchLost>>

AfterScript(pc) ==
  CASE pc = "global_script" -> "before_script"
    [] pc = "before_script" -> "options"
    [] OTHER                -> "release"

\* run_custom_script returns at once under a running script.
SkipScript ==
  /\ Running
  /\ Top.pc \in ScriptPcs
  /\ ~Top.latch
  /\ runningScript
  /\ Goto(AfterScript(Top.pc))
  /\ UNCHANGED <<ident, outerRole, prev, isSwitched, runningScript, raising,
                 switchLost, latchLost>>

FinishScript ==
  /\ Running
  /\ Top.latch
  /\ runningScript' = FALSE
  /\ Replace([Top EXCEPT !.latch = FALSE, !.pc = AfterScript(Top.pc)])
  /\ UNCHANGED <<ident, outerRole, prev, isSwitched, raising,
                 switchLost, latchLost>>

\* Faulty: the switch stays in force for an extension that is not privileged.
ChooseExtensionPathSwitched(privileged) ==
  /\ Running
  /\ Top.pc = "options"
  /\ Goto(IF privileged THEN "util" ELSE "util_as_caller")
  /\ UNCHANGED <<ident, isSwitched, outerRole, prev, runningScript, raising,
                 switchLost, latchLost>>

\* override_ext_options and is_extension_privileged succeed; an extension that
\* is not privileged is created as the caller.
ChooseExtensionPath(privileged) ==
  /\ Running
  /\ Top.pc = "options"
  /\ IF privileged
       THEN Goto("util") /\ UNCHANGED <<ident, isSwitched>>
       ELSE Goto("util_as_caller") /\ SwitchToOriginalRole(Top.already)
  /\ UNCHANGED <<outerRole, prev, runningScript, raising,
                 switchLost, latchLost>>

\* prev_hook or standard_ProcessUtility returns.
UtilityReturns ==
  /\ Running
  /\ \/ /\ Top.pc = "util"
        /\ Goto(CASE Top.kind = "create_ext" -> "after_script"
                  [] \/ Top.kind = "create"
                     \/ Top.kind = "create_evtrig" /\ ~IsSuper(Top.entry.user)
                                             -> "owner"
                  [] OTHER                   -> "release")
     \/ Top.pc = "util_as_caller" /\ Goto("reswitch")
     \/ Top.pc = "chain" /\ stack' = Below
  /\ UNCHANGED <<ident, outerRole, prev, isSwitched, runningScript, raising,
                 switchLost, latchLost>>

\* alter_owner returns.
AlterOwner ==
  /\ Running
  /\ Top.pc = "owner"
  /\ Goto("release")
  /\ UNCHANGED <<ident, outerRole, prev, isSwitched, runningScript, raising,
                 switchLost, latchLost>>

\* Faulty variants: a handler that returns without restoring the role, and one
\* that restores it whoever made the switch.
ReleaseUnrestored ==
  /\ Running
  /\ Top.pc = "release"
  /\ IF Top.kind = "alter_ext" THEN Goto("chain") ELSE stack' = Below
  /\ UNCHANGED <<ident, isSwitched, outerRole, prev, runningScript, raising,
                 switchLost, latchLost>>

ReleaseAlways ==
  /\ Running
  /\ Top.pc = "release"
  /\ SwitchToOriginalRole(FALSE)
  /\ IF Top.kind = "alter_ext" THEN Goto("chain") ELSE stack' = Below
  /\ UNCHANGED <<outerRole, prev, runningScript, raising,
                 switchLost, latchLost>>

\* The end of a handler.  ALTER EXTENSION breaks out of the switch statement
\* here and goes on to the chained hook; every other handler returns.
Release ==
  /\ Running
  /\ Top.pc = "release"
  /\ SwitchToOriginalRole(Top.already)
  /\ IF Top.kind = "alter_ext" THEN Goto("chain") ELSE stack' = Below
  /\ UNCHANGED <<outerRole, prev, runningScript, raising,
                 switchLost, latchLost>>

-----------------------------------------------------------------------------
(* Errors *)

\* Something called at this point raises: the statement itself, code it runs,
\* a rejection before the switch, an option that conflicts, alter_owner.
Fail ==
  /\ Running
  /\ Top.latch \/ Top.pc \in CodePcs \cup {"switch", "options", "owner"}
  /\ raising' = TRUE
  /\ UNCHANGED <<ident, outerRole, prev, isSwitched, runningScript, stack,
                 switchLost, latchLost>>

\* This frame made the switch and has not undone it.
HoldsSwitch(frame) == /\ frame.kind \in StmtKinds
                      /\ ~frame.already
                      /\ frame.pc \in SwitchedPcs

\* Faulty: no PG_CATCH around prev_hook or standard_ProcessUtility.
UnwindStatementUncaught ==
  /\ raising
  /\ stack # <<>>
  /\ Top.kind \in StmtKinds
  /\ stack' = Below
  /\ latchLost' = (latchLost \/ Top.latch)
  /\ UNCHANGED <<ident, isSwitched, switchLost, outerRole, prev,
                 runningScript, raising>>

\* The error leaves a handler.  Only run_process_utility_hook_with_cleanup has
\* a PG_CATCH; run_custom_script resets its latch only when it returns.
UnwindStatement ==
  /\ raising
  /\ stack # <<>>
  /\ Top.kind \in StmtKinds
  /\ stack' = Below
  /\ IF Top.pc = "util"
       THEN SwitchToOriginalRole(Top.already) /\ UNCHANGED switchLost
       ELSE /\ switchLost' = (switchLost \/ HoldsSwitch(Top))
            /\ UNCHANGED <<ident, isSwitched>>
  /\ latchLost' = (latchLost \/ Top.latch)
  /\ UNCHANGED <<outerRole, prev, runningScript, raising>>

\* fmgr_security_definer leaves the identity to the (sub)transaction abort.
UnwindDefiner ==
  /\ raising
  /\ stack # <<>>
  /\ Top.kind = "definer"
  /\ stack' = Below
  /\ UNCHANGED <<ident, outerRole, prev, isSwitched, runningScript, raising,
                 switchLost, latchLost>>

\* Abort of a (sub)transaction: the saved identity and SET ROLE's value return.
AbortBlock ==
  /\ raising
  /\ stack # <<>>
  /\ Top.kind = "block"
  /\ stack' = Below
  /\ ident' = Top.entry
  /\ outerRole' = Top.role
  /\ raising' = FALSE
  /\ UNCHANGED <<prev, isSwitched, runningScript, switchLost, latchLost>>

-----------------------------------------------------------------------------

Init ==
  /\ outerRole \in Roles
  /\ ident = [user |-> outerRole, sec |-> {}]
  /\ prev = [user |-> NoRole, sec |-> {}]
  /\ isSwitched = FALSE
  /\ runningScript = FALSE
  /\ stack = <<>>
  /\ raising = FALSE
  /\ switchLost = FALSE
  /\ latchLost = FALSE

\* The steps that bring the running frame closer to its end.
Advance ==
  \/ EndBlock
  \/ EndDefiner
  \/ Switch
  \/ StartScript
  \/ SkipScript
  \/ FinishScript
  \/ \E privileged \in BOOLEAN : ChooseExtensionPath(privileged)
  \/ UtilityReturns
  \/ AlterOwner
  \/ Release

Unwind == UnwindStatement \/ UnwindDefiner \/ AbortBlock

Next ==
  \/ BeginBlock
  \/ \E role \in Roles : BeginDefiner(role)
  \/ \E role \in Roles : SetRole(role)
  \/ \E kind \in StmtKinds : BeginStatement(kind)
  \/ Advance
  \/ SwitchFails
  \/ Fail
  \/ Unwind

Spec == Init /\ [][Next]_vars

\* PostgreSQL runs each piece of code it is given to its end: the frame at
\* every depth that gets to run again and again advances, and an error that
\* was raised is propagated without delay.
Fairness ==
  /\ WF_vars(Unwind)
  /\ \A depth \in 1..MaxDepth : SF_vars(Len(stack) = depth /\ Advance)

FairSpec == Spec /\ Fairness

-----------------------------------------------------------------------------
(* Properties *)

TypeOK ==
  /\ ident \in Identity
  /\ outerRole \in Roles
  /\ prev \in [user : Roles \cup {NoRole}, sec : SUBSET SecFlags]
  /\ isSwitched \in BOOLEAN
  /\ runningScript \in BOOLEAN
  /\ stack \in Seq(Frame)
  /\ raising \in BOOLEAN
  /\ switchLost \in BOOLEAN
  /\ latchLost \in BOOLEAN

Depths == 1..Len(stack)

Holders == {i \in Depths : HoldsSwitch(stack[i])}

\* is_switched_to_superuser is up exactly while one handler, and only one, is
\* between its switch and its restore; errors that pass through the PG_CATCH
\* of run_process_utility_hook_with_cleanup keep it so.  Once an error has left
\* a handler elsewhere the flag stays up and no handler switches again.
SwitchOwnership ==
  /\ isSwitched <=> (switchLost \/ Holders # {})
  /\ switchLost => Holders = {}
  /\ \A i, j \in Holders : i = j

\* The identity a caller has when control is back with it: SET ROLE may have
\* changed the role of one that runs unrestricted.
Resumed(caller) ==
  IF caller.sec = {} THEN [user |-> outerRole, sec |-> {}] ELSE caller

\* What switch_to_original_role would restore is the identity of the caller of
\* the statement that switched, however many statements, errors and blocks
\* came and went inside it.
PrevIsCallers == \A i \in Holders : prev = Resumed(stack[i].entry)

\* The identity a frame's own code runs under.
Inside(frame) ==
  CASE HoldsSwitch(frame) ->
         [user |-> SupautilsSuperuser, sec |-> frame.entry.sec \cup SecFlags]
    [] frame.kind = "definer" ->
         [user |-> frame.role,
          sec  |-> frame.entry.sec \cup {"local_userid_change"}]
    [] OTHER -> Resumed(frame.entry)

\* Unless an error is on its way, the identity is the one the innermost frame
\* calls for: the session's role between transactions, the caller's before a
\* switch and after a restore, in a statement that is not delegated and in the
\* middle of CREATE EXTENSION for an extension that is not privileged, and
\* again after each caught error.
IdentityDiscipline ==
  ~raising =>
    ident = IF stack = <<>> THEN [user |-> outerRole, sec |-> {}]
                            ELSE Inside(Top)

Latches == {i \in Depths : stack[i].latch}

\* running_custom_script is up exactly while one script runs: scripts never
\* nest, and only an error in a script can leave the latch up.
ScriptLatch ==
  /\ runningScript <=> (latchLost \/ Latches # {})
  /\ latchLost => Latches = {}
  /\ \A i, j \in Latches : i = j

(* The inductive invariant: what the properties above rest on *)

\* A block or a function has no handler point, and only a point that runs a
\* script can be inside one.
WellFormed ==
  \A i \in Depths :
    /\ stack[i].kind \in StmtKinds <=> stack[i].pc # "body"
    /\ stack[i].latch => stack[i].kind \in StmtKinds /\ stack[i].pc \in ScriptPcs

\* Each frame was entered with the identity of the code of the frame below, up
\* to a later SET ROLE, and restrictions only accumulate on the way in.
Nesting ==
  \A i \in Depths :
    /\ i = 1 => stack[i].entry.sec = {}
    /\ i > 1 => stack[i].entry.sec = Inside(stack[i - 1]).sec
    /\ i > 1 /\ stack[i].entry.sec # {} => stack[i].entry = Inside(stack[i - 1])
    /\ \A j \in Depths : i < j => Inside(stack[i]).sec \subseteq stack[j].entry.sec

\* What PostgreSQL will put back when a block aborts or a function returns.
SavedRoles ==
  \A i \in Depths :
    /\ (stack[i].kind = "block" /\ stack[i].entry.sec = {})
         => stack[i].entry.user = stack[i].role
    /\ (stack[i].kind = "block" /\ stack[i].entry.sec # {})
         => stack[i].role = outerRole
    /\ (stack[i].kind = "definer" /\ stack[i].entry.sec = {})
         => stack[i].entry.user = outerRole

IInv ==
  /\ TypeOK
  /\ SwitchOwnership
  /\ PrevIsCallers
  /\ IdentityDiscipline
  /\ ScriptLatch
  /\ WellFormed
  /\ Nesting
  /\ SavedRoles

\* A handler that found the switch made runs inside the one that made it, unless
\* an error lost it.
SwitchFound ==
  ~switchLost =>
    \A i \in Depths :
      stack[i].already /\ stack[i].pc \in SwitchedPcs => \E j \in Holders : j < i

DelegationInv == IInv /\ SwitchFound

\* The statement that runs is a delegated one, which may be nested in another and
\* have found the switch made: no SECURITY DEFINER function lies in between, and
\* no error has lost the switch.
InDelegated ==
  /\ Running
  /\ Top.pc = "util"
  /\ ~switchLost
  /\ \A i \in Holders, j \in Depths : j > i => stack[j].kind # "definer"

\* A delegated statement runs as the superuser, also when it is nested in a
\* delegated one and finds the switch made.
DelegatedRunsAsSuperuser == InDelegated => ident.user = SupautilsSuperuser

\* SET ROLE takes no effect while a statement is delegated, so the identity
\* that was saved is still the session's when it is restored.
SessionRoleKept ==
  [][isSwitched /\ isSwitched' /\ ~switchLost' => outerRole' = outerRole]_vars

\* Every switch comes to an end, unless an error loses it.
SwitchEnds == isSwitched ~> (~isSwitched \/ switchLost)

\* Who runs, and for whom: the identities of the active callers.
Who == IF raising THEN NoRole ELSE ident

Callers == [i \in Depths |-> stack[i].entry]

\* The handlers implement the promise of Impersonation.
Promise == INSTANCE Impersonation WITH
  Delegate <- SupautilsSuperuser,
  Nobody   <- NoRole,
  who      <- Who,
  session  <- outerRole,
  callers  <- Callers

KeepsPromise == Promise!AbstractSpec

(* What the tests and the README say *)

\* test/sql/privileged_role.sql: is_switched_to_superuser is restored when an
\* exception is thrown.
SwitchRestoredWhenIdle == stack = <<>> => ~isSwitched

\* README, Extension Custom Scripts: the scripts run at every CREATE EXTENSION,
\* so none is skipped because of one that ended earlier.
ScriptLatchDownWhenIdle == stack = <<>> => ~runningScript

\* README, Privileged extensions: updating a privileged extension is delegated
\* to the superuser.
UpdateRunsAsSuperuser ==
  (Running /\ Top.kind = "alter_ext" /\ Top.pc \in CodePcs /\ ~Top.already)
  => ident.user = SupautilsSuperuser

=============================================================================
