--------------------------- MODULE Impersonation ---------------------------
(***************************************************************************)
(* What the delegation of utility statements promises, whatever the        *)
(* handlers do in between: code runs under the identity of its caller, of  *)
(* the SECURITY DEFINER function it is in, or, inside a statement that was *)
(* delegated, of the superuser in a restricted security context; and       *)
(* whenever a call returns or an error is caught, the identity is again    *)
(* the one in force where the call was made.  The role of SET ROLE changes *)
(* only where no restriction is in force.                                  *)
(***************************************************************************)
EXTENDS Naturals, Sequences

CONSTANTS Roles,    \* the roles of the cluster
          Delegate, \* the superuser that delegated statements run as
          Nobody    \* the identity while an error is propagating

VARIABLES who,     \* the identity code runs under
          session, \* the role of SET ROLE
          callers  \* the identity of each active caller, outermost first

absVars == <<who, session, callers>>

Restricted == {"local_userid_change", "restricted_operation"}

\* The identity of a caller once control is back with it: an unrestricted
\* caller is the session's role, which SET ROLE may have changed meanwhile.
Resumed(caller, role) ==
  IF caller.sec = {} THEN [user |-> role, sec |-> {}] ELSE caller

Caller == callers[Len(callers)]

Outer == SubSeq(callers, 1, Len(callers) - 1)

Active == who # Nobody /\ callers # <<>>

-----------------------------------------------------------------------------

Start == /\ session \in Roles
         /\ who = [user |-> session, sec |-> {}]
         /\ callers = <<>>

Call == /\ who # Nobody
        /\ callers' = Append(callers, who)
        /\ UNCHANGED <<who, session>>

CallDefiner(role) ==
  /\ Active
  /\ callers' = Append(callers, who)
  /\ who' = [user |-> role, sec |-> who.sec \cup {"local_userid_change"}]
  /\ UNCHANGED session

\* Never inside an extent that is already delegated.
BecomeDelegate ==
  /\ Active
  /\ who = Resumed(Caller, session)
  /\ "restricted_operation" \notin who.sec
  /\ who' = [user |-> Delegate, sec |-> who.sec \cup Restricted]
  /\ UNCHANGED <<session, callers>>

BecomeCaller ==
  /\ Active
  /\ who' = Resumed(Caller, session)
  /\ UNCHANGED <<session, callers>>

Return ==
  /\ Active
  /\ who' = Resumed(Caller, session)
  /\ callers' = Outer
  /\ UNCHANGED session

ChangeSession(role) ==
  /\ Active
  /\ who.sec = {}
  /\ session' = role
  /\ who' = [user |-> role, sec |-> {}]
  /\ UNCHANGED callers

Throw ==
  /\ Active
  /\ who' = Nobody
  /\ UNCHANGED <<session, callers>>

Propagate ==
  /\ who = Nobody
  /\ callers # <<>>
  /\ callers' = Outer
  /\ UNCHANGED <<who, session>>

\* The abort of a transaction may bring back an earlier SET ROLE.
Catch(role) ==
  /\ who = Nobody
  /\ callers # <<>>
  /\ callers' = Outer
  /\ Caller.sec # {} => role = session
  /\ session' = role
  /\ who' = Resumed(Caller, role)

Step == \/ Call
        \/ \E role \in Roles : CallDefiner(role)
        \/ BecomeDelegate
        \/ BecomeCaller
        \/ Return
        \/ \E role \in Roles : ChangeSession(role)
        \/ Throw
        \/ Propagate
        \/ \E role \in Roles : Catch(role)

AbstractSpec == Start /\ [][Step]_absVars

=============================================================================
