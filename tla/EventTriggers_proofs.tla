------------------------ MODULE EventTriggers_proofs ------------------------
(***************************************************************************)
(* Firing event triggers is allowed by UtilityHook, so its invariant holds *)
(* where the function manager hook decides; with it, the README's promises *)
(* about skipped functions follow for all roles, functions and owners.     *)
(***************************************************************************)
EXTENDS EventTriggers, UtilityHook_proofs

(* A call that is made is a call of a function that was not skipped. *)
LEMMA FireFacts ==
  ASSUME NEW fn \in Functions, Fire(fn)
  PROVE  /\ fired' = [fn |-> fn, runs |-> ~Skipped(fn), user |-> UserInside(fn)]
         /\ fn \notin Definers => UNCHANGED vars
         /\ outerRole' = outerRole
<1>1. CASE fn \in Definers /\ ~Skipped(fn)
  BY <1>1 DEF Fire, BeginDefiner
<1>2. CASE ~(fn \in Definers /\ ~Skipped(fn))
  BY <1>2 DEF Fire, vars
<1> QED
  BY <1>1, <1>2

(* Every step with event triggers is a step of UtilityHook or leaves its     *)
(* variables alone: the function manager hook only adds function calls.      *)
LEMMA StepIsHookStep == ASSUME FunctionsAssumption, [ETNext]_etVars PROVE [Next]_vars
<1>1. ASSUME NEW fn \in Functions, Fire(fn)
      PROVE  [Next]_vars
  <2>1. CASE fn \in Definers /\ ~Skipped(fn)
    <3>1. BeginDefiner(OwnerOf[fn])
      BY <1>1, <2>1 DEF Fire
    <3>2. OwnerOf[fn] \in Roles
      BY <1>1 DEF FunctionsAssumption
    <3> QED
      BY <3>1, <3>2 DEF Next
  <2>2. CASE ~(fn \in Definers /\ ~Skipped(fn))
    BY <1>1, <2>2 DEF Fire
  <2> QED
    BY <2>1, <2>2
<1>2. CASE Next
  BY <1>2
<1>3. CASE UNCHANGED etVars
  BY <1>3 DEF etVars, vars
<1> QED
  BY <1>1, <1>2, <1>3 DEF ETNext

(* Whatever event triggers run, the utility hook meets nothing it does not   *)
(* meet without them, so what is proved of UtilityHook can be used here.     *)
LEMMA BehavesAsUtilityHook == ETSpec => Spec
<1>1. ETInit => Init
  BY DEF ETInit
<1>2. [ETNext]_etVars => [Next]_vars
  BY FunctionsAssumption, StepIsHookStep
<1> QED
  BY <1>1, <1>2, PTL DEF ETSpec, Spec

(* Delegated statements run as the superuser with event triggers too. *)
LEMMA DelegatedRunsWithTriggers == ETSpec => []DelegatedRunsAsSuperuser
  BY DelegatedRuns, BehavesAsUtilityHook, PTL

-----------------------------------------------------------------------------

(* README, Non-Superuser Event Triggers: no code of a function that no       *)
(* superuser owns starts as a superuser.                                     *)
THEOREM NobodyGainsSuperuser == ETSpec => []NoFunctionGainsSuperuser
<1>1. ETInit => NoFunctionGainsSuperuser
  BY DEF ETInit, NoCall, NoFunctionGainsSuperuser
<1>2. ASSUME NoFunctionGainsSuperuser, [ETNext]_etVars
      PROVE  NoFunctionGainsSuperuser'
  <2>1. ASSUME NEW fn \in Functions, Fire(fn)
        PROVE  NoFunctionGainsSuperuser'
    <3>1. fired' = [fn |-> fn, runs |-> ~Skipped(fn), user |-> UserInside(fn)]
      BY <2>1, FireFacts
    <3>2. ~Skipped(fn) /\ IsSuper(UserInside(fn)) => IsSuper(OwnerOf[fn])
      BY DEF Skipped, Skips, UserInside
    <3> QED
      BY <3>1, <3>2 DEF NoFunctionGainsSuperuser, IsSuper
  <2>2. CASE fired' = NoCall
    BY <2>2 DEF NoFunctionGainsSuperuser, NoCall
  <2>3. CASE UNCHANGED etVars
    BY <1>2, <2>3 DEF NoFunctionGainsSuperuser, etVars
  <2> QED
    BY <1>2, <2>1, <2>2, <2>3 DEF ETNext
<1> QED
  BY <1>1, <1>2, PTL DEF ETSpec

(* README, the limitation of issue 123: in a statement that is delegated,    *)
(* nested ones included, no function runs with its caller's identity unless  *)
(* a superuser owns it.                                                      *)
THEOREM DelegatedStatementsSkip == ETSpec => []SkippedWhenDelegated
<1>1. ETInit => SkippedWhenDelegated
  BY DEF ETInit, NoCall, SkippedWhenDelegated
<1>2. ASSUME DelegatedRunsAsSuperuser, SkippedWhenDelegated, [ETNext]_etVars
      PROVE  SkippedWhenDelegated'
  <2>1. ASSUME NEW fn \in Functions, Fire(fn)
        PROVE  SkippedWhenDelegated'
    <3>1. fired' = [fn |-> fn, runs |-> ~Skipped(fn), user |-> UserInside(fn)]
      BY <2>1, FireFacts
    <3>2. SUFFICES ASSUME ~Skipped(fn), fn \notin Definers, InDelegated'
                   PROVE  IsSuper(OwnerOf[fn])
      BY <3>1 DEF SkippedWhenDelegated, IsSuper
    <3>3. UNCHANGED vars
      BY <2>1, <3>2, FireFacts
    <3>4. InDelegated
      BY <3>2, <3>3 DEF InDelegated, Running, Holders, Depths, HoldsSwitch, Top, vars
    <3>5. ident.user = SupautilsSuperuser
      BY <1>2, <3>4 DEF DelegatedRunsAsSuperuser
    <3>6. IsSuper(ident.user)
      BY <3>5, RolesAssumption DEF RolesAssumption, IsSuper
    <3> QED
      BY <3>2, <3>6 DEF Skipped, Skips, UserInside
  <2>2. CASE fired' = NoCall
    BY <2>2 DEF SkippedWhenDelegated, NoCall
  <2>3. CASE UNCHANGED etVars
    BY <1>2, <2>3 DEF SkippedWhenDelegated, InDelegated, etVars, Running, Holders, Depths,
                     HoldsSwitch, Top, IsSuper
  <2> QED
    BY <1>2, <2>1, <2>2, <2>3 DEF ETNext
<1> QED
  BY <1>1, <1>2, DelegatedRunsWithTriggers, PTL DEF ETSpec

(* Issue 140: a SECURITY DEFINER function that no superuser owns is skipped  *)
(* in the session of a superuser or of a reserved role.                      *)
THEOREM SessionsSkipDefiners == ETSpec => []DefinerSkippedForSession
<1>1. ETInit => DefinerSkippedForSession
  BY DEF ETInit, NoCall, DefinerSkippedForSession
<1>2. ASSUME DefinerSkippedForSession, [ETNext]_etVars
      PROVE  DefinerSkippedForSession'
  <2>1. ASSUME NEW fn \in Functions, Fire(fn)
        PROVE  DefinerSkippedForSession'
    <3>1. /\ fired' = [fn |-> fn, runs |-> ~Skipped(fn), user |-> UserInside(fn)]
          /\ outerRole' = outerRole
      BY <2>1, FireFacts
    <3>2. fn \in Definers /\ ~Skipped(fn) /\ ~IsSuper(OwnerOf[fn])
            => outerRole \notin Superusers \cup ReservedRoles
      BY DEF Skipped, Skips, IsSuper
    <3> QED
      BY <3>1, <3>2 DEF DefinerSkippedForSession, IsSuper
  <2>2. CASE fired' = NoCall
    BY <2>2 DEF DefinerSkippedForSession, NoCall
  <2>3. CASE UNCHANGED etVars
    BY <1>2, <2>3 DEF DefinerSkippedForSession, etVars, IsSuper
  <2> QED
    BY <1>2, <2>1, <2>2, <2>3 DEF ETNext
<1> QED
  BY <1>1, <1>2, PTL DEF ETSpec

=============================================================================
