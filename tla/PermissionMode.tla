--------------------------- MODULE PermissionMode ---------------------------
(***************************************************************************)
(* Where a turn's approval policy and sandbox come from: the environment,  *)
(* the explicit fields of a start, auto_approve, bypass_permissions, the   *)
(* canonical permission mode, the raw knobs of the custom mode, the host's *)
(* escape hatch, and set_permission_mode.  Each request changes b.cfg and  *)
(* every turn/start sends what b.cfg holds then.                           *)
(***************************************************************************)
VARIABLES
  disableSandbox, \* CODEX_DISABLE_SANDBOX, read once
  cfg,      \* b.cfg.ApprovalMode and b.cfg.SandboxPolicy
  started,  \* b.threadID is set
  turn,     \* history: the policy of the turn started last
  request,  \* history: the last request that said something of the policy
  pinned    \* history: the last request to be applied pinned the sandbox

vars == <<disableSandbox, cfg, started, turn, request, pinned>>

Approvals == {"never", "on-request", "untrusted"}
Sandboxes == {"read-only", "workspace-write", "danger-full-access"}
Policies == [approval : Approvals, sandbox : Sandboxes]

Unstated == "unstated"
Leave(values) == values \cup {Unstated}
NoPolicy == [approval |-> Unstated, sandbox |-> Unstated]

\* block_all, ask_all, ask and auto are treated alike; ask stands for them.
CanonicalModes == {"ask", "plan", "bypass", "custom"}

\* The fields of a start that bear on the policy.
StartParams ==
  {p \in [mode : Leave(CanonicalModes \cup Approvals), sandbox : Leave(Sandboxes),
          autoApprove : Leave({"no", "yes"}), bypassPermissions : BOOLEAN,
          custom : [approval : Leave(Approvals), sandbox : Leave(Sandboxes)]] :
     p.mode # "custom" => p.custom = NoPolicy}

SaysNothing(p) ==
  /\ p.mode = Unstated /\ p.sandbox = Unstated
  /\ p.autoApprove # "yes" /\ ~p.bypassPermissions

TypeOK ==
  /\ disableSandbox \in BOOLEAN /\ started \in BOOLEAN
  /\ cfg \in Policies /\ turn \in Policies \cup {NoPolicy}
  /\ request.kind \in {"none", "start", "set"} /\ pinned \in BOOLEAN

Init ==
  /\ disableSandbox \in BOOLEAN
  /\ cfg \in Policies
  /\ started = FALSE
  /\ turn = NoPolicy
  /\ request = [kind |-> "none"] /\ pinned = FALSE

-----------------------------------------------------------------------------
(* applyStartConfig, last write wins. *)

Override(c, approval, sandbox) ==
  [approval |-> IF approval = Unstated THEN c.approval ELSE approval,
   sandbox |-> IF sandbox = Unstated THEN c.sandbox ELSE sandbox]

ExplicitFields(c, p) ==
  Override(c, IF p.mode \in Approvals THEN p.mode ELSE Unstated, p.sandbox)

\* A bug: the flag is taken for set when it is present.
AutoApproveIfPresent(c, p) ==
  IF p.autoApprove # Unstated THEN Override(c, "never", "workspace-write") ELSE c

AutoApprove(c, p) ==
  IF p.autoApprove = "yes" THEN Override(c, "never", "workspace-write") ELSE c

BypassPermissions(c, p) ==
  IF p.bypassPermissions THEN Override(c, "never", "danger-full-access") ELSE c

\* A bug: ask leaves the sandbox as a mode before it set it.
CanonicalModeKeepsSandbox(c, mode) ==
  CASE mode = "ask"    -> Override(c, "on-request", Unstated)
    [] mode = "plan"   -> Override(c, "on-request", "read-only")
    [] mode = "bypass" -> Override(c, "never", "danger-full-access")
    [] OTHER           -> c

CanonicalMode(c, mode) ==
  CASE mode = "ask"    -> Override(c, "on-request", "workspace-write")
    [] mode = "plan"   -> Override(c, "on-request", "read-only")
    [] mode = "bypass" -> Override(c, "never", "danger-full-access")
    [] OTHER           -> c

CustomKnobs(c, p) == Override(c, p.custom.approval, p.custom.sandbox)

PinSandbox(c) ==
  IF disableSandbox THEN Override(c, Unstated, "danger-full-access") ELSE c

ApplyStartConfig(c, p) ==
  LET flags == BypassPermissions(AutoApprove(ExplicitFields(c, p), p), p)
  IN  PinSandbox(CustomKnobs(CanonicalMode(flags, p.mode), p))

-----------------------------------------------------------------------------
\* A disabled_tools name codex does not know fails the start before anything
\* changes; a later failure leaves b.cfg changed.
Start(p) ==
  /\ cfg' = ApplyStartConfig(cfg, p)
  /\ request' = IF SaysNothing(p) THEN request ELSE [kind |-> "start", params |-> p]
  /\ pinned' = disableSandbox
  /\ started' \in {started, TRUE}
  /\ UNCHANGED <<disableSandbox, turn>>

SetPermissionMode(mode) ==
  /\ cfg' = IF mode \in CanonicalModes THEN CanonicalMode(cfg, mode)
            ELSE Override(cfg, mode, Unstated)
  /\ request' = [kind |-> "set", mode |-> mode] /\ pinned' = FALSE
  /\ UNCHANGED <<disableSandbox, started, turn>>

\* turn/start, after a start, for a message or for a resume.
StartTurn ==
  /\ started
  /\ turn' = cfg
  /\ UNCHANGED <<disableSandbox, cfg, started, request, pinned>>

Next ==
  \/ \E p \in StartParams : Start(p)
  \/ \E mode \in CanonicalModes \cup Approvals : SetPermissionMode(mode)
  \/ StartTurn

Spec == Init /\ [][Next]_vars

-----------------------------------------------------------------------------
Gated == {"ask", "plan"}

\* The mode the last request stated, if it did.
StatedMode ==
  CASE request.kind = "start" -> request.params.mode
    [] request.kind = "set"   -> request.mode
    [] OTHER                  -> Unstated

\* The last request is a start that carries bypass_permissions beside its mode.  One
\* comment says that the mode wins, another that bypass_permissions does.
BypassToo == request.kind = "start" /\ request.params.bypassPermissions

\* "... nothing on the per-session level should be able to override the user's mode
\* choice silently": a turn started while a gated mode is the last thing said
\* asks for approval, and runs in that mode's sandbox unless the host pinned another
\* since, whatever explicit field or auto_approve came with the mode, whatever starts
\* without a word on it followed and whatever the session ran with before.  The pin
\* lasts from a start to the next change of mode, which does not renew it.
ModeDecides ==
  [][StartTurn /\ StatedMode \in Gated /\ ~BypassToo =>
       /\ turn'.approval = "on-request"
       /\ turn'.sandbox = CASE pinned -> "danger-full-access"
                            [] ~pinned /\ StatedMode = "plan" -> "read-only"
                            [] ~pinned /\ StatedMode = "ask" -> "workspace-write"]_vars

\* The session stops asking only when the request at hand asks for that: a start
\* or a mode that leaves it open does not.
NeverIsAsked ==
  [][cfg'.approval = "never" /\ cfg.approval # "never" =>
       \/ /\ request'.kind = "start"
          /\ LET p == request'.params IN
               \/ p.mode \in {"bypass", "never"} \/ p.custom.approval = "never"
               \/ p.autoApprove = "yes" \/ p.bypassPermissions
       \/ request'.kind = "set" /\ request'.mode \in {"bypass", "never"}]_vars

=============================================================================
