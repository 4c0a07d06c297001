------------------------------ MODULE Onboarding ------------------------------
(***************************************************************************)
(* The owner's way to the dashboard on top of Sessions: the login page, the *)
(* five steps of the onboarding wizard with the three transactions its     *)
(* widgets send, the gate of the dashboard, and the flags that the wizard  *)
(* keeps in localStorage.  The transactions outlive the step and the page  *)
(* that began them, and the wallet may change under each of them.          *)
(*                                                                         *)
(* useChainId reports chains of the wagmi configuration only, which is     *)
(* Base Sepolia alone (lib/wagmi.ts:15): no step ever sees another network.*)
(***************************************************************************)
EXTENDS Sessions, FiniteSets

CONSTANTS
  Slots,      \* merchants the rules form has room for
  MaxEvents   \* bound on wallet changes, sign-outs, faults and transactions

\* A rules form: its presets and the text typed over them, slot by slot.
Forms == [1 .. Slots -> {"address", "text", "blank"}]
Selected(form) == {i \in DOMAIN form : form[i] # "blank"}
FormAccepted(form) == Selected(form) # {} /\ \A i \in Selected(form) : form[i] = "address"

\* What POST /v1/manifests makes of it: the body, then the canonical manifest.
MAX_ALLOWED_COUNTERPARTIES == 8
ManifestBody(form) == Selected(form) # {} /\ "text" \notin {form[i] : i \in Selected(form)}
BuildCanonicalManifest(form) ==
  ManifestBody(form) /\ Cardinality(Selected(form)) <= MAX_ALLOWED_COUNTERPARTIES

\* The service refuses no form that the builder sends.
ASSUME OnboardingAssumption ==
  /\ MaxEvents \in Nat
  /\ Slots \in 1 .. MAX_ALLOWED_COUNTERPARTIES
  /\ \A form \in Forms : FormAccepted(form) => BuildCanonicalManifest(form)

Steps == <<"wallet", "network", "policy", "delegate", "firstRun">>
StepIds == {Steps[i] : i \in DOMAIN Steps}
\* Flag k says that the transaction of kind k is confirmed; "firstRun" is marked.
Kinds == {"policy", "approve", "delegate"}
Flags == Kinds \cup {"firstRun"}

VARIABLES
  authenticated, \* of usePrivy
  page,    \* "login", "onboarding" or "dashboard"
  step,    \* ?step= of the wizard ("wallet" on the other pages)
  flags,   \* the flags as the page holds them
  stored,  \* the flags in localStorage, one entry for all accounts
  widget,  \* OwnerSpendApproval: approvalNotified, confirmed, the allowance read
  ops,     \* every transaction the owner began, and where its handler is
  chain,   \* the accounts that each kind of transaction has succeeded for
  contested \* history: the flags set while a handler ran that had not seen them,
            \* or by a handler whose page was gone

wizardVars == <<authenticated, page, step, flags, stored, widget, ops, chain,
                contested>>
vars == <<sessionVars, wizardVars>>

FreshWidget == [notified |-> FALSE, confirmed |-> FALSE, allowance |-> "unread"]

WizardTypeOK ==
  /\ authenticated \in BOOLEAN
  /\ page \in {"login", "onboarding", "dashboard"}
  /\ step \in StepIds
  /\ flags \subseteq Flags
  /\ stored \subseteq Flags
  /\ widget \in [notified : BOOLEAN, confirmed : BOOLEAN, allowance : {"unread", "no", "yes"}]
  /\ ops \in Seq([kind : Kinds, account : Accounts \cup {None}, sender : Accounts \cup {None},
                  seen : SUBSET Flags, pc : {"pin", "sign", "confirm", "done", "failed"},
                  at : {"step", "wizard", "gone"}])
  /\ chain \in [Kinds -> SUBSET Accounts]
  /\ contested \subseteq Kinds

Init ==
  /\ SessionInit
  /\ authenticated = FALSE
  /\ page = "login"
  /\ step = "wallet"
  /\ flags = {}
  /\ stored = {}
  /\ widget = FreshWidget
  /\ ops = <<>>
  /\ chain = [k \in Kinds |-> {}]
  /\ contested = {}

----------------------------------------------------------------------------
(* Progress: useOnboardingProgress.                                        *)

WalletReady == authenticated /\ wallet # None

Unlocked(s, fs) ==
  CASE s = "wallet" -> TRUE
    [] s \in {"network", "policy"} -> WalletReady
    [] s = "delegate" -> "policy" \in fs
    [] s = "firstRun" -> "delegate" \in fs

Complete(s, fs) ==
  Unlocked(s, fs) /\ IF s \in {"wallet", "network"} THEN WalletReady ELSE s \in fs

FirstIncomplete(fs) ==
  LET open == {i \in DOMAIN Steps : Unlocked(Steps[i], fs) /\ ~Complete(Steps[i], fs)}
  IN IF open = {} THEN "firstRun"
     ELSE Steps[CHOOSE i \in open : \A j \in open : i <= j]

FullyConfigured == \A s \in StepIds : Complete(s, flags)

----------------------------------------------------------------------------
(* Pages and steps.                                                        *)

Running(i) == ops[i].pc \in {"pin", "sign", "confirm"}

\* The handlers of a step go on without its widgets, and those of a page
\* without its state.
LeaveStep == [i \in DOMAIN ops |->
  IF ops[i].at = "step" THEN [ops[i] EXCEPT !.at = "wizard"] ELSE ops[i]]
LeaveWizard == [i \in DOMAIN ops |->
  [ops[i] EXCEPT !.at = IF Running(i) THEN "gone" ELSE "wizard"]]

Show(s) ==
  /\ step' = s
  /\ IF s = step THEN UNCHANGED <<ops, widget>>
     ELSE ops' = LeaveStep /\ widget' = FreshWidget

\* useOnboardingFlags, and the first effect of the wizard.
Hydrated == stored

\* A page that mounts reads the flags once; without ?step= the wizard opens at
\* the first incomplete step.
OpenPage(p, s) ==
  /\ page' = p
  /\ step' = s
  /\ flags' = Hydrated
  /\ ops' = LeaveWizard
  /\ widget' = FreshWidget
  /\ UNCHANGED <<authenticated, stored, chain, contested>>

\* Privy's modal, and its sign-out or the end of its session.
Login ==
  /\ ~authenticated
  /\ page = "login" \/ (page = "onboarding" /\ step = "wallet")
  /\ authenticated' = TRUE
  /\ UNCHANGED <<sessionVars, page, step, flags, stored, widget, ops, chain, contested>>
Logout ==
  /\ authenticated
  /\ switches < MaxSwitches
  /\ switches' = switches + 1
  /\ authenticated' = FALSE
  /\ UNCHANGED <<wallet, auth, attempted, flights, server, faults,
                 page, step, flags, stored, widget, ops, chain, contested>>

\* The effects that move the owner on.
LoginRedirect ==
  /\ page = "login"
  /\ WalletReady
  /\ OpenPage("onboarding", FirstIncomplete(stored))
GateRedirect ==
  /\ page = "dashboard"
  /\ ~WalletReady
  /\ OpenPage("login", "wallet")
Advance(from, to, ready) ==
  /\ page = "onboarding"
  /\ step = from
  /\ ready
  /\ Show(to)
  /\ UNCHANGED <<authenticated, page, flags, stored, chain, contested>>
WalletAdvance == Advance("wallet", "network", WalletReady)
NetworkAdvance == Advance("network", "policy", wallet # None)

\* The stepper, and the Continue buttons under the widgets.
Clickable(s) == s # step /\ Unlocked(s, flags)
Select(s) == Advance(step, s, Clickable(s))
Continue ==
  \/ Advance("policy", "delegate", {"policy", "approve"} \subseteq flags)
  \/ Advance("delegate", "firstRun", "delegate" \in flags)

\* A handler of another click is on its way, and will write without this flag.
Unseen(k) ==
  \E i \in DOMAIN ops : Running(i) /\ ops[i].kind # k /\ k \notin ops[i].seen
Contest(k, gone) ==
  contested' = IF gone \/ Unseen(k) THEN contested \cup {k} ELSE contested

\* persistFlags: the entry is written even when the page is gone.
Persist(fs, mounted, w) ==
  /\ stored' = fs
  /\ flags' = IF mounted THEN fs ELSE flags
  /\ widget' = IF "policy" \in flags' THEN w ELSE FreshWidget

MarkSeen ==
  /\ page = "onboarding"
  /\ step = "firstRun"
  /\ stored' = flags \cup {"firstRun"}
  /\ flags' = stored'
  /\ page' = "dashboard"
  /\ step' = "wallet"
  /\ ops' = LeaveWizard
  /\ widget' = FreshWidget
  /\ UNCHANGED <<authenticated, chain, contested>>
EnterDashboard ==
  /\ page = "onboarding"
  /\ FullyConfigured
  /\ OpenPage("dashboard", "wallet")

\* Home, whose one call to action leads to the login page or the dashboard.
GoHome ==
  /\ page = "onboarding"
  /\ OpenPage(IF WalletReady THEN "dashboard" ELSE "login", "wallet")

\* From the dashboard: Resume setup, Rebuild policy and Setup walkthrough.
Resume ==
  /\ page = "dashboard"
  /\ WalletReady
  /\ \/ ~FullyConfigured /\ OpenPage("onboarding", FirstIncomplete(flags))
     \/ OpenPage("onboarding", "policy")
     \/ OpenPage("onboarding", FirstIncomplete(stored))

----------------------------------------------------------------------------
(* Transactions: IntentBuilder, OwnerSpendApproval and AgentDelegate.      *)

Approved == widget.allowance = "yes" \/ widget.confirmed

WidgetShown(k) ==
  /\ page = "onboarding"
  /\ step = IF k = "delegate" THEN "delegate" ELSE "policy"
  /\ k = "approve" => "policy" \in flags

\* The button of a widget whose own run is idle or failed.
ButtonReady(k) ==
  /\ \A i \in DOMAIN ops : ops[i].kind = k /\ ops[i].at = "step" => ops[i].pc = "failed"
  /\ k = "approve" => ~Approved

\* A handler starts from the account and the flags of its render.
Started(k) == [kind |-> k, account |-> wallet, sender |-> None, seen |-> flags,
               pc |-> IF k = "policy" THEN "pin" ELSE "sign", at |-> "step"]
Refused(k) == [kind |-> k, account |-> None, sender |-> None, seen |-> {},
               pc |-> "failed", at |-> "step"]

Begin(k) ==
  /\ WidgetShown(k)
  /\ ButtonReady(k)
  /\ k # "delegate" => wallet # None
  /\ \E form \in Forms :
       LET sent == k = "policy" => FormAccepted(form)
       IN ops' = Append(ops, IF sent THEN Started(k) ELSE Refused(k))
  /\ UNCHANGED <<authenticated, page, step, flags, stored, widget, chain, contested>>

\* A handler that ended holds its closure no longer.
Ended(i, pc) == [ops EXCEPT ![i].pc = pc, ![i].seen = {}, ![i].account = None, ![i].sender = None]
Failing(i) ==
  /\ ops' = Ended(i, "failed")
  /\ UNCHANGED <<authenticated, page, step, flags, stored, widget, contested>>

\* The service pins the manifest, or finds the row of an earlier pin.
Pin(i) ==
  /\ ops[i].pc = "pin"
  /\ ops' = [ops EXCEPT ![i].pc = "sign"]
  /\ UNCHANGED <<authenticated, page, step, flags, stored, widget, chain, contested>>

\* writeContractAsync asks the account that is connected by now.
SignTx(i) ==
  /\ ops[i].pc = "sign"
  /\ IF wallet = None THEN Failing(i)
     ELSE /\ ops' = [ops EXCEPT ![i].pc = "confirm", ![i].sender = wallet]
          /\ UNCHANGED <<authenticated, page, step, flags, stored, widget, contested>>
  /\ UNCHANGED chain

\* commitIntent reverts unless the manifest's owner sends it.
Accepts(i) == ops[i].kind = "policy" => ops[i].sender = ops[i].account

Mine(i) ==
  chain' = IF Accepts(i) THEN [chain EXCEPT ![ops[i].kind] = @ \cup {ops[i].sender}] ELSE chain

AllowanceOf(w) == IF w \in chain'["approve"] THEN "yes" ELSE "no"

\* { ...flags, k: true } over the flags of the render that made the closure.
EarnedAlone(fs, k) == {k}
Earned(fs, k) == fs \cup {k}

\* The allowance is refetched before the handler reports it, so the effect may
\* report it first, from the flags of now; the ref lets one of them through.
ConfirmApproval(i) ==
  LET mounted == ops[i].at = "step"
      read == IF mounted /\ wallet # None THEN AllowanceOf(wallet) ELSE widget.allowance
      w == IF mounted THEN [notified |-> TRUE, confirmed |-> TRUE, allowance |-> read]
           ELSE widget
  IN IF mounted /\ widget.notified
     THEN widget' = w /\ UNCHANGED <<flags, stored>>
     ELSE \E fs \in {ops[i].seen} \cup (IF mounted THEN {flags} ELSE {}) :
            Persist(Earned(fs, "approve"), ops[i].at # "gone", w)

\* waitForTransactionReceipt throws when the transaction reverted.
ThrowsNever(i) == FALSE
Throws(i) == ~Accepts(i)

Confirm(i) ==
  /\ ops[i].pc = "confirm"
  /\ Mine(i)
  /\ IF Throws(i) THEN Failing(i)
     ELSE /\ ops' = Ended(i, "done")
          /\ IF ops[i].kind = "approve" THEN ConfirmApproval(i)
             ELSE Persist(Earned(ops[i].seen, ops[i].kind), ops[i].at # "gone", widget)
          /\ Contest(ops[i].kind, ops[i].at = "gone")
          /\ UNCHANGED <<authenticated, page, step>>

\* The pin fails, the signature is refused (or the call cannot be encoded, for an
\* address with a wrong checksum), or the wait for the receipt gives up before or
\* after the transaction is mined.
Abort(i) ==
  /\ Running(i)
  /\ faults < MaxFaults
  /\ faults' = faults + 1
  /\ Failing(i)
  /\ \/ UNCHANGED chain
     \/ ops[i].pc = "confirm" /\ Mine(i)
  /\ UNCHANGED <<wallet, auth, attempted, flights, server, switches>>

\* useReadContract reads once for each mount and each account (no refetch on focus).
ReadAllowance ==
  /\ WidgetShown("approve")
  /\ wallet # None
  /\ widget.allowance = "unread"
  /\ widget' = [widget EXCEPT !.allowance = IF wallet \in chain["approve"] THEN "yes" ELSE "no"]
  /\ UNCHANGED <<authenticated, page, step, flags, stored, ops, chain, contested>>

\* The effect of OwnerSpendApproval (what it forgets: OfAccount).
NotifyConfirmedOnly == widget.confirmed /\ ~widget.notified
NotifyDue == Approved /\ ~widget.notified
NotifyApproved ==
  /\ WidgetShown("approve")
  /\ NotifyDue
  /\ Persist(Earned(flags, "approve"), TRUE, [widget EXCEPT !.notified = TRUE])
  /\ Contest("approve", FALSE)
  /\ UNCHANGED <<authenticated, page, step, ops, chain>>

----------------------------------------------------------------------------
PageEffects ==
  LoginRedirect \/ GateRedirect \/ WalletAdvance \/ NetworkAdvance
  \/ ReadAllowance \/ NotifyApproved
Handler(i) == Pin(i) \/ SignTx(i) \/ Confirm(i)

\* The wallet changes under the wizard: the allowance of another account is
\* unread, or still in the cache of an earlier read, and without one the effect
\* forgets in the same commit that it reported an approval.
Cached(w) ==
  IF w # None /\ WidgetShown("approve") /\ w \in chain["approve"] THEN {"yes"} ELSE {}
OfAccount(read) ==
  [widget EXCEPT !.allowance = read, !.notified = @ /\ (read = "yes" \/ widget.confirmed)]
SessionStep ==
  /\ SessionNext
  /\ IF wallet' = wallet THEN UNCHANGED widget
     ELSE \E read \in {"unread"} \cup Cached(wallet') : widget' = OfAccount(read)
  /\ UNCHANGED <<authenticated, page, step, flags, stored, ops, chain, contested>>

OwnerStep ==
  \/ \E s \in StepIds : Select(s)
  \/ Continue \/ MarkSeen \/ EnterDashboard \/ GoHome \/ Resume
  \/ \E k \in Kinds : Begin(k)

Next ==
  /\ \/ SessionStep
     \/ Login
     \/ Logout
     \/ \E i \in DOMAIN ops : Abort(i)
     \/ /\ \/ OwnerStep
           \/ PageEffects
           \/ \E i \in DOMAIN ops : Handler(i)
        /\ UNCHANGED sessionVars
  /\ switches' + faults' + Len(ops') <= MaxEvents

\* The wallet, the server and the page's effects go on; an effect runs right
\* after the render that calls for it, so clicks do not put it off for ever.
Fairness ==
  /\ \A f \in Tokens : WF_vars(f \in DOMAIN flights /\ FlightStep(f) /\ UNCHANGED wizardVars)
  /\ WF_vars(PageEffects /\ UNCHANGED sessionVars)
  /\ SF_vars(NetworkAdvance /\ UNCHANGED sessionVars)

Spec == Init /\ [][Next]_vars /\ Fairness

----------------------------------------------------------------------------
(* Properties.                                                             *)

\* Whatever account signs, a flag is never stored or shown before a transaction
\* of its kind succeeded on chain for some account.
FlagsAreEarned ==
  \A k \in Kinds : k \in flags \cup stored => chain[k] # {}

\* Every handler writes the flags of its own click back.  A flag that was
\* confirmed, or that the widget has reported, is missing from localStorage or
\* from the page only if another handler, clicked before, was still to write
\* without it, or if its own handler had lost the page: the overlap of other
\* handlers, reloads, account changes and failures cost no flag.
Reported == {k \in Kinds :
  \/ \E i \in DOMAIN ops : ops[i].pc = "done" /\ ops[i].kind = k
  \/ k = "approve" /\ widget.notified}
ProgressIsKept == Reported \ contested \subseteq stored \cap flags

\* An owner who stays signed in and connected is not left on the login page nor
\* on a step that only waits for the wallet, wherever the stepper leads; and an
\* allowance that the widget reads as granted, even one whose confirmation was
\* lost, ends as the flag that opens the next step, unless the flag is contested.
WizardMovesOn ==
  /\ <>[]WalletReady =>
       []<>(page # "login" /\ (page = "onboarding" => step \notin {"wallet", "network"}))
  /\ <>[]("approve" \notin contested /\ WidgetShown("approve") /\ widget.allowance = "yes") =>
       <>[]("approve" \in flags)
===============================================================================
