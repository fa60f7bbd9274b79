----------------------------- MODULE TurnBudget -----------------------------
(***************************************************************************)
(* exoclaw-turn-budget: one tracker, the BudgetWrapper that consults it at *)
(* every model call, and the policy that resets a turn's tracker.          *)
(*                                                                         *)
(* Several sessions share the wrapper.  A call awaits the provider between *)
(* its look at the tracker and its record, so other calls, a reset by      *)
(* another session's turn and midnight come in between.  The daily tracker *)
(* saves itself after every change and is restored when the process starts *)
(* again.  Amounts of tokens are small numbers; thresholds are per cents.  *)
(***************************************************************************)
EXTENDS Integers, FiniteSets, FiniteSetsExt

CONSTANTS
  Chats,        \* sessions that share the tracker
  Limit,        \* token_budget or daily_budget
  Iterations,   \* iteration_budget of a turn
  Thresholds,   \* warning_thresholds, in per cent
  StripAt,      \* tool_strip_threshold, in per cent
  Usages,       \* what a call may use: [total, cached]
  CachedShare,  \* 1 / cached_token_weight
  MaxTokens, MaxDays, MaxRestarts  \* bounds

ASSUME BudgetAssumption ==
  /\ IsFiniteSet(Chats) /\ Limit \in Nat \ {0} /\ Iterations \in Nat \ {0}
  /\ Thresholds \subseteq 1..100 /\ StripAt \in 1..100
  /\ IsFiniteSet(Usages) /\ Usages # {}
  /\ \A u \in Usages : u.total \in Nat /\ u.cached \in 0..u.total
  /\ CachedShare \in Nat \ {0}
  /\ MaxTokens \in Nat /\ MaxDays \in Nat /\ MaxRestarts \in Nat

VARIABLES
  kind, enforcement,  \* the configuration: "turn" or "daily", and Enforcement
  tracker,            \* the tracker's counters
  store,              \* what BudgetStateStore holds
  today,
  hook,               \* the wrapper's _limit_hook_fired and _prev_at_limit
  chat,               \* the sessions' loops
  \* what an observer has seen
  shown,              \* thresholds surfaced since the tracker was last reset
  fires,              \* calls of on_limit_reached since then, by this process
  spell,              \* the calls begun since then, see Spells
  restarts

budgetVars == <<kind, enforcement, tracker, store, today, hook, chat, shown, fires, spell, restarts>>

Fresh(day) == [day |-> day, tokens |-> 0, seen |-> 0, warned |-> {}, pending |-> TRUE]

Idle == [at |-> "idle", limit |-> FALSE, model |-> "primary", tools |-> TRUE]

\* Since the tracker was last reset: has a call begun below the limit, has one
\* begun at it, was the hook's flag set then, and had the call before begun at
\* the limit.
Spells == [below : BOOLEAN, at : BOOLEAN, muted : BOOLEAN, seen : BOOLEAN]
FirstSpell == [below |-> FALSE, at |-> FALSE, muted |-> FALSE, seen |-> FALSE]

BudgetTypeOK ==
  /\ kind \in {"turn", "daily"} /\ enforcement \in {"observe", "warn", "cutoff", "fallback"}
  /\ tracker \in [day : 0..MaxDays, tokens : Nat, seen : Nat,
                  warned : SUBSET Thresholds, pending : BOOLEAN]
  /\ store \in [day : 0..MaxDays, tokens : Nat, seen : Nat,
                warned : SUBSET Thresholds, pending : BOOLEAN]
  /\ today \in 0..MaxDays
  /\ hook \in [fired : BOOLEAN, prev : BOOLEAN]
  /\ chat \in [Chats -> [at : {"idle", "ready", "calling", "between"}, limit : BOOLEAN,
                         model : {"primary", "fallback"}, tools : BOOLEAN]]
  /\ shown \subseteq Thresholds /\ shown \subseteq tracker.warned
  /\ fires \in Nat /\ spell \in Spells /\ restarts \in 0..MaxRestarts

BudgetInit ==
  /\ kind \in {"turn", "daily"} /\ enforcement \in {"observe", "warn", "cutoff", "fallback"}
  /\ tracker = Fresh(0) /\ store = Fresh(0) /\ today = 0
  /\ hook = [fired |-> FALSE, prev |-> FALSE]
  /\ chat = [c \in Chats |-> Idle]
  /\ shown = {} /\ fires = 0 /\ spell = FirstSpell /\ restarts = 0

-----------------------------------------------------------------------------
(* The tracker *)

\* _coerce_total_tokens: cached tokens are charged at their weight.
Chargeable(u) == u.total - (u.cached - u.cached \div CachedShare)

\* (Seeded bug: the limit itself is still within the budget.)
PastLimit(t) == t.tokens > Limit \/ (kind = "turn" /\ t.seen > Iterations)

\* is_at_limit
AtLimit(t) == t.tokens >= Limit \/ (kind = "turn" /\ t.seen >= Iterations)

\* utilization() >= percent / 100, on either axis.
Reaches(t, percent) ==
  \/ t.tokens * 100 >= percent * Limit
  \/ kind = "turn" /\ t.seen * 100 >= percent * Iterations

\* consume_threshold_warning surfaces the highest threshold that is crossed and
\* new, if any; force asks for it at the limit too.
Due(t, force) ==
  IF ~force /\ AtLimit(t) THEN {}
  ELSE LET new == {p \in Thresholds \ t.warned : Reaches(t, p)}
       IN IF new = {} THEN {} ELSE {Max(new)}

\* (Seeded bug: the thresholds below it are not marked.)
WarnedItOnly(t, due) == [t EXCEPT !.warned = @ \cup due]

\* It and every threshold below it count as surfaced.
Warned(t, due) ==
  [t EXCEPT !.warned = @ \cup {p \in Thresholds : \E d \in due : p <= d}]

\* record.  A daily tracker counts its primary models only.
Recorded(t, u, model) ==
  IF kind = "turn"
  THEN [t EXCEPT !.seen = @ + 1, !.tokens = @ + Chargeable(u)]
  ELSE IF model = "primary" THEN [t EXCEPT !.tokens = @ + Chargeable(u)] ELSE t

\* (Seeded bug: only what record changes is saved.)
PersistTokens(t) ==
  store' = IF kind = "daily" THEN [store EXCEPT !.day = t.day, !.tokens = t.tokens] ELSE store

\* _persist, which a daily tracker does after every change.
Persist(t) == store' = IF kind = "daily" THEN t ELSE store

\* maybe_auto_reset: a new day, for a daily tracker.
AutoReset(t) == IF kind = "daily" /\ t.day # today THEN Fresh(today) ELSE t

\* _restore: state of another day is dropped.
Restored == IF kind = "daily" /\ store.day = today THEN store ELSE Fresh(today)

-----------------------------------------------------------------------------
(* The observer of the limit's hook *)

\* The flag is still that of an earlier crossing: it is cleared by a call that
\* begins below the limit after one that began at it.
Silenced == spell.muted /\ ~(spell.seen /\ spell.below)

\* The call that began last began at the limit.
SawLimit == spell.at \/ (spell.seen /\ ~spell.below)

\* The tracker is reset.
NextSpell == [FirstSpell EXCEPT !.muted = fires # 0 \/ Silenced, !.seen = SawLimit]

-----------------------------------------------------------------------------
(* The loop *)

\* should_continue(0): every turn of every session resets the turn tracker.
StartTurn(c) ==
  /\ chat[c].at = "idle"
  /\ chat' = [chat EXCEPT ![c].at = "ready"]
  /\ IF kind = "turn"
     THEN tracker' = Fresh(0) /\ shown' = {} /\ fires' = 0 /\ spell' = NextSpell
     ELSE UNCHANGED <<tracker, shown, fires, spell>>
  /\ UNCHANGED <<kind, enforcement, store, today, hook, restarts>>

\* should_continue(n): a cut off turn ends.
Continue(c) ==
  /\ chat[c].at = "between"
  /\ chat' = [chat EXCEPT ![c] =
                 IF kind = "turn" /\ enforcement = "cutoff" /\ AtLimit(tracker)
                 THEN Idle ELSE [Idle EXCEPT !.at = "ready"]]
  /\ UNCHANGED <<kind, enforcement, tracker, store, today, hook, shown, fires, spell, restarts>>

\* (Seeded bug: the flag is kept only if the call before began at the limit.)
ReArmedByPrev(limit) == hook.fired /\ hook.prev

\* The flag is cleared when the call before saw the limit and this one does not.
ReArmed(limit) == hook.fired /\ ~(hook.prev /\ ~limit)

\* The first half of chat(), up to the provider.
CallBegins(c) ==
  LET t == AutoReset(tracker)
      limit == AtLimit(t)
      refused == limit /\ enforcement = "cutoff"
      due == Due(t, refused)
      told == [Warned(t, due) EXCEPT !.pending = @ /\ ~(limit /\ enforcement = "warn")]
      fires0 == IF t = tracker THEN fires ELSE 0
      spell0 == IF t = tracker THEN spell ELSE NextSpell
      fire == limit /\ ~ReArmed(limit)
  IN /\ chat[c].at = "ready"
     /\ t.tokens < MaxTokens /\ t.seen < MaxTokens
     /\ tracker' = told
     /\ IF told = tracker THEN UNCHANGED store ELSE Persist(told)
     /\ shown' = (IF t = tracker THEN shown ELSE {}) \cup due
     /\ hook' = [fired |-> ReArmed(limit) \/ limit, prev |-> limit]
     /\ fires' = IF fire THEN fires0 + 1 ELSE fires0
     /\ spell' = [spell0 EXCEPT !.below = @ \/ ~limit, !.at = @ \/ limit]
     /\ chat' = [chat EXCEPT ![c] =
                    IF refused THEN Idle
                    ELSE [at |-> "calling", limit |-> limit,
                          model |-> IF limit /\ enforcement = "fallback"
                                    THEN "fallback" ELSE "primary",
                          tools |-> ~(kind = "turn" /\ Reaches(t, StripAt))]]
     /\ UNCHANGED <<kind, enforcement, today, restarts>>

\* The provider answers: the usage is recorded, whatever day or turn it is now.
\* Without tools the answer is the turn's last.
CallEnds(c) ==
  /\ chat[c].at = "calling"
  /\ \E u \in Usages, more \in BOOLEAN :
        LET t == Recorded(tracker, u, chat[c].model)
            fire == ~chat[c].limit /\ AtLimit(t) /\ ~hook.fired
        IN /\ more => chat[c].tools
           /\ tracker' = t /\ Persist(t)
           /\ hook' = [hook EXCEPT !.fired = @ \/ fire]
           /\ fires' = IF fire THEN fires + 1 ELSE fires
           /\ chat' = [chat EXCEPT ![c] = [Idle EXCEPT !.at = IF more THEN "between" ELSE "idle"]]
  /\ UNCHANGED <<kind, enforcement, today, shown, spell, restarts>>

\* The provider raises: nothing is recorded and the turn ends.
CallFails(c) ==
  /\ chat[c].at = "calling"
  /\ chat' = [chat EXCEPT ![c] = Idle]
  /\ UNCHANGED <<kind, enforcement, tracker, store, today, hook, shown, fires, spell, restarts>>

Midnight ==
  /\ today < MaxDays /\ today' = today + 1
  /\ UNCHANGED <<kind, enforcement, tracker, store, hook, chat, shown, fires, spell, restarts>>

\* The process starts again: the wrapper takes the hook for fired if the warning
\* at the limit was already given.
Restart ==
  LET t == Restored
  IN /\ restarts < MaxRestarts /\ restarts' = restarts + 1
     /\ tracker' = t
     /\ hook' = [fired |-> AtLimit(t) /\ ~t.pending, prev |-> AtLimit(t)]
     /\ chat' = [c \in Chats |-> Idle]
     /\ shown' = IF kind = "daily" /\ store.day = today THEN shown ELSE {}
     /\ fires' = 0
     /\ spell' = [FirstSpell EXCEPT !.muted = AtLimit(t) /\ ~t.pending, !.seen = AtLimit(t)]
     /\ UNCHANGED <<kind, enforcement, store, today>>

BudgetNext ==
  \/ \E c \in Chats : StartTurn(c) \/ Continue(c) \/ CallBegins(c) \/ CallEnds(c) \/ CallFails(c)
  \/ Midnight \/ Restart

BudgetSpec == BudgetInit /\ [][BudgetNext]_budgetVars

-----------------------------------------------------------------------------
(* Properties *)

MaxCharge == Max({Chargeable(u) : u \in Usages})
InFlight == {c \in Chats : chat[c].at = "calling" /\ chat[c].model = "primary"}

\* Sessions check the budget before any of them records: with a refusal or, by
\* day, a fallback at the limit, together they overshoot it by at most one call
\* each, across resets in between.
OvershootBounded ==
  enforcement = "cutoff" \/ (enforcement = "fallback" /\ kind = "daily")
  => tracker.tokens + MaxCharge * Cardinality(InFlight)
        <= Limit - 1 + MaxCharge * Cardinality(Chats)

\* wrapper.py: threshold warnings "fire at most once per crossing", the highest
\* first: none follows an equal or higher one until the tracker is reset, also
\* over a restart within the day.
WarnsUpwards ==
  [][shown \subseteq shown' => \A p \in shown' \ shown, q \in shown : p > q]_budgetVars

\* wrapper.py: on_limit_reached fires "exactly once per crossing": once, however
\* the calls overlap, when a call has begun at the limit, and not at all exactly
\* when the flag of an earlier crossing is still set.  That is so if no call had
\* begun at the limit before the reset (the last record of a turn or day reached
\* it) or none below it after, or if the process before gave the warning.
FiresOnce ==
  /\ fires <= 1
  /\ AtLimit(tracker) /\ spell.at => (fires = 0 <=> Silenced)

\* tracker.py: "a SIGKILL only loses the most recent record": a restart within
\* the day restores the very counters.
RestartRestores ==
  [][restarts' # restarts /\ kind = "daily" /\ tracker.day = today => tracker' = tracker]_budgetVars
=============================================================================
