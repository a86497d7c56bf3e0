----------------------------- MODULE HandleForm -----------------------------
(***************************************************************************)
(* The form in which a user chooses and registers a handle: useFinal.js and  *)
(* index.jsx of internal/explorer.point/src/pages/Final, with                *)
(* IdentityController.isIdentityEligible behind it.                         *)
(*                                                                         *)
(* Every change of the handle cancels the check under way, clears the form   *)
(* and starts the check of the new handle after 700 ms.  The request of a    *)
(* check waits for an authentication token first.  While a registration is   *)
(* under way the text box is disabled, the suggested handles are not.        *)
(***************************************************************************)
EXTENDS Naturals

CONSTANTS Handles,      \* handles the user tries
          NoHandle,     \* an empty or malformed one, or none
          Checks        \* requests for the eligibility of a handle

ASSUME HandleAssumption == NoHandle \notin Handles

Eligibilities == {"free", "tweet", "unavailable"}

VARIABLES
  eligible,    \* what the node and the oracle would say of every handle
  form,        \* identity, eligibility, activationCode, tweetUrl, error as shown
  debounced,   \* the handle whose check is due, or NoHandle
  cancelRef,   \* the check that the next change cancels, or "none"
  check,       \* every check
  registering, \* the registration: where it stands and the values it closes over
  posted       \* history: what has been sent to the node

formVars == <<eligible, form, debounced, cancelRef, check, registering, posted>>

EmptyForm(handle) ==
  [identity |-> handle, eligibility |-> "none", code |-> FALSE,
   url |-> NoHandle, error |-> FALSE]
NoCheck == [at |-> "idle", handle |-> NoHandle, cancelled |-> FALSE]

FormInit ==
  /\ eligible \in [Handles -> Eligibilities]
  /\ form = EmptyForm(NoHandle)
  /\ debounced = NoHandle
  /\ cancelRef = "none"
  /\ check = [c \in Checks |-> NoCheck]
  /\ registering = [at |-> "no", form |-> EmptyForm(NoHandle)]
  /\ posted = {}

-----------------------------------------------------------------------------
(* The handle and its check                                                 *)

\* onChangeHandler: what was asked is cancelled, what was due is not asked, and
\* nothing of the old handle is kept but an error.
OnChange(handle) ==
  /\ check' = [c \in Checks |->
       IF c = cancelRef THEN [check[c] EXCEPT !.cancelled = TRUE] ELSE check[c]]
  /\ debounced' = handle
  /\ form' = [EmptyForm(handle) EXCEPT !.error = form.error \/ handle = NoHandle]
  /\ UNCHANGED <<eligible, cancelRef, registering, posted>>

TypeHandle ==
  /\ registering.at = "no"
  /\ \E handle \in Handles \cup {NoHandle} : OnChange(handle)

\* A suggestion, shown with a handle that needs a tweet, that has been found free.
ChooseSuggestion ==
  /\ form.code
  /\ registering.at # "confirming"
  /\ \E handle \in Handles \ {form.identity} : eligible[handle] = "free" /\ OnChange(handle)

\* Mutant: as CheckHandle, with the cancel token made when the authentication token is there.
CheckHandleLate(c) ==
  /\ debounced # NoHandle
  /\ check[c].at = "idle"
  /\ check' = [check EXCEPT ![c] = [at |-> "token", handle |-> debounced, cancelled |-> FALSE]]
  /\ form' = [form EXCEPT !.error = FALSE]
  /\ debounced' = NoHandle
  /\ UNCHANGED <<eligible, cancelRef, registering, posted>>

\* 700 ms later: the cancel token is made, the authentication token asked for.
CheckHandle(c) ==
  /\ debounced # NoHandle
  /\ check[c].at = "idle"
  /\ check' = [check EXCEPT ![c] = [at |-> "token", handle |-> debounced, cancelled |-> FALSE]]
  /\ cancelRef' = c
  /\ form' = [form EXCEPT !.error = FALSE]
  /\ debounced' = NoHandle
  /\ UNCHANGED <<eligible, registering, posted>>

\* The token is there and the request sent; a cancelled one ends here.
SendCheck(c) ==
  /\ check[c].at = "token"
  /\ check' = [check EXCEPT ![c] = IF check[c].cancelled THEN NoCheck
                                   ELSE [check[c] EXCEPT !.at = "sent"]]
  /\ UNCHANGED <<eligible, form, debounced, cancelRef, registering, posted>>

\* isIdentityEligible answers, or the request fails, or it has been cancelled.
CheckAnswered(c) ==
  /\ check[c].at = "sent"
  /\ check' = [check EXCEPT ![c] = NoCheck]
  /\ LET answer == eligible[check[c].handle]
     IN  form' \in IF check[c].cancelled THEN {form}
                   ELSE {[form EXCEPT !.error = TRUE],
                         [form EXCEPT !.eligibility = answer,
                                      !.error = @ \/ answer = "unavailable",
                                      !.code = @ \/ answer = "tweet"]}
  /\ UNCHANGED <<eligible, debounced, cancelRef, registering, posted>>

\* onChangeUrlHandler: only the address of a tweet of the handle itself is kept.
TypeTweetUrl ==
  /\ form.code /\ ~form.error
  /\ form' = [form EXCEPT !.url = form.identity]
  /\ UNCHANGED <<eligible, debounced, cancelRef, check, registering, posted>>

-----------------------------------------------------------------------------
(* registerHandler                                                          *)

\* The button is there for a free handle, or one with a tweet; the handler works
\* on the values shown when it was pressed.
PressRegister ==
  /\ registering.at = "no"
  /\ form.identity # NoHandle
  /\ form.eligibility \in {"free", "tweet"} /\ ~form.error
  /\ form.code => form.url # NoHandle
  /\ registering' = [at |-> "confirming", form |-> form]
  /\ UNCHANGED <<eligible, form, debounced, cancelRef, check, posted>>

\* "Are you sure": nothing else on the page can be touched meanwhile.
Confirm ==
  /\ registering.at = "confirming"
  /\ \/ registering' = [registering EXCEPT !.at = "token"]
     \/ registering' = [registering EXCEPT !.at = "no"]
  /\ UNCHANGED <<eligible, form, debounced, cancelRef, check, posted>>

PostRegistration ==
  /\ registering.at = "token"
  /\ registering' = [registering EXCEPT !.at = "posted"]
  /\ posted' = posted \cup {registering.form}
  /\ UNCHANGED <<eligible, form, debounced, cancelRef, check>>

\* The node answers: done, and the page is left; a tweet is needed after all, and its
\* code is shown; refused; or the request fails, which shows nothing.  What it says
\* is put into the form as it is now; that of a tweet next to the tweet.
RegistrationAnswered ==
  /\ registering.at = "posted"
  /\ LET withTweet == registering.form.code
     IN  \/ registering' = [registering EXCEPT !.at = "left"] /\ UNCHANGED form
         \/ /\ registering' = [registering EXCEPT !.at = "no"]
            /\ form' \in {form} \cup (IF withTweet THEN {}
                 ELSE {[form EXCEPT !.code = TRUE], [form EXCEPT !.error = TRUE]})
  /\ UNCHANGED <<eligible, debounced, cancelRef, check, posted>>

FormNext ==
  \/ TypeHandle \/ ChooseSuggestion \/ TypeTweetUrl
  \/ \E c \in Checks : CheckHandle(c) \/ SendCheck(c) \/ CheckAnswered(c)
  \/ PressRegister \/ Confirm \/ PostRegistration \/ RegistrationAnswered

FormSpec == FormInit /\ [][FormNext]_formVars

-----------------------------------------------------------------------------
(* What the form shows and what it sends belongs to the handle it names:     *)
(* however slowly tokens and answers come and however fast the user goes on  *)
(* to another handle, no eligibility and no tweet of an earlier one stays or *)
(* arrives.                                                                 *)
ShownIsOfHandle ==
  \A f \in posted \cup {form} :
    /\ f.eligibility # "none" => f.identity # NoHandle /\ f.eligibility = eligible[f.identity]
    /\ f.url # NoHandle => f.url = f.identity

=============================================================================
