---------------------------- MODULE ModalSession ----------------------------
(***************************************************************************)
(* The modal session in which the user chooses an identity: bid_user.c, the *)
(* WebKit front ends (bid_wk.m, bid_wkmac.m, bid_wkios.m) and the           *)
(* asynchronous entry point of bid_cf.m.                                    *)
(*                                                                          *)
(* One call of BIDAcquireAssertionEx ("sync") or of                         *)
(* BIDAssertionCreateUIWithHandler ("async"), made by the main thread or by *)
(* another one.  The dialog lives on the main thread, and its events happen *)
(* whenever that thread runs its loop: for a call from the main thread only *)
(* inside _runModal or after the call, for a call from another thread at    *)
(* any time.  An access to the session after its release, or through a      *)
(* NULL pointer, ends the behaviour and is kept in the variable fault.      *)
(*                                                                          *)
(* bid_mshtml.cpp, the Windows front end, is not modelled: at this commit   *)
(* it does not compile (its _BIDBrowserGetAssertion assigns to *pAssertion, *)
(* which it does not declare).                                              *)
(***************************************************************************)
EXTENDS Naturals

CONSTANTS Platforms, Apis, Callers, MaxCloses

ModalSessionAssumption ==
    /\ Platforms \subseteq {"mac", "ios", "stub"} /\ Apis \subseteq {"sync", "async"}
    /\ Callers \subseteq {"main", "background"}
    /\ MaxCloses \in Nat \ {0}

VARIABLES
    platform, api, caller,
    pc,          \* where the caller is
    session,     \* the BIDModalSession: "none", "live" or "released"
    own,         \* the caller's pointer to it is not NULL
    bound,       \* the controller's pointer to it is not NULL
    uiContext,   \* its UIContext is set
    dialog,      \* "none", "loading", "shown", "closed" or "gone"
    bidError,    \* of the controller
    source,      \* _rls of the iOS controller: "nil", "added" or "signalled"
    calls,       \* times the completion handler was called
    cc,          \* the error the completion context holds
    identity,    \* "none", "returned" to the caller or "released"
    err,         \* what the call returns
    closes,      \* times the dialog was told to close
    early,       \* the dialog was told to close before _runModal
    fault        \* "none", "released" or "null"

vars == <<platform, api, caller, pc, session, own, bound, uiContext, dialog, bidError,
          source, calls, cc, identity, err, closes, early, fault>>

callerVars == <<platform, api, caller>>
sessionVars == <<session, own, bound, uiContext, calls, cc, identity>>
dialogVars == <<dialog, bidError, source, closes, early>>

Errors == {"INVALID_AUDIENCE", "INTERACT_REQUIRED", "INTERACT_UNAVAILABLE", "NO_MEMORY",
           "INTERACT_FAILURE", "HTTP_ERROR", "INVALID_ASSERTION"}

Init ==
    /\ platform \in Platforms /\ api \in Apis /\ caller \in Callers
    /\ pc = "alloc"
    /\ session = "none" /\ own = FALSE /\ bound = FALSE /\ uiContext = FALSE
    /\ dialog = "none" /\ bidError = "INTERACT_FAILURE" /\ source = "nil"
    /\ calls = 0 /\ cc = "none" /\ identity = "none"
    /\ err = "OK" /\ closes = 0 /\ early = FALSE /\ fault = "none"

-----------------------------------------------------------------------------
\* The session, shared by both threads

\* The identity after the handler: the one of a synchronous call takes it and
\* clears freeIdentity, the other lets it be released.
IdentityAfter(got) ==
    IF ~got THEN identity ELSE IF api = "sync" THEN "returned" ELSE "released"

CompletedUnreleased(e) ==
    /\ calls' = calls + 1
    /\ cc' = e
    /\ identity' = IdentityAfter(e = "OK")
    /\ UNCHANGED <<session, uiContext>>

\* The handler is called with the error e, then the session is released.
Completed(e) ==
    /\ calls' = calls + 1
    /\ cc' = e
    /\ identity' = IdentityAfter(e = "OK")
    /\ session' = "released"
    /\ uiContext' = FALSE

Faults(f) == fault' = f /\ pc' = "fault"

-----------------------------------------------------------------------------
\* The caller

AllocModalSession ==
    /\ pc = "alloc"
    /\ \/ pc' = "begin" /\ session' = "live" /\ own' = TRUE /\ UNCHANGED err
       \/ pc' = "cleanup" /\ err' = "NO_MEMORY" /\ UNCHANGED <<session, own>>
    /\ UNCHANGED <<callerVars, dialogVars, bound, uiContext, calls, cc, identity, fault>>

\* A ticket makes the dialog unnecessary: the handler is called at once.
OwnAfterReauthKept == TRUE

OwnAfterReauth == FALSE

BeginModalSessionReauth ==
    /\ pc = "begin"
    /\ Completed("OK")
    /\ own' = OwnAfterReauth
    /\ pc' = "begun"
    /\ UNCHANGED <<callerVars, dialogVars, bound, err, fault>>

\* No audience, no interaction allowed, or no memory for claims or nonce.
BeginModalSessionFails ==
    /\ pc = "begin"
    /\ \E e \in {"INVALID_AUDIENCE", "INTERACT_REQUIRED", "NO_MEMORY"} : err' = e
    /\ pc' = "cleanup"
    /\ UNCHANGED <<callerVars, sessionVars, dialogVars, fault>>

\* The Mac asks whether the application may show a window; a platform without
\* a front end has the stub.
GetAssertionUnavailable ==
    /\ pc = "begin" /\ platform \in {"mac", "stub"}
    /\ err' = "INTERACT_UNAVAILABLE"
    /\ pc' = "cleanup"
    /\ UNCHANGED <<callerVars, sessionVars, dialogVars, fault>>

\* The controller is made and its getAssertion performed on the main thread,
\* which loads the dialog.
GetAssertion ==
    /\ pc = "begin" /\ platform # "stub"
    /\ bound' = TRUE
    /\ dialog' = "loading"
    /\ pc' = "ui"
    /\ UNCHANGED <<callerVars, session, own, uiContext, bidError, source, calls, cc, identity, err, closes, early, fault>>

SetModalSessionUIContext ==
    /\ pc = "ui"
    /\ IF session = "released" THEN Faults("released") /\ UNCHANGED uiContext
       ELSE uiContext' = TRUE /\ pc' = "begun" /\ UNCHANGED fault
    /\ UNCHANGED <<callerVars, dialogVars, session, own, bound, calls, cc, identity, err>>

\* A synchronous call runs the session unless it is over.
Begun ==
    /\ pc = "begun"
    /\ pc' = IF api = "async" THEN "return" ELSE IF own THEN "run" ELSE "finish"
    /\ UNCHANGED <<callerVars, sessionVars, dialogVars, err, fault>>

GetModalSessionUIContext ==
    /\ pc = "run"
    /\ IF session = "released" THEN Faults("released") ELSE pc' = "modal" /\ UNCHANGED fault
    /\ UNCHANGED <<callerVars, sessionVars, dialogVars, err>>

\* _runModal on the main thread: a dialog that is closed already does not stop
\* the loop that begins now.
RunModal ==
    /\ pc = "modal"
    /\ pc' = "running"
    /\ source' = IF platform = "ios" THEN "added" ELSE source
    /\ UNCHANGED <<callerVars, sessionVars, dialog, bidError, closes, early, err, fault>>

\* The loop has ended: the caller takes the controller's pointer, and the
\* results of the completion context.
Finish ==
    /\ pc = "finish"
    /\ err' = cc
    /\ own' = FALSE
    /\ pc' = "cleanup"
    /\ UNCHANGED <<callerVars, dialogVars, session, bound, uiContext, calls, cc, identity, fault>>

\* Whoever leaves with a pointer to the session releases it.
Cleanup ==
    /\ pc = "cleanup"
    /\ IF ~own THEN pc' = "return" /\ UNCHANGED <<session, own, uiContext, fault>>
       ELSE IF session = "released" THEN Faults("released") /\ UNCHANGED <<session, own, uiContext>>
       ELSE /\ session' = "released" /\ own' = FALSE /\ uiContext' = FALSE
            /\ pc' = "return" /\ UNCHANGED fault
    /\ UNCHANGED <<callerVars, dialogVars, bound, calls, cc, identity, err>>

-----------------------------------------------------------------------------
\* The dialog, on the main thread

\* The main thread is in its loop: the caller's call is in another thread, or
\* runs the loop, or has returned.
MainLoop == pc # "fault" /\ (caller = "background" \/ pc \in {"running", "return"})

DidFinishLoad ==
    /\ MainLoop /\ dialog = "loading"
    /\ dialog' = "shown"
    /\ UNCHANGED <<callerVars, sessionVars, bidError, source, closes, early, pc, err, fault>>

\* _completeModalSession with the error e of the controller: an assertion that
\* cannot be parsed, or no memory for the key, is an error too.  The Mac's loop
\* was stopped before.
CompleteModalSession(e) ==
    IF ~bound THEN Faults("null") /\ UNCHANGED <<session, uiContext, calls, cc, identity, bound>>
    ELSE /\ \E r \in IF e = "OK" THEN {"OK", "INVALID_ASSERTION", "NO_MEMORY"} ELSE {e} :
                Completed(r)
         /\ bound' = FALSE
         /\ pc' = IF platform = "mac" /\ pc = "running" THEN "finish" ELSE pc
         /\ UNCHANGED fault

\* The Mac's window ends the loop itself; on iOS the loop's source is signalled,
\* if there is one, and the dialog stays until the source is performed.
SourceAfterCloseUnsignalled == source

SourceAfterClose == IF source = "added" THEN "signalled" ELSE source

CloseIdentityDialog(e) ==
    /\ bidError' = e
    /\ closes' = closes + 1
    /\ early' = (early \/ (api = "sync" /\ pc # "running") \/ pc \in {"ui", "begun"})
    /\ dialog' = IF platform = "mac" THEN "gone" ELSE "closed"
    /\ source' = IF platform = "ios" THEN SourceAfterClose ELSE source
    /\ CompleteModalSession(e)
    /\ UNCHANGED <<callerVars, own, err>>

IdentityCallback ==
    /\ MainLoop /\ dialog = "shown"
    /\ \E e \in {"OK", "INTERACT_FAILURE"} : CloseIdentityDialog(e)

\* Loading fails, of the page or, later, of something it loads: also after the
\* dialog of iOS was closed and not yet dismissed.
AbortWithError ==
    /\ MainLoop /\ closes < MaxCloses
    /\ dialog \in {"loading", "shown", "closed"}
    /\ \E e \in {"HTTP_ERROR", "INTERACT_FAILURE"} : CloseIdentityDialog(e)

\* The user closes the window, which iOS does not offer.
WindowWillClose ==
    /\ MainLoop /\ dialog = "shown" /\ platform = "mac"
    /\ CloseIdentityDialog(bidError)

DismissIdentityDialogAndStopModal ==
    /\ MainLoop /\ source = "signalled"
    /\ dialog' = "gone"
    /\ source' = "nil"
    /\ pc' = IF pc = "running" THEN "finish" ELSE pc
    /\ UNCHANGED <<callerVars, sessionVars, bidError, closes, early, err, fault>>

-----------------------------------------------------------------------------
Call == AllocModalSession \/ BeginModalSessionReauth \/ BeginModalSessionFails
        \/ GetAssertionUnavailable \/ GetAssertion \/ SetModalSessionUIContext \/ Begun
        \/ GetModalSessionUIContext \/ RunModal \/ Finish \/ Cleanup

User == IdentityCallback \/ AbortWithError \/ WindowWillClose

Next == Call \/ DidFinishLoad \/ User \/ DismissIdentityDialogAndStopModal

\* A thread runs on, the main loop performs its sources, and the user answers
\* or gives up in the end: without that a call waits as long as the dialog.
\* Nothing makes a second close happen.
Answers == DidFinishLoad \/ (closes = 0 /\ User)

Fairness == WF_vars(Call) /\ WF_vars(Answers) /\ WF_vars(DismissIdentityDialogAndStopModal)

Spec == Init /\ [][Next]_vars /\ Fairness

-----------------------------------------------------------------------------
\* The variables keep their types, and the session of _BIDAllocModalSession is
\* neither leaked nor kept: a call that has returned without a dialog on the
\* screen has released it.
TypeOK ==
    /\ platform \in Platforms /\ api \in Apis /\ caller \in Callers
    /\ pc \in {"alloc", "begin", "ui", "begun", "run", "modal", "running", "finish", "cleanup", "return", "fault"}
    /\ session \in {"none", "live", "released"}
    /\ {own, bound, uiContext, early} \subseteq BOOLEAN
    /\ dialog \in {"none", "loading", "shown", "closed", "gone"}
    /\ bidError \in Errors \cup {"OK"} /\ err \in Errors \cup {"OK"}
    /\ cc \in Errors \cup {"OK", "none"}
    /\ source \in {"nil", "added", "signalled"}
    /\ calls \in 0..1 /\ closes \in 0..MaxCloses
    /\ identity \in {"none", "returned", "released"}
    /\ fault \in {"none", "released", "null"}
    /\ pc = "return" /\ session = "live" => dialog \in {"loading", "shown"}

\* The session is used after its release, or completed twice, only in two races
\* of the front ends: a caller that is not the main thread whose dialog closes
\* before _runModal (_BIDSetModalSessionUIContext and
\* _BIDGetModalSessionUIContext then read freed memory), and a load error of the
\* iOS dialog after it was closed (_completeModalSession finds NULL).
FaultOnlyByRace ==
    /\ fault = "released" => caller = "background" /\ early
    /\ fault = "null" => platform = "ios" /\ closes > 1

\* A call that returns has answered once: the handler was called exactly once if
\* the call succeeded without the dialog or the dialog is done, and never if it
\* returns an error of its own; and a synchronous caller has the identity
\* exactly if it is told BID_S_OK, so that nobody else releases it.
AnsweredOnce ==
    pc = "return" =>
        /\ api = "async" => (calls = 1 <=> err = "OK" /\ session = "released")
        /\ api = "sync" => (err = "OK" <=> identity = "returned") /\ (err = "OK" => cc = "OK")
        /\ api = "async" => identity # "returned"

\* The call is over, or a race of FaultOnlyByRace has stopped it: a dialog closed
\* before _runModal leaves the loop without its wake-up.
Answered == fault # "none" \/ early \/ (pc = "return" /\ (err = "OK" => calls = 1))

\* Every call returns, and the handler of one that succeeds is called, unless one
\* of those races happens.
Completes == <>Answered

\* The dialog is not on the screen any more, or stays there for a known reason:
\* the iOS dialog is dismissed by the source of the loop of _runModal only.
DialogGone ==
    dialog = "gone" \/ fault # "none" \/ early \/ (platform = "ios" /\ api = "async")

\* Once the session is over the dialog goes away, if a loop of _runModal waits
\* for it or the platform is the Mac.
DialogGoes == (calls = 1 /\ dialog # "none") ~> DialogGone
=============================================================================
