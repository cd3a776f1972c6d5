--------------------------------- MODULE Web ---------------------------------
(***************************************************************************)
(* A tab of apps/web: the prospect's wizard at /p/:token, or the firm's    *)
(* console at /app (where /login leads too).  The page runs one handler at *)
(* a time; its calls to the API are served in any order, may fail, and may *)
(* be answered in any order, while the user goes on clicking.              *)
(*                                                                         *)
(* Of the server the model keeps what the page depends on: the selection,  *)
(* the accepted terms, and how many rows each list has.  Messages on the   *)
(* page are left out.  So is sign(): its button is enabled by canSign,     *)
(* which is a computed over plain fields, is read first when step 4 is     *)
(* drawn, and keeps that value.                                            *)
(***************************************************************************)
EXTENDS Naturals, FiniteSets

CONSTANTS
    Options,     \* package options
    Fields,      \* of the form: name, e-mail, signature and consent in the code
    Lists,       \* lists of the console
    Clicks,      \* calls that clicks in the wizard make
    Adds,        \* calls that the add buttons of the console make
    Opening, Theme,   \* the calls made on opening the page
    NoOption, NoArg

Calls == Lists \cup Clicks \cup Adds \cup {Opening, Theme}

ASSUME WebOptions == NoOption \notin Options
ASSUME WebCalls ==
    /\ Lists \cap Clicks = {} /\ Adds \cap (Lists \cup Clicks) = {}
    /\ {Opening, Theme} \cap (Lists \cup Clicks \cup Adds) = {}
    /\ Opening # Theme /\ NoArg \notin Lists \cup Options

VARIABLES
    page, options, hostBranded,   \* what the tab shows: never changes
    call,                         \* the HTTP calls
    brand,                        \* whose colours the page wears
    \* the server
    choice, terms, rows,
    \* the wizard
    view, step, selected, termsAccepted, form,
    canSign,       \* the memo of the computed: "unread", or its value
    overlapped,    \* history: the user went on at step 2 while a selection was under way
    \* the console
    token, booting, saving, section, shown,
    signedOut,     \* history: signed out, and whether a demo login was under way
    stale          \* history: lists whose answers failed or crossed

tab     == <<page, options, hostBranded>>
server  == <<choice, terms, rows>>
wizard  == <<view, step, selected, termsAccepted, form, canSign, overlapped>>
console == <<token, booting, saving, section, shown, signedOut, stale>>
vars    == <<tab, call, brand, server, wizard, console>>

\* value: what the server answered; authorised: sent with an access token.
Call(op, arg, authorised) ==
    [op |-> op, arg |-> arg, authorised |-> authorised, state |-> "sent", value |-> NoArg]

Unsent == [op |-> "none", arg |-> NoArg, authorised |-> FALSE, state |-> "unsent", value |-> NoArg]

Ops == {"none", "context", "load", "select", "terms", "demoLogin", "list", "create"}

UnderWay(c) == call[c].state \in {"sent", "served", "refused"}
Sent(op)    == {c \in Calls : call[c].op = op /\ UnderWay(c)}

-----------------------------------------------------------------------------
(* The tab opens: ThemeService.load, and ngOnInit of the page. *)

Listing(l) == Call("list", l, TRUE)

Init ==
    /\ page \in {"wizard", "console"}
    /\ options \in IF page = "wizard" THEN SUBSET Options \ {{}} ELSE {{}}
    /\ hostBranded \in BOOLEAN
    /\ brand = "plain"
    /\ choice \in options \cup {NoOption} /\ terms = FALSE /\ rows = [l \in Lists |-> 0]
    /\ view = "loading" /\ step = 1 /\ selected = NoOption /\ termsAccepted = FALSE
    /\ form = {} /\ canSign = "unread" /\ overlapped = FALSE
    /\ token \in BOOLEAN /\ (page = "wizard" => ~token)
    /\ booting = ~token
    /\ saving = FALSE /\ section = NoArg
    /\ shown = [l \in Lists |-> 0] /\ signedOut = "no" /\ stale = {}
    /\ call = [c \in Calls |->
         IF c = Theme THEN Call("context", NoArg, FALSE)
         ELSE IF c = Opening /\ page = "wizard" THEN Call("load", NoArg, FALSE)
         ELSE IF c = Opening /\ ~token THEN Call("demoLogin", NoArg, FALSE)
         ELSE IF c \in Lists /\ token THEN Listing(c) ELSE Unsent]

-----------------------------------------------------------------------------
(* The server, and the way there and back. *)

Served(c, value) == call' = [call EXCEPT ![c].state = "served", ![c].value = value]

Serve(c) ==
    /\ call[c].state = "sent"
    /\ LET arg == call[c].arg IN
       \/ call[c].op = "context"   /\ Served(c, NoArg)  /\ UNCHANGED server
       \/ call[c].op = "demoLogin" /\ Served(c, NoArg)  /\ UNCHANGED server
       \/ call[c].op = "load"      /\ Served(c, choice) /\ UNCHANGED server
       \/ call[c].op = "select"    /\ Served(c, NoArg)  /\ choice' = arg  /\ UNCHANGED <<terms, rows>>
       \/ call[c].op = "terms"     /\ Served(c, NoArg)  /\ terms' = TRUE  /\ UNCHANGED <<choice, rows>>
       \/ /\ call[c].op = "list" /\ call[c].authorised
          /\ Served(c, rows[arg]) /\ UNCHANGED server
       \/ /\ call[c].op = "create" /\ call[c].authorised
          /\ Served(c, NoArg) /\ rows' = [rows EXCEPT ![arg] = @ + 1] /\ UNCHANGED <<choice, terms>>
    /\ UNCHANGED <<tab, brand, wizard, console>>

\* The server refuses, or the answer is lost after it did what was asked.
Fail(c) ==
    /\ call[c].state \in {"sent", "served"}
    /\ call' = [call EXCEPT ![c].state = "refused", ![c].value = NoArg]
    /\ UNCHANGED <<tab, brand, server, wizard, console>>

Answered(c) == call' = [call EXCEPT ![c] = [Unsent EXCEPT !.state = "answered"]]

Send(c, what) == call[c].state = "unsent" /\ call' = [call EXCEPT ![c] = what]

-----------------------------------------------------------------------------
(* ThemeService *)

\* Slip: a host without branding puts the default colours back.
AppliedOrPlain == IF hostBranded THEN "host" ELSE "plain"

Applied == IF hostBranded THEN "host" ELSE brand

ContextAnswer(c) ==
    /\ call[c].op = "context"
    /\ \/ call[c].state = "served"  /\ brand' = Applied
       \/ call[c].state = "refused" /\ brand' = brand
    /\ Answered(c)
    /\ UNCHANGED <<tab, server, wizard, console>>

-----------------------------------------------------------------------------
(* ProposalPublicComponent *)

LoadAnswer(c) ==
    /\ call[c].op = "load"
    /\ \/ /\ call[c].state = "served"
          /\ view' = "shown"
          /\ brand' = "proposal"
          /\ selected' = IF call[c].value # NoOption THEN call[c].value
                         ELSE IF Cardinality(options) = 1 THEN CHOOSE o \in options : TRUE
                         ELSE NoOption
       \/ call[c].state = "refused" /\ view' = "broken" /\ UNCHANGED <<brand, selected>>
    /\ Answered(c)
    /\ UNCHANGED <<tab, server, step, termsAccepted, form, canSign, overlapped, console>>

At(s) == page = "wizard" /\ view = "shown" /\ step = s

\* Next on the cover page.
NextFromCover ==
    /\ At(1)
    /\ step' = 2
    /\ UNCHANGED <<tab, call, brand, server, view, selected, termsAccepted, form, canSign,
                   overlapped, console>>

\* Slip: the packages can be clicked on a later page too.
SelectAnywhere(o) ==
    /\ page = "wizard" /\ view = "shown"
    /\ o # selected
    /\ selected' = o
    /\ overlapped' = (overlapped \/ Sent("select") # {})
    /\ UNCHANGED <<tab, call, brand, server, view, step, termsAccepted, form, canSign, console>>

Select(o) ==
    /\ At(2)
    /\ o # selected
    /\ selected' = o
    /\ overlapped' = (overlapped \/ Sent("select") # {})
    /\ UNCHANGED <<tab, call, brand, server, view, step, termsAccepted, form, canSign, console>>

\* The button is not disabled while the call is under way.
ChooseAndNext(c) ==
    /\ At(2)
    /\ selected # NoOption
    /\ Send(c, Call("select", selected, FALSE))
    /\ overlapped' = (overlapped \/ Sent("select") # {})
    /\ UNCHANGED <<tab, brand, server, view, step, selected, termsAccepted, form, canSign, console>>

\* Slip: the page moves on when the call completes, in error or not.
AfterSelectAlways(c) == 3

AfterSelect(c) == IF call[c].state = "served" THEN 3 ELSE step

SelectAnswer(c) ==
    /\ call[c].op = "select"
    /\ call[c].state \in {"served", "refused"}
    /\ step' = AfterSelect(c)
    /\ Answered(c)
    /\ UNCHANGED <<tab, brand, server, view, selected, termsAccepted, form, canSign, overlapped, console>>

TickTerms ==
    /\ At(3)
    /\ termsAccepted' = ~termsAccepted
    /\ UNCHANGED <<tab, call, brand, server, view, step, selected, form, canSign, overlapped, console>>

AcceptAndNext(c) ==
    /\ At(3)
    /\ termsAccepted
    /\ Send(c, Call("terms", NoArg, FALSE))
    /\ UNCHANGED <<tab, brand, server, wizard, console>>

\* Slip: on an error the user starts over with the packages.
AfterTermsBack(c) == IF call[c].state = "served" THEN 4 ELSE 2

\* Slip: the next step, whichever step the page is at by now.
AfterTermsNext(c) == IF call[c].state = "served" THEN step + 1 ELSE step

AfterTerms(c) == IF call[c].state = "served" THEN 4 ELSE step

\* Step 4 is drawn: canSign is computed, if it never was.
TermsAnswer(c) ==
    /\ call[c].op = "terms"
    /\ call[c].state \in {"served", "refused"}
    /\ step' = AfterTerms(c)
    /\ canSign' = IF step' = 4 /\ canSign = "unread"
                  THEN IF form = Fields THEN "yes" ELSE "no" ELSE canSign
    /\ Answered(c)
    /\ UNCHANGED <<tab, brand, server, view, selected, termsAccepted, form, overlapped, console>>

Fill(field) ==
    /\ At(4)
    /\ form' = IF field \in form THEN form \ {field} ELSE form \cup {field}
    /\ UNCHANGED <<tab, call, brand, server, view, step, selected, termsAccepted, canSign,
                   overlapped, console>>

-----------------------------------------------------------------------------
(* DashboardComponent *)

\* boot() asks for every list at once.
DemoLoginAnswer(c) ==
    /\ call[c].op = "demoLogin"
    /\ booting' = FALSE
    /\ \/ /\ call[c].state = "served"
          /\ token' = TRUE
          /\ call' = [d \in Calls |-> IF d \in Lists THEN Listing(d)
                                      ELSE IF d = c THEN [Unsent EXCEPT !.state = "answered"]
                                      ELSE call[d]]
       \/ call[c].state = "refused" /\ Answered(c) /\ UNCHANGED token
    /\ UNCHANGED <<tab, brand, server, wizard, saving, section, shown, signedOut, stale>>

ListAnswer(c) ==
    LET l == call[c].arg IN
    /\ call[c].op = "list"
    /\ \/ /\ call[c].state = "served"
          /\ shown' = [shown EXCEPT ![l] = call[c].value]
          /\ stale' = IF call[c].value < shown[l] THEN stale \cup {l} ELSE stale
       \/ call[c].state = "refused" /\ stale' = stale \cup {l} /\ UNCHANGED shown
    /\ Answered(c)
    /\ UNCHANGED <<tab, brand, server, wizard, token, booting, saving, section, signedOut>>

Go(s) ==
    /\ page = "console" /\ ~booting
    /\ section # s
    /\ section' = s
    /\ UNCHANGED <<tab, call, brand, server, wizard, token, booting, saving, shown, signedOut, stale>>

\* addContact, addDeal, addService: one flag disables the button of each.
Add(c) ==
    /\ page = "console" /\ ~booting
    /\ section \in Lists /\ ~saving
    /\ saving' = TRUE
    /\ Send(c, Call("create", section, token))
    /\ UNCHANGED <<tab, brand, server, wizard, token, booting, section, shown, signedOut, stale>>

\* Slip: the list is not asked for again.
AfterCreateNothing(c) == [Unsent EXCEPT !.state = "answered"]

\* The list is asked for again, with the token of the moment.
AfterCreate(c) == Call("list", call[c].arg, token)

CreateAnswer(c) ==
    /\ call[c].op = "create"
    /\ saving' = FALSE
    /\ \/ /\ call[c].state = "served"
          /\ call' = [call EXCEPT ![c] = AfterCreate(c)]
          /\ UNCHANGED stale
       \/ call[c].state = "refused" /\ Answered(c) /\ stale' = stale \cup {call[c].arg}
    /\ UNCHANGED <<tab, brand, server, wizard, token, booting, section, shown, signedOut>>

\* Slip: only the stored token is removed, not the one in use.
LogoutStorage ==
    /\ page = "console"
    /\ signedOut' = IF Sent("demoLogin") = {} THEN "idle" ELSE "during"
    /\ UNCHANGED <<tab, call, brand, server, wizard, token, booting, saving, section, shown, stale>>

\* The token is dropped; /app is where the tab is already, so nothing reloads.
Logout ==
    /\ page = "console"
    /\ token' = FALSE
    /\ signedOut' = IF Sent("demoLogin") = {} THEN "idle" ELSE "during"
    /\ UNCHANGED <<tab, call, brand, server, wizard, booting, saving, section, shown, stale>>

-----------------------------------------------------------------------------
Next ==
    \/ \E c \in Calls :
          \/ Serve(c) \/ Fail(c) \/ ContextAnswer(c) \/ LoadAnswer(c) \/ SelectAnswer(c)
          \/ TermsAnswer(c) \/ DemoLoginAnswer(c) \/ ListAnswer(c) \/ CreateAnswer(c)
    \/ \E c \in Clicks : ChooseAndNext(c) \/ AcceptAndNext(c)
    \/ \E c \in Adds : Add(c)
    \/ \E o \in options : Select(o)
    \/ \E f \in Fields : Fill(f)
    \/ \E s \in Lists : Go(s)
    \/ NextFromCover \/ TickTerms \/ Logout

Spec == Init /\ [][Next]_vars

-----------------------------------------------------------------------------
(* Properties. *)

\* Page, calls and server are in states the components and the API give them.
TypeOK ==
    /\ page \in {"wizard", "console"} /\ options \subseteq Options /\ hostBranded \in BOOLEAN
    /\ call \in [Calls -> [op : Ops, arg : Lists \cup Options \cup {NoArg}, authorised : BOOLEAN,
                           state : {"unsent", "sent", "served", "refused", "answered"},
                           value : Nat \cup Options \cup {NoOption, NoArg}]]
    /\ brand \in {"plain", "host", "proposal"}
    /\ choice \in Options \cup {NoOption} /\ terms \in BOOLEAN /\ rows \in [Lists -> Nat]
    /\ view \in {"loading", "shown", "broken"} /\ step \in 1 .. 4
    /\ selected \in Options \cup {NoOption} /\ termsAccepted \in BOOLEAN
    /\ form \subseteq Fields /\ canSign \in {"unread", "yes", "no"}
    /\ overlapped \in BOOLEAN
    /\ token \in BOOLEAN /\ booting \in BOOLEAN /\ saving \in BOOLEAN
    /\ section \in Lists \cup {NoArg} /\ shown \in [Lists -> Nat]
    /\ signedOut \in {"no", "idle", "during"} /\ stale \subseteq Lists

\* "Strict ordered prospect wizard": whatever calls fail or are answered late,
\* the page is past the packages only when the server has a selection, and past
\* the terms only when it has their acceptance too.
OrderIsStrict ==
    /\ step >= 3 => choice # NoOption
    /\ step = 4 => terms

\* The package the page highlights is the one that will be signed: once past the
\* packages, page and server agree, unless the user went on choosing while an
\* earlier choice was under way.
SelectionAgrees ==
    step >= 3 /\ ~overlapped => selected = choice

\* The wizard goes back only when an answer to a second click arrives late.
NeverBack == [][step' < step => overlapped]_vars

\* The colours of the proposal stay, in whichever order host and proposal are
\* answered for, on a host that has no colours of its own.
ProposalBrandStays ==
    page = "wizard" /\ view = "shown" /\ ~hostBranded => brand = "proposal"

\* Once no call for a list is under way the console shows what the server has,
\* unless an answer failed, or an older one arrived last.
ShownIsFresh ==
    \A l \in Lists :
       page = "console" /\ l \notin stale /\ (\A c \in Calls : call[c].arg = l => ~UnderWay(c))
          => shown[l] = rows[l]

\* Who signed out stays so, unless a demo login was under way at that moment.
SignedOutStaysOut == signedOut = "idle" => ~token

\* "The prospect-facing signing wizard ... is fully functional": a form that is
\* filled in can be signed.
FilledFormCanBeSigned ==
    step = 4 /\ form = Fields => canSign = "yes"

=============================================================================
