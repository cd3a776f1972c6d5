------------------------------ MODULE WebProofs ------------------------------
(***************************************************************************)
(* Safety of the pages, for any number of options, lists and calls: what   *)
(* the wizard and the console show, whatever calls fail and in whichever   *)
(* order they are answered.                                                *)
(***************************************************************************)
EXTENDS Web, FiniteSetTheorems, TLAPS

\* What a call that is under way says of the page that made it and of the
\* server that answers it.
CallOK(c) ==
    LET k == call[c] IN
    /\ k.op # "none" => UnderWay(c)
    /\ k.op = "load" => c = Opening /\ view = "loading"
    /\ k.op = "load" /\ k.state = "served" => k.value \in Options \cup {NoOption}
    /\ k.op = "select" => k.arg \in Options /\ step >= 2
    /\ k.op = "select" /\ k.state = "served" => choice # NoOption
    /\ k.op = "terms" => step >= 3
    /\ k.op = "terms" /\ k.state = "served" => terms
    /\ k.op \in {"list", "create"} => k.arg \in Lists
    /\ k.op = "list" /\ k.state = "served" => k.value \in Nat /\ k.value <= rows[k.arg]

CallsInv == \A c \in Calls : CallOK(c)

\* The wizard does not leave its first page before it shows the proposal.
CoverInv == view # "shown" => step = 1

Selecting(c) == call[c].op = "select"

\* Unless the user went on while a selection was under way, there is at most
\* one, the page waits for it, and its answer finds the page's own choice.
SelectionInv ==
    ~overlapped =>
       /\ \A c, d \in Calls : Selecting(c) /\ Selecting(d) => c = d
       /\ \A c \in Calls : Selecting(c) =>
             /\ step = 2
             /\ call[c].arg = selected
             /\ call[c].state = "served" => choice = selected
       /\ step >= 3 => selected = choice

\* A call that will bring list l up to date, or be seen to fail: an add that is
\* under way, whose answer asks for the list, or a request for the list that
\* has not been served yet or was served with what the server still has.
Catching(c, l) ==
    /\ call[c].arg = l
    /\ \/ call[c].op = "create"
       \/ call[c].op = "list" /\ (call[c].state = "served" => call[c].value = rows[l])

FreshInv ==
    \A l \in Lists \ stale : shown[l] = rows[l] \/ \E c \in Calls : Catching(c, l)

\* Nobody is logging in behind the back of who signed out.
SignedOutInv == signedOut = "idle" => ~token /\ Sent("demoLogin") = {}

\* The inductive invariant.
WebInv ==
    /\ TypeOK /\ CallsInv /\ CoverInv /\ OrderIsStrict /\ SelectionInv
    /\ ProposalBrandStays /\ FreshInv /\ SignedOutInv

-----------------------------------------------------------------------------
(* What a step does to the calls. *)

Values == Nat \cup Options \cup {NoOption, NoArg}

CallRecords == [op : Ops, arg : Lists \cup Options \cup {NoArg}, authorised : BOOLEAN,
                state : {"unsent", "sent", "served", "refused", "answered"}, value : Values]

LEMMA CallTypes ==
  ASSUME NEW op \in Ops, NEW arg \in Lists \cup Options \cup {NoArg}, NEW authorised \in BOOLEAN
  PROVE  Call(op, arg, authorised) \in CallRecords
  BY DEF Call, CallRecords, Values

\* The server answers.
LEMMA ServedCall ==
  ASSUME TypeOK, NEW c \in Calls, NEW value \in Values, Served(c, value)
  PROVE  /\ call' \in [Calls -> CallRecords]
         /\ call'[c].op = call[c].op /\ call'[c].arg = call[c].arg
         /\ call'[c].state = "served" /\ call'[c].value = value
         /\ \A d \in Calls \ {c} : call'[d] = call[d]
  BY DEF Served, TypeOK, CallRecords, Values

\* The page has seen the answer.
LEMMA AnsweredCall ==
  ASSUME TypeOK, NEW c \in Calls, Answered(c)
  PROVE  /\ call' \in [Calls -> CallRecords]
         /\ call'[c].op = "none" /\ call'[c].arg = NoArg
         /\ call'[c].state = "answered"
         /\ \A d \in Calls \ {c} : call'[d] = call[d]
  BY DEF Answered, Unsent, TypeOK, CallRecords, Values, Ops

\* A call is sent, where none was or in place of one that was answered.
LEMMA SentCall ==
  ASSUME TypeOK, NEW c \in Calls, NEW op \in Ops, NEW arg \in Lists \cup Options \cup {NoArg},
         NEW authorised \in BOOLEAN,
         call' = [call EXCEPT ![c] = Call(op, arg, authorised)]
  PROVE  /\ call' \in [Calls -> CallRecords]
         /\ call'[c].op = op /\ call'[c].arg = arg /\ call'[c].state = "sent"
         /\ \A d \in Calls \ {c} : call'[d] = call[d]
  BY CallTypes DEF Call, TypeOK, CallRecords, Values

-----------------------------------------------------------------------------
(* Each action keeps the invariant. *)

\* What the server did, and what it answered.
LEMMA ServeIs ==
  ASSUME TypeOK, NEW c \in Calls, CallOK(c), Serve(c)
  PROVE  /\ call' \in [Calls -> CallRecords]
         /\ call'[c].op = call[c].op /\ call'[c].arg = call[c].arg
         /\ call[c].state = "sent" /\ call'[c].state = "served"
         /\ \A d \in Calls \ {c} : call'[d] = call[d]
         /\ call[c].op = "load" => call'[c].value = choice
         /\ call[c].op = "list" => call'[c].value = rows[call[c].arg]
         /\ choice' = IF call[c].op = "select" THEN call[c].arg ELSE choice
         /\ terms' = (terms \/ call[c].op = "terms")
         /\ rows' = IF call[c].op = "create" THEN [rows EXCEPT ![call[c].arg] = @ + 1] ELSE rows
  <1>1. choice \in Values /\ NoArg \in Values
        /\ (call[c].op = "list" => rows[call[c].arg] \in Values)
    BY DEF TypeOK, Values, CallOK
  <1>2. CASE call[c].op \notin {"load", "list"}
    <2>1. Served(c, NoArg)
      BY <1>2 DEF Serve
    <2> QED  BY <1>1, <1>2, <2>1, ServedCall DEF Serve, server, TypeOK
  <1>3. CASE call[c].op = "load"
    <2>1. Served(c, choice)
      BY <1>3 DEF Serve
    <2> QED  BY <1>1, <1>3, <2>1, ServedCall DEF Serve, server, TypeOK
  <1>4. CASE call[c].op = "list"
    <2>1. Served(c, rows[call[c].arg])
      BY <1>4 DEF Serve
    <2> QED  BY <1>1, <1>4, <2>1, ServedCall DEF Serve, server, TypeOK
  <1> QED  BY <1>2, <1>3, <1>4

LEMMA ServeKeeps ==
  ASSUME WebInv, NEW c \in Calls, Serve(c)
  PROVE  WebInv'
  <1> USE DEF WebInv
  <1> CallOK(c)
    BY DEF CallsInv
  <1>1. UNCHANGED <<tab, brand, wizard, console>>
    BY DEF Serve
  <1>2. /\ call' \in [Calls -> CallRecords]
        /\ call'[c].op = call[c].op /\ call'[c].arg = call[c].arg
        /\ call[c].state = "sent" /\ call'[c].state = "served"
        /\ \A d \in Calls \ {c} : call'[d] = call[d]
    BY ServeIs
  <1>3. /\ call[c].op = "load" => call'[c].value = choice
        /\ call[c].op = "list" => call'[c].value = rows[call[c].arg]
    BY ServeIs
  <1>4. /\ choice' = IF call[c].op = "select" THEN call[c].arg ELSE choice
        /\ terms' = (terms \/ call[c].op = "terms")
    BY ServeIs
  <1>5. rows' = IF call[c].op = "create" THEN [rows EXCEPT ![call[c].arg] = @ + 1] ELSE rows
    BY ServeIs
  <1>6. /\ choice' \in Options \cup {NoOption} /\ terms' \in BOOLEAN /\ rows' \in [Lists -> Nat]
        /\ \A l \in Lists : rows[l] <= rows'[l]
        /\ choice # NoOption => choice' # NoOption
        /\ terms => terms'
    BY <1>4, <1>5, WebOptions DEF TypeOK, CallOK
  <1> HIDE DEF WebInv
  <1>7. TypeOK'
    BY <1>1, <1>2, <1>6 DEF WebInv, TypeOK, CallRecords, Values, tab, wizard, console
  <1>8. CallsInv'
    <2> SUFFICES ASSUME NEW d \in Calls
                 PROVE  CallOK(d)'
      BY DEF CallsInv
    <2>1. CASE d = c
      BY <2>1, <1>1, <1>2, <1>3, <1>4, <1>5, <1>6, WebOptions
         DEF WebInv, CallOK, TypeOK, UnderWay, wizard
    <2>2. CASE d # c
      <3>1. CallOK(d) /\ call'[d] = call[d]
        BY <1>2, <2>2 DEF WebInv, CallsInv
      <3> QED
        BY <3>1, <1>1, <1>6 DEF WebInv, CallOK, TypeOK, UnderWay, wizard, CallRecords
    <2> QED  BY <2>1, <2>2
  <1>9. CoverInv' /\ ProposalBrandStays' /\ OrderIsStrict'
    BY <1>1, <1>6 DEF WebInv, CoverInv, ProposalBrandStays, OrderIsStrict, tab, wizard
  <1>10. SelectionInv'
    BY <1>1, <1>2, <1>4 DEF WebInv, SelectionInv, Selecting, wizard
  <1>11. FreshInv'
    <2> SUFFICES ASSUME NEW l \in Lists \ stale
                 PROVE  shown[l] = rows'[l] \/ \E d \in Calls : Catching(d, l)'
      BY <1>1 DEF FreshInv, console
    <2>1. CASE call[c].arg = l /\ call[c].op \in {"create", "list"}
      BY <2>1, <1>2, <1>3, <1>5 DEF Catching
    <2>2. CASE ~(call[c].arg = l /\ call[c].op \in {"create", "list"})
      <3>1. rows'[l] = rows[l]
        BY <2>2, <1>5 DEF WebInv, TypeOK, CallOK
      <3>2. \A d \in Calls : Catching(d, l) => Catching(d, l)'
        BY <2>2, <3>1, <1>2 DEF Catching
      <3> QED  BY <3>1, <3>2 DEF WebInv, FreshInv
    <2> QED  BY <2>1, <2>2
  <1>12. SignedOutInv'
    BY <1>1, <1>2 DEF WebInv, SignedOutInv, Sent, UnderWay, console
  <1> QED  BY <1>7, <1>8, <1>9, <1>10, <1>11, <1>12 DEF WebInv

LEMMA FailKeeps ==
  ASSUME WebInv, NEW c \in Calls, Fail(c)
  PROVE  WebInv'
  <1>1. UNCHANGED <<tab, brand, server, wizard, console>>
    BY DEF Fail
  <1>2. /\ call' \in [Calls -> CallRecords]
        /\ call'[c].op = call[c].op /\ call'[c].arg = call[c].arg
        /\ call[c].state \in {"sent", "served"} /\ call'[c].state = "refused"
        /\ \A d \in Calls \ {c} : call'[d] = call[d]
    BY DEF Fail, WebInv, TypeOK, CallRecords, Values
  <1>3. TypeOK'
    BY <1>1, <1>2 DEF WebInv, TypeOK, CallRecords, Values, tab, server, wizard, console
  <1>4. CallsInv'
    BY <1>1, <1>2 DEF WebInv, CallsInv, CallOK, UnderWay, server, wizard
  <1>5. CoverInv' /\ ProposalBrandStays' /\ OrderIsStrict'
    BY <1>1 DEF WebInv, CoverInv, ProposalBrandStays, OrderIsStrict, tab, server, wizard
  <1>6. SelectionInv'
    BY <1>1, <1>2 DEF WebInv, SelectionInv, Selecting, server, wizard
  <1>7. FreshInv'
    BY <1>1, <1>2 DEF WebInv, FreshInv, Catching, server, console
  <1>8. SignedOutInv'
    BY <1>1, <1>2 DEF WebInv, SignedOutInv, Sent, UnderWay, console
  <1> QED  BY <1>3, <1>4, <1>5, <1>6, <1>7, <1>8 DEF WebInv

LEMMA ContextAnswerKeeps ==
  ASSUME WebInv, NEW c \in Calls, ContextAnswer(c)
  PROVE  WebInv'
  <1>1. /\ UNCHANGED <<tab, server, wizard, console>>
        /\ call[c].op = "context"
        /\ brand' \in {"host", brand} /\ (~hostBranded => brand' = brand)
    BY DEF ContextAnswer, Applied
  <1>2. /\ call' \in [Calls -> CallRecords]
        /\ call'[c].op = "none"
        /\ \A d \in Calls \ {c} : call'[d] = call[d]
    BY AnsweredCall DEF ContextAnswer, WebInv
  <1>3. TypeOK'
    BY <1>1, <1>2 DEF WebInv, TypeOK, CallRecords, Values, tab, server, wizard, console
  <1>4. CallsInv'
    BY <1>1, <1>2 DEF WebInv, CallsInv, CallOK, UnderWay, server, wizard
  <1>5. CoverInv' /\ ProposalBrandStays' /\ OrderIsStrict'
    BY <1>1 DEF WebInv, CoverInv, ProposalBrandStays, OrderIsStrict, tab, server, wizard
  <1>6. SelectionInv'
    BY <1>1, <1>2 DEF WebInv, SelectionInv, Selecting, server, wizard
  <1>7. FreshInv'
    BY <1>1, <1>2 DEF WebInv, FreshInv, Catching, server, console
  <1>8. SignedOutInv'
    BY <1>1, <1>2 DEF WebInv, SignedOutInv, Sent, UnderWay, console
  <1> QED  BY <1>3, <1>4, <1>5, <1>6, <1>7, <1>8 DEF WebInv

\* The one option of a proposal that has one.
LEMMA OnlyOption ==
  ASSUME TypeOK, Cardinality(options) = 1
  PROVE  (CHOOSE o \in options : TRUE) \in Options
  <1>1. options # {}
    BY FS_EmptySet
  <1> QED  BY <1>1 DEF TypeOK

LEMMA LoadAnswerKeeps ==
  ASSUME WebInv, NEW c \in Calls, LoadAnswer(c)
  PROVE  WebInv'
  <1>1. /\ UNCHANGED <<tab, server, step, termsAccepted, form, canSign, overlapped, console>>
        /\ call[c].op = "load" /\ c = Opening /\ view = "loading"
        /\ \/ view' = "shown" /\ brand' = "proposal" /\ call[c].state = "served"
           \/ view' = "broken" /\ brand' = brand /\ selected' = selected
    BY DEF LoadAnswer, WebInv, CallsInv, CallOK
  <1>2. /\ call' \in [Calls -> CallRecords]
        /\ call'[c].op = "none"
        /\ \A d \in Calls \ {c} : call'[d] = call[d]
    BY AnsweredCall DEF LoadAnswer, WebInv
  <1>3. selected' \in Options \cup {NoOption}
    BY OnlyOption DEF LoadAnswer, WebInv, TypeOK, CallsInv, CallOK
  <1>4. step = 1
    BY <1>1 DEF WebInv, CoverInv
  <1>5. TypeOK'
    BY <1>1, <1>2, <1>3 DEF WebInv, TypeOK, CallRecords, Values, tab, server, console
  <1>6. CallsInv'
    BY <1>1, <1>2 DEF WebInv, CallsInv, CallOK, UnderWay, server
  <1>7. CoverInv' /\ ProposalBrandStays' /\ OrderIsStrict'
    BY <1>1, <1>4 DEF WebInv, CoverInv, ProposalBrandStays, OrderIsStrict, tab, server
  \* Nothing is being selected on the first page.
  <1>8. SelectionInv'
    BY <1>1, <1>2, <1>4 DEF WebInv, SelectionInv, Selecting, server
  <1>9. FreshInv'
    BY <1>1, <1>2 DEF WebInv, FreshInv, Catching, server, console
  <1>10. SignedOutInv'
    BY <1>1, <1>2 DEF WebInv, SignedOutInv, Sent, UnderWay, console
  <1> QED  BY <1>5, <1>6, <1>7, <1>8, <1>9, <1>10 DEF WebInv

\* Next on the cover, a package chosen, the terms ticked, a field filled: what
\* the user does on the page alone.
LEMMA LocalKeeps ==
  ASSUME WebInv,
         \/ NextFromCover \/ TickTerms
         \/ \E o \in options : Select(o)
         \/ \E f \in Fields : Fill(f)
  PROVE  WebInv'
  <1>1. /\ UNCHANGED <<tab, call, brand, server, view, canSign, console>>
        /\ view = "shown" /\ step' >= step /\ step' \in 1 .. 4
        /\ step' # step => step = 1 /\ step' = 2
        /\ overlapped => overlapped'
        /\ Sent("select") # {} /\ selected' # selected => overlapped'
        /\ step' # 2 => selected' = selected
    <2>1. step \in 1 .. 4 /\ overlapped \in BOOLEAN
      BY DEF WebInv, TypeOK
    <2>2. CASE NextFromCover \/ TickTerms \/ \E f \in Fields : Fill(f)
      BY <2>1, <2>2 DEF NextFromCover, TickTerms, Fill, At
    <2>3. CASE \E o \in options : Select(o)
      <3>1. /\ UNCHANGED <<tab, call, brand, server, view, step, canSign, console>>
            /\ view = "shown" /\ step = 2
        BY <2>3 DEF Select, At
      <3>2. overlapped' = (overlapped \/ Sent("select") # {})
        BY <2>3 DEF Select
      <3>3. (overlapped => overlapped') /\ (Sent("select") # {} => overlapped')
        BY <3>2, ZenonT(10)
      <3> QED  BY <2>1, <3>1, <3>3
    <2> QED  BY <2>2, <2>3
  <1>2. /\ selected' \in Options \cup {NoOption} /\ termsAccepted' \in BOOLEAN
        /\ form' \subseteq Fields /\ overlapped' \in BOOLEAN
    BY DEF NextFromCover, TickTerms, Select, Fill, WebInv, TypeOK
  <1>3. TypeOK'
    BY <1>1, <1>2 DEF WebInv, TypeOK, tab, server, console
  <1>4. CallsInv'
    BY <1>1 DEF WebInv, TypeOK, CallsInv, CallOK, UnderWay, server
  <1>5. CoverInv' /\ ProposalBrandStays' /\ OrderIsStrict'
    BY <1>1 DEF WebInv, TypeOK, CoverInv, ProposalBrandStays, OrderIsStrict, tab, server
  <1>6. SelectionInv'
    <2> SUFFICES ASSUME ~overlapped'
                 PROVE  SelectionInv'
      BY DEF SelectionInv
    <2>1. CASE selected' = selected
      BY <1>1, <2>1 DEF WebInv, TypeOK, CallsInv, CallOK, SelectionInv, Selecting, server
    <2>2. CASE selected' # selected
      <3>1. \A d \in Calls : ~Selecting(d)
        BY <1>1, <2>2 DEF WebInv, CallsInv, CallOK, Selecting, Sent
      <3> QED  BY <1>1, <2>2, <3>1 DEF SelectionInv, Selecting
    <2> QED  BY <2>1, <2>2
  <1>7. FreshInv'
    BY <1>1 DEF WebInv, FreshInv, Catching, server, console
  <1>8. SignedOutInv'
    BY <1>1 DEF WebInv, SignedOutInv, Sent, UnderWay, console
  <1> QED  BY <1>3, <1>4, <1>5, <1>6, <1>7, <1>8 DEF WebInv

LEMMA ChooseKeeps ==
  ASSUME WebInv, NEW c \in Clicks, ChooseAndNext(c)
  PROVE  WebInv'
  <1>1. /\ UNCHANGED <<tab, brand, server, view, step, selected, termsAccepted, form, canSign, console>>
        /\ step = 2 /\ selected \in Options /\ call[c].state = "unsent"
    BY DEF ChooseAndNext, At, Send, WebInv, TypeOK
  <1>2. /\ c \in Calls
        /\ call' \in [Calls -> CallRecords]
        /\ call'[c].op = "select" /\ call'[c].arg = selected /\ call'[c].state = "sent"
        /\ \A d \in Calls \ {c} : call'[d] = call[d]
    BY <1>1, SentCall DEF ChooseAndNext, Send, WebInv, Ops, Calls
  <1>3. /\ overlapped' \in BOOLEAN
        /\ overlapped => overlapped'
        /\ Sent("select") # {} => overlapped'
    <2>1. overlapped' = (overlapped \/ Sent("select") # {})
      BY DEF ChooseAndNext
    <2> QED  BY <2>1, ZenonT(10)
  <1>4. call[c].op = "none"
    BY <1>1, <1>2 DEF WebInv, CallsInv, CallOK, UnderWay
  <1>5. TypeOK'
    BY <1>1, <1>2, <1>3 DEF WebInv, TypeOK, CallRecords, Values, tab, server, console
  <1>6. CallsInv'
    BY <1>1, <1>2 DEF WebInv, CallsInv, CallOK, UnderWay, server
  <1>7. CoverInv' /\ ProposalBrandStays' /\ OrderIsStrict'
    BY <1>1 DEF WebInv, CoverInv, ProposalBrandStays, OrderIsStrict, tab, server
  <1>8. SelectionInv'
    <2> SUFFICES ASSUME ~overlapped'
                 PROVE  SelectionInv'
      BY DEF SelectionInv
    <2>1. \A d \in Calls : ~Selecting(d)
      BY <1>3 DEF WebInv, CallsInv, CallOK, Selecting, Sent
    <2> QED  BY <1>1, <1>2, <2>1 DEF SelectionInv, Selecting
  <1>9. FreshInv'
    BY <1>1, <1>2, <1>4 DEF WebInv, FreshInv, Catching, server, console
  <1>10. SignedOutInv'
    BY <1>1, <1>2 DEF WebInv, SignedOutInv, Sent, UnderWay, console
  <1> QED  BY <1>5, <1>6, <1>7, <1>8, <1>9, <1>10 DEF WebInv

LEMMA SelectAnswerKeeps ==
  ASSUME WebInv, NEW c \in Calls, SelectAnswer(c)
  PROVE  WebInv'
  <1>1. /\ UNCHANGED <<tab, brand, server, view, selected, termsAccepted, form, canSign, overlapped,
                       console>>
        /\ call[c].op = "select" /\ step >= 2
        /\ \/ call[c].state = "served" /\ step' = 3 /\ choice # NoOption
           \/ step' = step
    BY DEF SelectAnswer, AfterSelect, WebInv, CallsInv, CallOK
  <1>2. /\ call' \in [Calls -> CallRecords]
        /\ call'[c].op = "none"
        /\ \A d \in Calls \ {c} : call'[d] = call[d]
    BY AnsweredCall DEF SelectAnswer, WebInv
  <1>3. TypeOK'
    BY <1>1, <1>2 DEF WebInv, TypeOK, CallRecords, Values, tab, server, console
  <1>4. CallsInv'
    BY <1>1, <1>2 DEF WebInv, TypeOK, CallsInv, CallOK, UnderWay, server
  <1>5. CoverInv' /\ ProposalBrandStays' /\ OrderIsStrict'
    BY <1>1 DEF WebInv, CoverInv, ProposalBrandStays, OrderIsStrict, tab, server
  \* The one selection that was under way is the page's own.
  <1>6. SelectionInv'
    BY <1>1, <1>2 DEF WebInv, SelectionInv, Selecting, server
  <1>7. FreshInv'
    BY <1>1, <1>2 DEF WebInv, FreshInv, Catching, server, console
  <1>8. SignedOutInv'
    BY <1>1, <1>2 DEF WebInv, SignedOutInv, Sent, UnderWay, console
  <1> QED  BY <1>3, <1>4, <1>5, <1>6, <1>7, <1>8 DEF WebInv

LEMMA AcceptKeeps ==
  ASSUME WebInv, NEW c \in Clicks, AcceptAndNext(c)
  PROVE  WebInv'
  <1>1. /\ UNCHANGED <<tab, brand, server, wizard, console>>
        /\ step = 3 /\ call[c].state = "unsent"
    BY DEF AcceptAndNext, At, Send
  <1>2. /\ c \in Calls
        /\ call' \in [Calls -> CallRecords]
        /\ call'[c].op = "terms" /\ call'[c].state = "sent"
        /\ \A d \in Calls \ {c} : call'[d] = call[d]
    BY <1>1, SentCall DEF AcceptAndNext, Send, WebInv, Ops, Calls
  <1>3. call[c].op = "none"
    BY <1>1, <1>2 DEF WebInv, CallsInv, CallOK, UnderWay
  <1>4. TypeOK'
    BY <1>1, <1>2 DEF WebInv, TypeOK, CallRecords, Values, tab, server, wizard, console
  <1>5. CallsInv'
    BY <1>1, <1>2 DEF WebInv, CallsInv, CallOK, UnderWay, server, wizard
  <1>6. CoverInv' /\ ProposalBrandStays' /\ OrderIsStrict'
    BY <1>1 DEF WebInv, CoverInv, ProposalBrandStays, OrderIsStrict, tab, server, wizard
  <1>7. SelectionInv'
    BY <1>1, <1>2 DEF WebInv, SelectionInv, Selecting, server, wizard
  <1>8. FreshInv'
    BY <1>1, <1>2, <1>3 DEF WebInv, FreshInv, Catching, server, console
  <1>9. SignedOutInv'
    BY <1>1, <1>2 DEF WebInv, SignedOutInv, Sent, UnderWay, console
  <1> QED  BY <1>4, <1>5, <1>6, <1>7, <1>8, <1>9 DEF WebInv

LEMMA TermsAnswerKeeps ==
  ASSUME WebInv, NEW c \in Calls, TermsAnswer(c)
  PROVE  WebInv'
  <1>1. /\ UNCHANGED <<tab, brand, server, view, selected, termsAccepted, form, overlapped, console>>
        /\ call[c].op = "terms" /\ step >= 3
        /\ \/ call[c].state = "served" /\ step' = 4 /\ terms
           \/ step' = step
        /\ canSign' \in {canSign, "yes", "no"}
    BY DEF TermsAnswer, AfterTerms, WebInv, CallsInv, CallOK
  <1>2. /\ call' \in [Calls -> CallRecords]
        /\ call'[c].op = "none"
        /\ \A d \in Calls \ {c} : call'[d] = call[d]
    BY AnsweredCall DEF TermsAnswer, WebInv
  <1>3. TypeOK'
    BY <1>1, <1>2 DEF WebInv, TypeOK, CallRecords, Values, tab, server, console
  <1>4. CallsInv'
    BY <1>1, <1>2 DEF WebInv, TypeOK, CallsInv, CallOK, UnderWay, server
  <1>5. CoverInv' /\ ProposalBrandStays' /\ OrderIsStrict'
    BY <1>1 DEF WebInv, TypeOK, CoverInv, ProposalBrandStays, OrderIsStrict, tab, server
  <1>6. SelectionInv'
    BY <1>1, <1>2 DEF WebInv, TypeOK, SelectionInv, Selecting, server
  <1>7. FreshInv'
    BY <1>1, <1>2 DEF WebInv, FreshInv, Catching, server, console
  <1>8. SignedOutInv'
    BY <1>1, <1>2 DEF WebInv, SignedOutInv, Sent, UnderWay, console
  <1> QED  BY <1>3, <1>4, <1>5, <1>6, <1>7, <1>8 DEF WebInv

\* Steps of the console leave the wizard's parts alone.
LEMMA ConsoleFrame ==
  ASSUME WebInv, UNCHANGED <<tab, brand, server, wizard>>,
         \A c \in Calls : Selecting(c)' =>
            Selecting(c) /\ call'[c].arg = call[c].arg /\ call'[c].state = call[c].state
  PROVE  CoverInv' /\ OrderIsStrict' /\ SelectionInv' /\ ProposalBrandStays'
  <1>1. CoverInv' /\ OrderIsStrict' /\ ProposalBrandStays'
    BY DEF WebInv, CoverInv, ProposalBrandStays, OrderIsStrict, tab, server, wizard
  <1>2. SelectionInv'
    BY DEF WebInv, SelectionInv, server, wizard
  <1> QED  BY <1>1, <1>2

LEMMA DemoLoginAnswerKeeps ==
  ASSUME WebInv, NEW c \in Calls, DemoLoginAnswer(c)
  PROVE  WebInv'
  <1>1. /\ UNCHANGED <<tab, brand, server, wizard, saving, section, shown, signedOut, stale>>
        /\ call[c].op = "demoLogin" /\ booting' \in BOOLEAN /\ token' \in BOOLEAN
    BY DEF DemoLoginAnswer, WebInv, TypeOK
  <1>2. UnderWay(c)
    BY <1>1 DEF WebInv, CallsInv, CallOK
  <1>3. CASE call[c].state = "served"
    <2>1. call' = [d \in Calls |-> IF d \in Lists THEN Listing(d)
                                    ELSE IF d = c THEN [Unsent EXCEPT !.state = "answered"]
                                    ELSE call[d]]
      BY <1>3 DEF DemoLoginAnswer
    <2>2. /\ call' \in [Calls -> CallRecords]
          /\ \A d \in Lists : call'[d].op = "list" /\ call'[d].arg = d /\ call'[d].state = "sent"
          /\ \A d \in Calls \ Lists : call'[d] = call[d] \/ call'[d].op = "none"
      <3>1. \A d \in Lists : Listing(d) \in CallRecords /\ d \in Calls
        BY CallTypes DEF Listing, Ops, Calls
      <3>2. [Unsent EXCEPT !.state = "answered"] \in CallRecords
            /\ [Unsent EXCEPT !.state = "answered"].op = "none"
        BY DEF Unsent, CallRecords, Ops, Values
      <3>3. \A d \in Lists : Listing(d).op = "list" /\ Listing(d).arg = d /\ Listing(d).state = "sent"
        BY DEF Listing, Call
      <3>4. call \in [Calls -> CallRecords]
        BY DEF WebInv, TypeOK, CallRecords, Values
      <3> HIDE DEF CallRecords
      <3> QED  BY <2>1, <3>1, <3>2, <3>3, <3>4
    <2>3. TypeOK'
      BY <1>1, <2>2 DEF WebInv, TypeOK, CallRecords, Values, tab, server, wizard
    <2>4. CallsInv'
      BY <1>1, <2>2 DEF WebInv, CallsInv, CallOK, UnderWay, server, wizard
    <2>5. CoverInv' /\ OrderIsStrict' /\ SelectionInv' /\ ProposalBrandStays'
      BY <1>1, <2>2, ConsoleFrame DEF Selecting
    \* Every list is asked for.
    <2>6. FreshInv'
      BY <1>1, <2>2 DEF FreshInv, Catching, Calls
    \* Who signed out did so while this login was under way.
    <2>7. SignedOutInv'
      BY <1>1, <1>2 DEF WebInv, SignedOutInv, Sent
    <2> QED  BY <2>3, <2>4, <2>5, <2>6, <2>7 DEF WebInv
  <1>4. CASE call[c].state # "served"
    <2>1. Answered(c) /\ token' = token
      BY <1>4 DEF DemoLoginAnswer
    <2>2. /\ call' \in [Calls -> CallRecords]
          /\ call'[c].op = "none"
          /\ \A d \in Calls \ {c} : call'[d] = call[d]
      BY <2>1, AnsweredCall DEF WebInv
    <2>3. TypeOK'
      BY <1>1, <2>2 DEF WebInv, TypeOK, CallRecords, Values, tab, server, wizard
    <2>4. CallsInv'
      BY <1>1, <2>2 DEF WebInv, CallsInv, CallOK, UnderWay, server, wizard
    <2>5. CoverInv' /\ OrderIsStrict' /\ SelectionInv' /\ ProposalBrandStays'
      BY <1>1, <2>2, ConsoleFrame DEF Selecting
    <2>6. FreshInv'
      BY <1>1, <2>2 DEF WebInv, FreshInv, Catching, server
    <2>7. SignedOutInv'
      BY <1>1, <1>2 DEF WebInv, SignedOutInv, Sent
    <2> QED  BY <2>3, <2>4, <2>5, <2>6, <2>7 DEF WebInv
  <1> QED  BY <1>3, <1>4

LEMMA ListAnswerKeeps ==
  ASSUME WebInv, NEW c \in Calls, ListAnswer(c)
  PROVE  WebInv'
  <1> DEFINE list == call[c].arg
  <1>1. /\ UNCHANGED <<tab, brand, server, wizard, token, booting, saving, section, signedOut>>
        /\ call[c].op = "list" /\ list \in Lists
        /\ stale \subseteq stale' /\ stale' \subseteq stale \cup {list}
        /\ \A l \in Lists \ {list} : shown'[l] = shown[l]
        /\ shown' \in [Lists -> Nat]
    BY DEF ListAnswer, WebInv, TypeOK, CallsInv, CallOK
  <1>2. /\ call' \in [Calls -> CallRecords]
        /\ call'[c].op = "none"
        /\ \A d \in Calls \ {c} : call'[d] = call[d]
    BY AnsweredCall DEF ListAnswer, WebInv
  <1>3. TypeOK'
    BY <1>1, <1>2 DEF WebInv, TypeOK, CallRecords, Values, tab, server, wizard
  <1>4. CallsInv'
    BY <1>1, <1>2 DEF WebInv, CallsInv, CallOK, UnderWay, server, wizard
  <1>5. CoverInv' /\ OrderIsStrict' /\ SelectionInv' /\ ProposalBrandStays'
    BY <1>1, <1>2, ConsoleFrame DEF Selecting
  <1>6. FreshInv'
    <2> SUFFICES ASSUME NEW l \in Lists \ stale'
                 PROVE  shown'[l] = rows[l] \/ \E d \in Calls : Catching(d, l)'
      BY <1>1 DEF FreshInv, server
    <2>1. l \notin stale /\ (shown[l] = rows[l] \/ \E d \in Calls : Catching(d, l))
      BY <1>1 DEF WebInv, FreshInv
    <2>2. CASE l # list
      BY <1>1, <1>2, <2>1, <2>2 DEF Catching, server
    \* The answer is not older than what is shown, nor newer than the server: if
    \* it is not what the server has, another call is on its way.
    <2>3. CASE l = list
      <3>1. /\ shown'[l] = call[c].value /\ call[c].state = "served"
            /\ ~(call[c].value < shown[l])
        BY <1>1, <2>3 DEF ListAnswer, WebInv, TypeOK
      <3>2. call[c].value \in Nat /\ call[c].value <= rows[l] /\ shown[l] \in Nat /\ rows[l] \in Nat
        BY <1>1, <2>3, <3>1 DEF WebInv, TypeOK, CallsInv, CallOK
      <3>3. CASE call[c].value # rows[l]
        <4>1. shown[l] # rows[l]
          BY <3>1, <3>2, <3>3
        <4>2. PICK d \in Calls : Catching(d, l) /\ d # c
          BY <1>1, <2>1, <3>1, <3>3, <4>1 DEF Catching
        <4> QED  BY <1>1, <1>2, <4>2 DEF Catching, server
      <3> QED  BY <3>1, <3>3
    <2> QED  BY <2>2, <2>3
  <1>7. SignedOutInv'
    BY <1>1, <1>2 DEF WebInv, SignedOutInv, Sent, UnderWay
  <1> QED  BY <1>3, <1>4, <1>5, <1>6, <1>7 DEF WebInv

LEMMA GoKeeps ==
  ASSUME WebInv, NEW s \in Lists, Go(s)
  PROVE  WebInv'
  <1>1. UNCHANGED <<tab, call, brand, server, wizard, token, booting, saving, shown, signedOut, stale>>
        /\ section' = s
    BY DEF Go
  <1>2. TypeOK' /\ CallsInv'
    BY <1>1 DEF WebInv, TypeOK, CallsInv, CallOK, UnderWay, tab, server, wizard
  <1>3. CoverInv' /\ OrderIsStrict' /\ SelectionInv' /\ ProposalBrandStays'
    BY <1>1, ConsoleFrame DEF Selecting
  <1>4. FreshInv' /\ SignedOutInv'
    BY <1>1 DEF WebInv, FreshInv, Catching, SignedOutInv, Sent, UnderWay, server
  <1> QED  BY <1>2, <1>3, <1>4 DEF WebInv

LEMMA LogoutKeeps ==
  ASSUME WebInv, Logout
  PROVE  WebInv'
  <1>1. /\ UNCHANGED <<tab, call, brand, server, wizard, booting, saving, section, shown, stale>>
        /\ ~token' /\ token' \in BOOLEAN
        /\ signedOut' = IF Sent("demoLogin") = {} THEN "idle" ELSE "during"
    BY DEF Logout
  <1>2. TypeOK' /\ CallsInv'
    BY <1>1 DEF WebInv, TypeOK, CallsInv, CallOK, UnderWay, tab, server, wizard
  <1>3. CoverInv' /\ OrderIsStrict' /\ SelectionInv' /\ ProposalBrandStays'
    BY <1>1, ConsoleFrame DEF Selecting
  <1>4. FreshInv' /\ SignedOutInv'
    BY <1>1 DEF WebInv, FreshInv, Catching, SignedOutInv, Sent, UnderWay, server
  <1> QED  BY <1>2, <1>3, <1>4 DEF WebInv

LEMMA AddKeeps ==
  ASSUME WebInv, NEW c \in Adds, Add(c)
  PROVE  WebInv'
  <1>1. /\ UNCHANGED <<tab, brand, server, wizard, token, booting, section, shown, signedOut, stale>>
        /\ section \in Lists /\ saving' = TRUE /\ call[c].state = "unsent"
    BY DEF Add, Send
  <1>2. /\ c \in Calls
        /\ call' \in [Calls -> CallRecords]
        /\ call'[c].op = "create" /\ call'[c].arg = section /\ call'[c].state = "sent"
        /\ \A d \in Calls \ {c} : call'[d] = call[d]
    BY <1>1, SentCall DEF Add, Send, WebInv, TypeOK, Ops, Calls
  <1>3. call[c].op = "none"
    BY <1>1, <1>2 DEF WebInv, CallsInv, CallOK, UnderWay
  <1>4. TypeOK'
    BY <1>1, <1>2 DEF WebInv, TypeOK, CallRecords, Values, tab, server, wizard
  <1>5. CallsInv'
    BY <1>1, <1>2 DEF WebInv, CallsInv, CallOK, UnderWay, server, wizard
  <1>6. CoverInv' /\ OrderIsStrict' /\ SelectionInv' /\ ProposalBrandStays'
    BY <1>1, <1>2, ConsoleFrame DEF Selecting
  <1>7. FreshInv'
    BY <1>1, <1>2, <1>3 DEF WebInv, FreshInv, Catching, server
  <1>8. SignedOutInv'
    BY <1>1, <1>2 DEF WebInv, SignedOutInv, Sent, UnderWay
  <1> QED  BY <1>4, <1>5, <1>6, <1>7, <1>8 DEF WebInv

LEMMA CreateAnswerKeeps ==
  ASSUME WebInv, NEW c \in Calls, CreateAnswer(c)
  PROVE  WebInv'
  <1> DEFINE list == call[c].arg
  <1>1. /\ UNCHANGED <<tab, brand, server, wizard, token, booting, section, shown, signedOut>>
        /\ call[c].op = "create" /\ list \in Lists /\ saving' \in BOOLEAN
        /\ stale' \in {stale, stale \cup {list}}
    BY DEF CreateAnswer, WebInv, CallsInv, CallOK
  <1>2. /\ call' \in [Calls -> CallRecords]
        /\ \A d \in Calls \ {c} : call'[d] = call[d]
        /\ \/ /\ call'[c].op = "list" /\ call'[c].arg = list /\ call'[c].state = "sent"
           \/ call'[c].op = "none" /\ list \in stale'
    <2>1. CASE call[c].state = "served"
      BY <1>1, <2>1, SentCall DEF CreateAnswer, AfterCreate, WebInv, TypeOK, Ops
    <2>2. CASE call[c].state # "served"
      BY <1>1, <2>2, AnsweredCall DEF CreateAnswer, WebInv
    <2> QED  BY <2>1, <2>2
  <1>3. TypeOK'
    BY <1>1, <1>2 DEF WebInv, TypeOK, CallRecords, Values, tab, server, wizard
  <1>4. CallsInv'
    BY <1>1, <1>2 DEF WebInv, CallsInv, CallOK, UnderWay, server, wizard
  <1>5. CoverInv' /\ OrderIsStrict' /\ SelectionInv' /\ ProposalBrandStays'
    BY <1>1, <1>2, ConsoleFrame DEF Selecting
  \* The list is asked for again, or is known to be behind.
  <1>6. FreshInv'
    BY <1>1, <1>2 DEF WebInv, FreshInv, Catching, server
  <1>7. SignedOutInv'
    BY <1>1, <1>2 DEF WebInv, SignedOutInv, Sent, UnderWay
  <1> QED  BY <1>3, <1>4, <1>5, <1>6, <1>7 DEF WebInv

-----------------------------------------------------------------------------
LEMMA InitWeb == Init => WebInv
  <1> SUFFICES ASSUME Init
               PROVE  WebInv
    OBVIOUS
  <1>1. /\ call \in [Calls -> CallRecords]
        /\ \A c \in Calls : call[c].op # "none" => call[c].state = "sent"
        /\ \A c \in Calls : call[c].op \in {"none", "context", "load", "demoLogin", "list"}
        /\ \A c \in Calls : call[c].op = "load" => c = Opening
        /\ \A c \in Calls : call[c].op = "list" => call[c].arg \in Lists
    <2>1. \A op \in Ops : Call(op, NoArg, FALSE) \in CallRecords
      BY CallTypes
    <2>2. \A l \in Lists : Listing(l) \in CallRecords
      BY CallTypes DEF Listing, Ops
    <2>3. Unsent \in CallRecords /\ Unsent.op = "none"
      BY DEF Unsent, CallRecords, Ops, Values
    <2>4. {"context", "load", "demoLogin", "list"} \subseteq Ops
      BY DEF Ops
    <2>5. \A c \in Calls :
             \/ call[c] = Call("context", NoArg, FALSE)
             \/ c = Opening /\ call[c] = Call("load", NoArg, FALSE)
             \/ call[c] = Call("demoLogin", NoArg, FALSE)
             \/ c \in Lists /\ call[c] = Listing(c)
             \/ call[c] = Unsent
      BY DEF Init
    <2>6. call = [c \in Calls |-> call[c]]
      BY DEF Init
    <2>7. \A c \in Calls : call[c] \in CallRecords
      BY <2>1, <2>2, <2>3, <2>4, <2>5
    <2> HIDE DEF CallRecords
    <2>8. call \in [Calls -> CallRecords]
      BY <2>6, <2>7
    <2> QED  BY <2>3, <2>5, <2>8 DEF Listing, Call
  <1>2. TypeOK
    <2>1. /\ options \subseteq Options /\ choice \in Options \cup {NoOption}
          /\ rows \in [Lists -> Nat] /\ shown \in [Lists -> Nat] /\ section \in Lists \cup {NoArg}
      BY DEF Init
    <2>2. /\ terms \in BOOLEAN /\ termsAccepted \in BOOLEAN /\ overlapped \in BOOLEAN
          /\ token \in BOOLEAN /\ booting \in BOOLEAN /\ saving \in BOOLEAN /\ hostBranded \in BOOLEAN
      BY DEF Init
    <2>3. /\ page \in {"wizard", "console"} /\ brand = "plain" /\ view = "loading" /\ step = 1
          /\ selected = NoOption /\ form = {} /\ canSign = "unread" /\ signedOut = "no" /\ stale = {}
      BY DEF Init
    <2> QED  BY <1>1, <2>1, <2>2, <2>3 DEF TypeOK, CallRecords, Values
  <1>3. CallsInv
    BY <1>1 DEF Init, CallsInv, CallOK, UnderWay
  <1>4. CoverInv /\ OrderIsStrict /\ ProposalBrandStays
    BY DEF Init, CoverInv, OrderIsStrict, ProposalBrandStays
  <1>5. SelectionInv
    <2>1. step = 1
      BY DEF Init
    <2> QED  BY <1>1, <2>1 DEF SelectionInv, Selecting
  <1>6. FreshInv /\ SignedOutInv
    BY DEF Init, FreshInv, SignedOutInv
  <1> QED  BY <1>2, <1>3, <1>4, <1>5, <1>6 DEF WebInv

LEMMA NextWeb ==
  ASSUME WebInv, [Next]_vars
  PROVE  WebInv'
  <1>1. CASE Next
    BY <1>1, ServeKeeps, FailKeeps, ContextAnswerKeeps, LoadAnswerKeeps, LocalKeeps, ChooseKeeps,
       SelectAnswerKeeps, AcceptKeeps, TermsAnswerKeeps, DemoLoginAnswerKeeps, ListAnswerKeeps,
       GoKeeps, LogoutKeeps, AddKeeps, CreateAnswerKeeps
       DEF Next
  <1>2. CASE UNCHANGED vars
    BY <1>2 DEF vars, tab, server, wizard, console, WebInv, TypeOK, CallsInv, CallOK, UnderWay,
                CoverInv, OrderIsStrict, SelectionInv, Selecting, ProposalBrandStays, FreshInv,
                Catching, SignedOutInv, Sent
  <1> QED  BY <1>1, <1>2

\* Page, calls and server agree as WebInv says, whatever the user clicks and
\* however the calls are answered.
THEOREM WebCorrect == Spec => []WebInv
  BY InitWeb, NextWeb, PTL DEF Spec

\* Page, calls and server keep the states the components and the API give them.
THEOREM WebTypes == Spec => []TypeOK
  <1>1. WebInv => TypeOK
    BY DEF WebInv
  <1> QED  BY <1>1, WebCorrect, PTL

\* chooseAndNext and acceptAndNext move on when the server has answered: no
\* later page of the wizard is reached without what the earlier ones ask for.
THEOREM WizardIsOrdered == Spec => []OrderIsStrict
  <1>1. WebInv => OrderIsStrict
    BY DEF WebInv
  <1> QED  BY <1>1, WebCorrect, PTL

\* The package highlighted is the package selected on the server, unless the
\* user went on choosing during a call (the buttons stay enabled).
THEOREM HighlightedIsSelected == Spec => []SelectionAgrees
  <1>1. WebInv => SelectionAgrees
    BY DEF WebInv, SelectionInv, SelectionAgrees
  <1> QED  BY <1>1, WebCorrect, PTL

\* Only the late answer to a second click takes the wizard back.
THEOREM WizardGoesForward == Spec => NeverBack
  <1>1. ASSUME WebInv, [Next]_vars, step' < step
        PROVE  overlapped
    <2>1. step \in 1 .. 4
      BY <1>1 DEF WebInv, TypeOK
    <2>2. PICK c \in Calls : SelectAnswer(c)
      <3>1. step' # step
        BY <1>1, <2>1
      <3>2. ASSUME NEW c \in Calls
            PROVE  ~(Serve(c) \/ Fail(c) \/ ContextAnswer(c) \/ LoadAnswer(c)
                     \/ DemoLoginAnswer(c) \/ ListAnswer(c) \/ CreateAnswer(c))
        BY <3>1 DEF Serve, Fail, ContextAnswer, LoadAnswer, DemoLoginAnswer, ListAnswer,
                    CreateAnswer, wizard
      <3>3. ASSUME NEW c \in Calls
            PROVE  ~TermsAnswer(c)
        BY <1>1, <2>1 DEF TermsAnswer, AfterTerms
      <3>4. ASSUME NEW c
            PROVE  ~(ChooseAndNext(c) \/ AcceptAndNext(c) \/ Add(c) \/ Select(c) \/ Fill(c) \/ Go(c))
        BY <3>1 DEF ChooseAndNext, AcceptAndNext, Add, Select, Fill, Go, wizard
      <3>5. ~(NextFromCover \/ TickTerms \/ Logout \/ UNCHANGED vars)
        BY <1>1, <2>1 DEF NextFromCover, At, TickTerms, Logout, wizard, vars
      <3> QED  BY <1>1, <3>2, <3>3, <3>4, <3>5 DEF Next
    <2>3. step > 3 /\ Selecting(c)
      BY <1>1, <2>1, <2>2 DEF SelectAnswer, AfterSelect, Selecting
    <2> QED  BY <1>1, <2>2, <2>3 DEF WebInv, SelectionInv
  <1>2. WebInv /\ [Next]_vars => [step' < step => overlapped]_vars
    BY <1>1
  <1> QED  BY <1>2, WebCorrect, PTL DEF Spec, NeverBack

\* ThemeService answers before or after the proposal: its colours stay.
THEOREM ProposalKeepsColours == Spec => []ProposalBrandStays
  <1>1. WebInv => ProposalBrandStays
    BY DEF WebInv
  <1> QED  BY <1>1, WebCorrect, PTL

\* The console's lists catch up with the server: after every add the list is
\* asked for again, and unless an answer failed or was overtaken by an older
\* one, what is shown when nothing is under way is what the server has.
THEOREM ListsCatchUp == Spec => []ShownIsFresh
  <1>1. ASSUME WebInv, NEW l \in Lists, l \notin stale,
               \A c \in Calls : call[c].arg = l => ~UnderWay(c)
        PROVE  shown[l] = rows[l]
    BY <1>1 DEF WebInv, FreshInv, CallsInv, CallOK, Catching
  <1>2. WebInv => ShownIsFresh
    BY <1>1 DEF ShownIsFresh
  <1> QED  BY <1>2, WebCorrect, PTL

\* The token comes back only with the answer to a demo login that was already
\* under way.
THEOREM SignedOutTabs == Spec => []SignedOutStaysOut
  <1>1. WebInv => SignedOutStaysOut
    BY DEF WebInv, SignedOutInv, SignedOutStaysOut
  <1> QED  BY <1>1, WebCorrect, PTL

=============================================================================
