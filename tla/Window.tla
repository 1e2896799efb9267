------------------------------- MODULE Window --------------------------------
(***************************************************************************)
(* win32cpp::Window (musikwin/win32cpp/Window.cpp): the process-wide       *)
(* registry sHandleToWindowMap from HWND to Window object, the window      *)
(* procedure StaticWindowProc that every wrapped HWND is subclassed to,    *)
(* the mouse-hover state sLastWindowUnderMouse and mouse capture.          *)
(*                                                                         *)
(* All of it runs on the one GUI thread; the interleavings are those of    *)
(* re-entrancy: a handler that runs inside StaticWindowProc (between its   *)
(* lookup of the HWND and its later uses of the iterator) may create,      *)
(* destroy or capture windows.  The operating system is an actor too: it   *)
(* destroys HWNDs behind the wrapper's back (a parent destroyed, the       *)
(* default procedure handling WM_CLOSE), creates HWNDs that no Window      *)
(* wraps (controls, message boxes), hands out HWND values again after      *)
(* they were freed, and sets the capture for a control's own procedure.    *)
(*                                                                         *)
(* Data is abstract: a message is only its receiver and, for WM_COMMAND,   *)
(* the sending control (lParam); points, flags and signals are left out.   *)
(* A use of a deleted Window object, a NULL Window or an erased iterator   *)
(* is undefined behaviour; the model records it and stops (pc "crashed"). *)
(***************************************************************************)
EXTENDS FiniteSets, Functions, TLC

CONSTANTS
  Win,     \* Window objects of the application
  Hwnd,    \* HWND values the system hands out
  NoWin,   \* a NULL Window*
  NoHwnd   \* a NULL HWND

VARIABLES
  handle,        \* this->windowHandle of each Window
  map,           \* Window::sHandleToWindowMap, a function on its keys
  live,          \* HWNDs that currently exist
  subclassedBy,  \* the Window whose StaticWindowProc an HWND is subclassed to
  lastUnder,     \* sLastWindowUnderMouse
  capture,       \* ::GetCapture()
  frame,         \* the StaticWindowProc call in progress and its iterator
  colored,       \* Windows given a backgroundColor (SetBackgroundColor)
  closed,        \* Windows on which Destroy() was called (Container protocol)
  freed,         \* Windows whose object was deleted
  measure,       \* sMeasureItemHwnd, set by ForceMeasureItem
  tracked,       \* HWNDs with a TME_LEAVE request from TrackMouseEvent pending
  pc,            \* "run", or "crashed" after undefined behaviour
  touched        \* history: the kinds of undefined behaviour met

registry == <<handle, map, live, subclassedBy>>
hover    == <<lastUnder, capture, measure, tracked>>
ub       == <<pc, touched>>
vars == <<registry, hover, frame, colored, closed, freed, ub>>

NoFrame == [h |-> NoHwnd, phase |-> "none", erased |-> FALSE]

\* map.find(h): the Window registered for h, NULL at end().
Lookup(h) == IF h \in DOMAIN map THEN map[h] ELSE NoWin

\* A call through Window pointers S: a NULL or a deleted object is
\* undefined behaviour, after which the GUI thread is taken to be gone.
Deref(S) ==
  LET bad == (IF NoWin \in S THEN {"null"} ELSE {})
             \cup (IF S \cap freed # {} THEN {"freed"} ELSE {})
  IN  IF bad = {} THEN UNCHANGED <<touched, pc>>
      ELSE touched' = touched \cup bad /\ pc' = "crashed"

Init ==
  /\ handle = [w \in Win |-> NoHwnd]
  /\ map = [h \in {} |-> NoWin]
  /\ live = {}
  /\ subclassedBy = [h \in Hwnd |-> NoWin]
  /\ lastUnder = NoWin
  /\ capture = NoHwnd
  /\ frame = NoFrame
  /\ colored = {}
  /\ closed = {}
  /\ freed = {}
  /\ measure = NoHwnd
  /\ tracked = {}
  /\ pc = "run"
  /\ touched = {}

-----------------------------------------------------------------------------
(* The operating system's side of ::DestroyWindow(h): WM_DESTROY reaches   *)
(* StaticWindowProc of a subclassed h (PostWindowProcBase: OnDestroyedBase *)
(* of the registered Window), h ceases to exist, the subclassing goes with *)
(* it and a capture held by h is released.  The registry is not touched.   *)
DestroyHwnd(h) ==
  /\ live' = live \ {h}
  /\ subclassedBy' = [subclassedBy EXCEPT ![h] = NoWin]
  /\ capture' = IF capture = h THEN NoHwnd ELSE capture
  /\ tracked' = tracked \ {h}
  /\ IF subclassedBy[h] # NoWin /\ h \in DOMAIN map
       THEN Deref({map[h]})
       ELSE UNCHANGED <<touched, pc>>

-----------------------------------------------------------------------------
(* Application calls; they run at top level or inside a handler, i.e.      *)
(* while a StaticWindowProc call is in progress.                           *)

\* Window::sHandleToWindowMap[result] = this, then this->windowHandle = result:
\* operator[] overwrites a stale entry for a reused HWND value.
RegisterKeepsEntry(w, h) ==
  map' = map @@ (h :> w) /\ handle' = [handle EXCEPT ![w] = h]

RegisterSwapped(w, h) ==
  map' = (handle[w] :> w) @@ map /\ handle' = [handle EXCEPT ![w] = h]

Register(w, h) ==
  map' = (h :> w) @@ map /\ handle' = [handle EXCEPT ![w] = h]

\* Window::SubclassWindowProc: install StaticWindowProc unless it already is.
SubclassWindowProc(w, h) == subclassedBy' = [subclassedBy EXCEPT ![h] = w]

\* Window::Initialize: throws if already created; Create() returns a fresh
\* HWND (a failed Create throws and changes nothing); the HWND is
\* registered and subclassed.  OnCreatedBase runs no handler of the model.
Initialize(w, h) ==
  /\ pc = "run" /\ w \notin freed
  /\ handle[w] = NoHwnd
  /\ h \notin live
  /\ live' = live \cup {h}
  /\ Register(w, h)
  /\ SubclassWindowProc(w, h)
  /\ closed' = closed \ {w}
  /\ UNCHANGED <<hover, frame, colored, freed, ub>>

\* Window::Destroy: ::DestroyWindow on the stored handle; only when it
\* succeeds is the entry erased (invalidating an iterator on it) and the
\* handle cleared.  sLastWindowUnderMouse is cleared whatever the result.
Destroy(w) ==
  LET h == handle[w] IN
  /\ pc = "run" /\ w \notin freed
  /\ IF h \in live
       THEN /\ DestroyHwnd(h)
            /\ map' = Restrict(map, DOMAIN map \ {h})
            /\ handle' = [handle EXCEPT ![w] = NoHwnd]
            /\ frame' = IF frame.h = h THEN [frame EXCEPT !.erased = TRUE]
                                       ELSE frame
       ELSE UNCHANGED <<registry, capture, tracked, frame, ub>>
  /\ lastUnder' = IF lastUnder = w THEN NoWin ELSE lastUnder
  /\ closed' = closed \cup {w}
  /\ UNCHANGED <<colored, freed, measure>>

\* Window::BeginCapture: ::SetCapture on the handle; it fails on a dead one.
BeginCapture(w) ==
  /\ pc = "run" /\ w \notin freed
  /\ handle[w] # capture
  /\ capture' = IF handle[w] \in live THEN handle[w] ELSE capture
  /\ UNCHANGED <<registry, lastUnder, measure, tracked, frame, colored, closed,
                 freed, ub>>

\* Window::EndCapture: ::ReleaseCapture if this window has the capture.
EndCapture(w) ==
  /\ pc = "run" /\ w \notin freed
  /\ capture = handle[w]
  /\ capture' = NoHwnd
  /\ UNCHANGED <<registry, lastUnder, measure, tracked, frame, colored, closed,
                 freed, ub>>

\* Window::SetBackgroundColor: keep the colour and replace the brush.
SetBackgroundColor(w) ==
  /\ pc = "run" /\ w \notin freed
  /\ colored' = colored \cup {w}
  /\ UNCHANGED <<registry, hover, frame, closed, freed, ub>>

\* delete window (~Window frees the brush only); done at top level, by a
\* Container after it called Destroy().
Delete(w) ==
  /\ pc = "run" /\ frame = NoFrame
  /\ w \in closed \ freed
  /\ freed' = freed \cup {w}
  /\ UNCHANGED <<registry, hover, frame, colored, closed, ub>>

-----------------------------------------------------------------------------
(* Messages.  A message for an HWND reaches StaticWindowProc only if the   *)
(* HWND is subclassed; StaticWindowProc does nothing but DefWindowProc     *)
(* when find() misses.  Posted input is handled at top level.              *)

Wrapped(h) == h \in live /\ subclassedBy[h] # NoWin /\ h \in DOMAIN map

\* StaticWindowProc: find(hwnd) hits; the switch on the message runs first.
\* Handlers run by it may call into the registry (re-entrancy at top level
\* is the frame below), but create, destroy and capture nothing themselves.
Found(h) ==
  /\ pc = "run" /\ frame = NoFrame
  /\ Wrapped(h)
  /\ UNCHANGED <<handle, live, subclassedBy, lastUnder, capture, tracked,
                 colored, closed, freed>>

\* Past the switch: it->second->PreWindowProcBase; the iterator is kept for
\* the WindowProc and PostWindowProcBase calls below (WindowProcStep).
Proceed(h) == frame' = [h |-> h, phase |-> "pre", erased |-> FALSE]

\* sHandleToWindowMap[sender]: operator[] inserts a NULL entry for an
\* unknown HWND and keeps an existing one.
Index(c) == map' = map @@ (c :> NoWin)

\* A message with no case of its own (and WM_THEMECHANGED, which calls
\* it->second->OnThemeChangedBase and breaks): PreWindowProc does nothing.
Dispatch(h) ==
  /\ Found(h) /\ Proceed(h)
  /\ Deref({map[h]})
  /\ UNCHANGED <<map, measure>>

\* WM_ERASEBKGND and WM_PAINT: it->second->OnEraseBackground / OnPaint,
\* then return without PreWindowProcBase.
Paint(h) ==
  /\ Found(h)
  /\ Deref({map[h]})
  /\ UNCHANGED <<map, measure, frame>>

\* WM_DRAWITEM: the item's sender through operator[]; a Window's DrawItem
\* answers and returns, else the message goes on to PreWindowProcBase.
DrawItem(h, c) ==
  LET sender == Lookup(c) IN
  /\ Found(h) /\ Index(c)
  /\ IF sender # NoWin THEN Deref({sender}) /\ UNCHANGED frame
                       ELSE Deref({map[h]}) /\ Proceed(h)
  /\ UNCHANGED measure

\* WM_NOTIFY: hwndFrom's Window, else the receiver's own entry (operator[]
\* on hwnd, found above), gets WindowProc and the case returns.
Notify(h, c) ==
  LET sender == IF Lookup(c) # NoWin THEN Lookup(c) ELSE map[h] IN
  /\ Found(h) /\ Index(c)
  /\ Deref({sender})
  /\ UNCHANGED <<measure, frame>>

\* Window::OnControlColor: the backgroundBrush, created on first use, if a
\* background colour was set, else NULL.
OnControlColor(w) == w \in colored

\* WM_CTLCOLOR*: the control's Window through operator[]; a brush from its
\* OnControlColor is returned at once, else PreWindowProcBase follows.
CtlColor(h, c) ==
  LET sender == Lookup(c) IN
  /\ Found(h) /\ Index(c)
  /\ IF sender # NoWin /\ OnControlColor(sender)
       THEN Deref({sender}) /\ UNCHANGED frame
       ELSE Deref({map[h]} \cup ({sender} \ {NoWin})) /\ Proceed(h)
  /\ UNCHANGED measure

\* WM_COMMAND from control c (NULL for a menu): PreWindowProc looks the
\* sender up with operator[] and calls its WindowProc, whose signals run
\* handlers; it returns 0 without discarding, so WindowProc follows.
Command(h, c) ==
  LET sender == Lookup(c) IN
  /\ Found(h) /\ Proceed(h) /\ Index(c)
  /\ Deref({map[h]} \cup ({sender} \ {NoWin}))
  /\ UNCHANGED measure

\* it->second->WindowProc, then it->second->PostWindowProcBase: each goes
\* through the iterator taken on entry, erased if a handler destroyed h.
CallThroughIterator ==
  IF frame.erased
    THEN touched' = touched \cup {"iterator"} /\ pc' = "crashed"
    ELSE Deref({map[frame.h]})

WindowProcStep ==
  /\ pc = "run" /\ frame.phase = "pre"
  /\ CallThroughIterator
  /\ frame' = [frame EXCEPT !.phase = "proc"]
  /\ UNCHANGED <<registry, hover, colored, closed, freed>>

PostWindowProcStep ==
  /\ pc = "run" /\ frame.phase = "proc"
  /\ CallThroughIterator
  /\ frame' = NoFrame
  /\ UNCHANGED <<registry, hover, colored, closed, freed>>

\* Mouse input goes to the capturing window, else to the window under the
\* cursor; c is what WindowUnderCursor() finds (RealChildWindowFromPoint may
\* name a child that does not receive the input itself).
MouseInput(d) ==
  /\ pc = "run" /\ frame = NoFrame
  /\ Wrapped(d)
  /\ capture # NoHwnd => d = capture

UnderCursor(c) == IF c = NoHwnd THEN NoWin ELSE Lookup(c)

\* Window::OnMouseExitBase clears sLastWindowUnderMouse; OnMouseEnterBase
\* asks for a WM_MOUSELEAVE with TrackMouseEvent unless its HWND holds the
\* capture (a NULL or dead HWND makes the request fail).
OnMouseEnterBase(t) ==
  tracked' = IF handle[t] \in live \ {capture} THEN tracked \cup {handle[t]}
                                                ELSE tracked

\* Window::OnMouseMovedBase of t, called from caller's PostWindowProcBase:
\* if t is not the last Window, OnMouseExitBase of the last one and
\* OnMouseEnterBase of t; then t is recorded as the last Window.
OnMouseMovedBase(caller, t) ==
  LET exited == IF lastUnder \notin {t, NoWin} THEN {lastUnder} ELSE {} IN
  /\ Deref({caller, t} \cup exited)
  /\ IF lastUnder # t THEN OnMouseEnterBase(t) ELSE UNCHANGED tracked
  /\ lastUnder' = t

\* WM_MOUSEMOVE, PostWindowProcBase: stop if an unknown HWND captures;
\* notify the capture's Window, else the Window under the cursor if it
\* differs from the last one, else the last one, if any.
MouseMove(d, c) ==
  LET cap    == Lookup(capture)
      under  == UnderCursor(c)
      target == IF cap # NoWin THEN cap
                ELSE IF under # NoWin /\ under # lastUnder THEN under
                ELSE lastUnder
  IN
  /\ MouseInput(d)
  /\ IF (cap = NoWin /\ capture # NoHwnd) \/ target = NoWin
       THEN Deref({map[d]}) /\ UNCHANGED <<lastUnder, tracked>>
       ELSE OnMouseMovedBase(map[d], target)
  /\ UNCHANGED <<registry, capture, measure, frame, colored, closed, freed>>

\* WM_MOUSELEAVE, posted once for a pending TrackMouseEvent request when
\* the pointer leaves the HWND: OnMouseExitBase if this Window is the last
\* one under the mouse.
MouseLeave(d) ==
  /\ pc = "run" /\ frame = NoFrame
  /\ Wrapped(d) /\ d \in tracked
  /\ tracked' = tracked \ {d}
  /\ Deref({map[d]})
  /\ lastUnder' = IF lastUnder = map[d] THEN NoWin ELSE lastUnder
  /\ UNCHANGED <<registry, capture, measure, frame, colored, closed, freed>>

\* Button messages, DISPATCH_MOUSE_EVENT: the capture's Window, else the
\* last Window under the mouse if WindowIsValid finds it in sAllChildWindows
\* (it is forgotten otherwise), else WindowUnderCursor.  sAllChildWindows is
\* kept by Container, which is not in the sources: membership is a free
\* choice, except that a deleted Window is never a member.
Button(d, c) ==
  \E valid \in BOOLEAN :
    LET last   == IF valid THEN lastUnder ELSE NoWin
        cap    == Lookup(capture)
        target == IF cap # NoWin THEN cap
                  ELSE IF last # NoWin THEN last
                  ELSE UnderCursor(c)
    IN
    /\ MouseInput(d)
    /\ valid => lastUnder \notin freed \cup {NoWin}
    /\ lastUnder' = last
    /\ Deref({map[d]} \cup ({target} \ {NoWin}))
    /\ UNCHANGED <<registry, capture, measure, tracked, frame, colored, closed,
                   freed>>

\* Window::ForceMeasureItem and ::ForceMeasureItem: remember the handle in
\* sMeasureItemHwnd and send it WM_WINDOWPOSCHANGED, upon which an
\* owner-drawn control asks its parent with WM_MEASUREITEM (MeasureItem);
\* a control that is not owner-drawn sends nothing.
ForceMeasureItem(w) ==
  /\ pc = "run" /\ w \notin freed
  /\ handle[w] # NoHwnd
  /\ measure' = handle[w]
  /\ UNCHANGED <<registry, lastUnder, capture, tracked, frame, colored, closed,
                 freed, ub>>

\* WM_MEASUREITEM to h, from an owner-drawn control or menu item: the case in
\* StaticWindowProc takes LastMeasureItemHandle(), which clears it, looks
\* the sender up with operator[] and calls its OnMeasureItem, then falls
\* through to PreWindowProcBase and the rest of StaticWindowProc.
MeasureItem(h) ==
  LET target == measure
      sender == Lookup(target)
  IN
  /\ Found(h) /\ Proceed(h)
  /\ measure' = NoHwnd
  /\ IF target # NoHwnd
       THEN Index(target) /\ Deref({map[h]} \cup ({sender} \ {NoWin}))
       ELSE Deref({map[h]}) /\ UNCHANGED map

-----------------------------------------------------------------------------
(* The operating system and code outside the wrapper.                      *)

\* An HWND destroyed without Window::Destroy: its parent was destroyed, or
\* the default procedure destroyed it on WM_CLOSE.
ExternalDestroy(h) ==
  /\ pc = "run" /\ h \in live
  /\ DestroyHwnd(h)
  /\ UNCHANGED <<handle, map, lastUnder, measure, frame, colored, closed,
                 freed>>

\* An HWND that no Window wraps (a control, a dialog); a freed value may
\* be handed out again.
ForeignCreate(h) ==
  /\ pc = "run" /\ h \notin live
  /\ live' = live \cup {h}
  /\ UNCHANGED <<handle, map, subclassedBy, hover, frame, colored, closed,
                 freed, ub>>

\* A control's own window procedure takes the capture (a button on a
\* click), for itself or for the Window it is wrapped by.
OsCapture(h) ==
  /\ pc = "run" /\ h \in live
  /\ capture' = h
  /\ UNCHANGED <<registry, lastUnder, measure, tracked, frame, colored, closed,
                 freed, ub>>

\* A control that no Window wraps releases its capture; a wrapped one
\* releases it through EndCapture.
OsRelease ==
  /\ pc = "run"
  /\ capture \in live /\ subclassedBy[capture] = NoWin
  /\ capture' = NoHwnd
  /\ UNCHANGED <<registry, lastUnder, measure, tracked, frame, colored, closed,
                 freed, ub>>

App ==
  \/ \E w \in Win, h \in Hwnd : Initialize(w, h)
  \/ \E w \in Win : \/ Destroy(w) \/ BeginCapture(w) \/ EndCapture(w)
                    \/ Delete(w) \/ ForceMeasureItem(w)
                    \/ SetBackgroundColor(w)

Messages ==
  \/ \E h \in Hwnd : Dispatch(h) \/ Paint(h) \/ MouseLeave(h) \/ MeasureItem(h)
  \/ \E h \in Hwnd, c \in live \cup {NoHwnd} :
       Command(h, c) \/ MouseMove(h, c) \/ Button(h, c)
  \/ \E h \in Hwnd, c \in live : DrawItem(h, c) \/ Notify(h, c) \/ CtlColor(h, c)
  \/ WindowProcStep
  \/ PostWindowProcStep

Os ==
  \/ \E h \in Hwnd : ExternalDestroy(h) \/ ForeignCreate(h)
  \/ \E h \in Hwnd : OsCapture(h)
  \/ OsRelease

Next == App \/ Messages \/ Os

Spec == Init /\ [][Next]_vars

-----------------------------------------------------------------------------
(* Properties.                                                             *)

\* Types; the registry keeps a Window only under a real HWND (the NULL key
\* that operator[] creates for a menu WM_COMMAND maps to NULL).
TypeOK ==
  /\ handle \in [Win -> Hwnd \cup {NoHwnd}]
  /\ DOMAIN map \subseteq Hwnd \cup {NoHwnd}
  /\ \A h \in DOMAIN map : map[h] \in IF h = NoHwnd THEN {NoWin}
                                      ELSE Win \cup {NoWin}
  /\ live \subseteq Hwnd
  /\ subclassedBy \in [Hwnd -> Win \cup {NoWin}]
  /\ lastUnder \in Win \cup {NoWin}
  /\ capture \in Hwnd \cup {NoHwnd}
  /\ frame \in [h : Hwnd \cup {NoHwnd}, phase : {"none", "pre", "proc"},
                erased : BOOLEAN]
  /\ colored \subseteq Win /\ closed \subseteq Win /\ freed \subseteq Win
  /\ pc \in {"run", "crashed"}
  /\ touched \subseteq {"null", "freed", "iterator"}
  /\ measure \in Hwnd \cup {NoHwnd}
  /\ tracked \subseteq Hwnd

\* Every live HWND subclassed to StaticWindowProc is registered to the very
\* Window that subclassed it, through HWND reuse, external destruction and
\* Destroy: StaticWindowProc never dispatches a message to another Window
\* (Initialize, Destroy, PreWindowProc's operator[]).
RegistryConsistent ==
  \A h \in live : subclassedBy[h] # NoWin => Lookup(h) = subclassedBy[h]

\* StaticWindowProc never calls through an iterator whose map entry a
\* handler erased (Window::Destroy of the window being dispatched).
IteratorValid == "iterator" \notin touched

\* No message is ever handed to a deleted Window object: the registry and
\* sLastWindowUnderMouse never lead to one (Destroy, ~Window).
FreedWindowUnused == "freed" \notin touched

=============================================================================
