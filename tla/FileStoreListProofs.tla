------------------------- MODULE FileStoreListProofs -------------------------
(***************************************************************************)
(* What the lists of FileStore show is the table, for any number of        *)
(* entries, folders, names and calls under way: the invariant of one       *)
(* entry, over the one of FileStoreProofs, and that every step keeps it.   *)
(***************************************************************************)
EXTENDS FileStoreProofs

-----------------------------------------------------------------------------
(* The inductive invariant: the lists *)

\* An awaited change of e, that may have taken effect and not been refused.
On(c, e) == Awaited(c) /\ calls[c].op # "list" /\ calls[c].id = e

\* A list that has been answered and is still under way to the page.
Brings(c) ==
  Awaited(c) /\ calls[c].op = "list" /\ calls[c].stage = "answered" /\ calls[c].at \notin raced

Good(e) == e \notin raced \cup doubtful

\* Nothing has changed e of which the lists have not been told.
Quiet(e) == Good(e) /\ \A c \in Slots : On(c, e) => ~Effective(c)

\* An object of e belongs on page k, and is the row as it is, or neither is completed.
Fits(t, e, k) ==
  /\ e \in Listed(k)
  /\ t = Row(e) \/ (t.status # "completed" /\ status[e] # "completed")

ListsRight(e) ==
  /\ \A k \in Pages : Reliable(k) => \A t \in DOMAIN cache[k] : t.id = e => Fits(t, e, k)
  /\ \A c \in Slots : Brings(c) => \A t \in calls[c].out : t.id = e => Fits(t, e, calls[c].at)

ListsAll(e) ==
  status[e] = "completed" =>
    /\ \A k \in loaded \ raced : e \in Listed(k) => Row(e) \in DOMAIN cache[k]
    /\ \A c \in Slots : Brings(c) /\ e \in Listed(calls[c].at) => Row(e) \in calls[c].out

ListsOnce(e) ==
  \A k \in Pages : Reliable(k) => \A s, t \in DOMAIN cache[k] :
    (s.id = e /\ t.id = e) => s = t /\ cache[k][s] = 1

\* The lists that can be relied on have no object of e, but for those of ks.
OnlyIn(e, ks) ==
  /\ \A k \in Pages \ ks : Reliable(k) => \A t \in DOMAIN cache[k] : t.id # e
  /\ \A c \in Slots : Brings(c) => \A t \in calls[c].out : t.id # e

\* Where the row of e is, and what the lists have of it, while a change is awaited.
Adding(c, e) ==
  Effective(c) =>
    /\ e \in Listed(calls[c].at) /\ OnlyIn(e, {})
    /\ name[e] = calls[c].name
    /\ calls[c].stage = "answered" => calls[c].out = {Row(e)}

Renaming(c, e) ==
  /\ calls[c].stage # "refused" => e \in Listed(calls[c].at) /\ status[e] = "completed"
  /\ Effective(c) =>
       /\ OnlyIn(e, {calls[c].at})
       /\ calls[c].at \in loaded \ raced => \E t \in DOMAIN cache[calls[c].at] : t.id = e
       /\ calls[c].stage = "answered" => calls[c].out = {Row(e)}

Deleting(c, e) ==
  /\ calls[c].stage # "refused" => ~Reliable(Trash) /\ status[e] = "completed"
  /\ calls[c].stage = "sent" => e \in Listed(calls[c].at)
  /\ Effective(c) => e \in trashed /\ OnlyIn(e, {calls[c].at})

Restoring(c, e) ==
  /\ calls[c].stage # "refused" => status[e] = "completed"
  /\ calls[c].stage = "sent" => e \in trashed /\ parent[e] = calls[c].at
  /\ Effective(c) =>
       /\ e \notin trashed /\ parent[e] \in {calls[c].at, Root}
       /\ OnlyIn(e, {Trash})
       /\ calls[c].stage = "answered" => calls[c].out = {Row(e)}

Changing(c, e) ==
  CASE calls[c].op \in {"add", "upload"} -> Adding(c, e)
    [] calls[c].op = "rename"            -> Renaming(c, e)
    [] calls[c].op = "delete"            -> Deleting(c, e)
    [] calls[c].op = "restore"           -> Restoring(c, e)

EntryInv(e) ==
  /\ Quiet(e) => ListsRight(e) /\ ListsAll(e)
  /\ Good(e) => ListsOnce(e) /\ \A c \in Slots : On(c, e) => Changing(c, e)

StoreInv == BaseInv /\ \A e \in Entries : EntryInv(e)

-----------------------------------------------------------------------------
(* What leaves an entry alone *)

\* No list gains or loses an object of e.
ObjectsKept(e) ==
  \A k \in Pages : \A t : t.id = e =>
    /\ t \in DOMAIN cache'[k] => t \in DOMAIN cache[k]
    /\ t \in DOMAIN cache[k] => t \in DOMAIN cache'[k] /\ cache'[k][t] = cache[k][t]

\* No list, answer or entry is relied on that was not before.
TrustKept(e) ==
  /\ \A k \in Pages : Reliable(k)' => Reliable(k)
  /\ loaded' \ raced' \subseteq loaded \ raced
  /\ Good(e)' => Good(e)
  /\ \A c \in Slots : Brings(c)' => Brings(c) /\ calls'[c] = calls[c]

\* Where the objects of e are has nothing to do with the row.
LEMMA ObjectsStay ==
  ASSUME NEW e \in Entries, ObjectsKept(e), TrustKept(e)
  PROVE  /\ ListsOnce(e) => ListsOnce(e)'
         /\ \A ks : OnlyIn(e, ks) => OnlyIn(e, ks)'
<1>1. \A k \in Pages : Reliable(k)' => Reliable(k)
  BY DEF TrustKept
<1>2. ASSUME ListsOnce(e) PROVE ListsOnce(e)'
  BY <1>1, <1>2 DEF ListsOnce, ObjectsKept
<1>3. ASSUME NEW ks, OnlyIn(e, ks) PROVE OnlyIn(e, ks)'
  BY <1>1, <1>3 DEF OnlyIn, ObjectsKept, TrustKept
<1>4. QED
  BY <1>2, <1>3

LEMMA ListsKept ==
  ASSUME BaseInv, NEW e \in Entries, RowStays(e), ObjectsKept(e), TrustKept(e)
  PROVE  /\ ListsRight(e) => ListsRight(e)'
         /\ ListsAll(e) => ListsAll(e)'
<1>1. /\ Row(e)' = Row(e) /\ status'[e] = status[e]
      /\ \A k : e \in Listed(k)' => e \in Listed(k)
      /\ \A k : e \in Listed(k) => e \in Listed(k)'
  BY RowStaysSame DEF RowStays
<1>2. \A k \in Pages : Reliable(k)' => Reliable(k)
  BY DEF TrustKept
<1>3. \A c \in Slots : Brings(c)' => Brings(c) /\ calls'[c] = calls[c]
  BY DEF TrustKept
<1>4. ASSUME ListsRight(e) PROVE ListsRight(e)'
  <2>1. ASSUME NEW k \in Pages, Reliable(k)', NEW t \in DOMAIN cache'[k], t.id = e PROVE Fits(t, e, k)'
    <3>1. Fits(t, e, k)
      BY <1>2, <1>4, <2>1 DEF ListsRight, ObjectsKept
    <3>2. QED
      BY <1>1, <3>1 DEF Fits
  <2>2. ASSUME NEW c \in Slots, Brings(c)', NEW t \in calls'[c].out, t.id = e
        PROVE  Fits(t, e, calls[c].at)'
    <3>1. Fits(t, e, calls[c].at) /\ calls'[c] = calls[c]
      BY <1>3, <1>4, <2>2 DEF ListsRight
    <3>2. QED
      BY <1>1, <3>1 DEF Fits
  <2>3. QED
    BY <2>1, <2>2 DEF ListsRight
<1>5. ASSUME ListsAll(e) PROVE ListsAll(e)'
  <2>1. ASSUME status'[e] = "completed", NEW k \in loaded' \ raced', (e \in Listed(k))'
        PROVE  Row(e)' \in DOMAIN cache'[k]
    <3>1. k \in loaded \ raced /\ k \in Pages
      BY <2>1 DEF TrustKept, BaseInv, StoreTypeOK
    <3>2. Row(e) \in DOMAIN cache[k] /\ Row(e).id = e
      BY <1>1, <1>5, <2>1, <3>1 DEF ListsAll, Row
    <3>3. QED
      BY <1>1, <3>1, <3>2 DEF ObjectsKept
  <2>2. ASSUME status'[e] = "completed", NEW c \in Slots, Brings(c)', (e \in Listed(calls[c].at))'
        PROVE  Row(e)' \in calls'[c].out
    BY <1>1, <1>3, <1>5, <2>2 DEF ListsAll
  <2>3. QED
    BY <2>1, <2>2 DEF ListsAll
<1>6. QED
  BY <1>4, <1>5

LEMMA RefusedChanging ==
  ASSUME NEW e, NEW c, calls[c].stage = "refused", calls[c].op \in Ops \ {"list"}
  PROVE  Changing(c, e)
  BY DEF Changing, Adding, Renaming, Deleting, Restoring, Effective, Ops

LEMMA ChangeCarried ==
  ASSUME BaseInv, NEW e \in Entries, RowStays(e),
         NEW c \in Slots, calls'[c] = calls[c], On(c, e), Changing(c, e),
         calls[c].op = "delete" => (Reliable(Trash)' => Reliable(Trash)),
         Effective(c) => \A ks : OnlyIn(e, ks) => OnlyIn(e, ks)',
         calls[c].at \in loaded' \ raced' =>
           /\ calls[c].at \in loaded \ raced
           /\ (\E t \in DOMAIN cache[calls[c].at] : t.id = e)
                => \E t \in DOMAIN cache'[calls[c].at] : t.id = e
  PROVE  Changing(c, e)'
<1>1. /\ Row(e)' = Row(e) /\ status'[e] = status[e] /\ name'[e] = name[e] /\ parent'[e] = parent[e]
      /\ e \in trashed' => e \in trashed
      /\ e \in trashed => e \in trashed'
      /\ \A k : e \in Listed(k)' => e \in Listed(k)
      /\ \A k : e \in Listed(k) => e \in Listed(k)'
  BY RowStaysSame DEF RowStays
<1>2. calls[c].op \in Ops \ {"list"}
  BY Types, CallFields DEF On, Awaited
<1>3. Effective(c)' => Effective(c)
  BY DEF Effective
<1>5. CASE calls[c].op \in {"add", "upload"}
  <2>1. Adding(c, e)
    BY <1>5 DEF Changing
  <2>2. Adding(c, e)'
    BY <1>1, <1>3, <2>1 DEF Adding
  <2>3. QED
    BY <1>5, <2>2 DEF Changing
<1>6. CASE calls[c].op = "rename"
  <2>1. Renaming(c, e)
    BY <1>6 DEF Changing
  <2>2. calls'[c].at \in loaded' \ raced' /\ Effective(c)' => \E t \in DOMAIN cache'[calls'[c].at] : t.id = e
    BY <1>3, <2>1 DEF Renaming
  <2>3. Renaming(c, e)'
    BY <1>1, <1>3, <2>1, <2>2 DEF Renaming
  <2>4. QED
    BY <1>6, <2>3 DEF Changing
<1>7. CASE calls[c].op = "delete"
  <2>1. Deleting(c, e)
    BY <1>7 DEF Changing
  <2>2. Deleting(c, e)'
    BY <1>1, <1>3, <1>7, <2>1 DEF Deleting
  <2>3. QED
    BY <1>7, <2>2 DEF Changing
<1>8. CASE calls[c].op = "restore"
  <2>1. Restoring(c, e)
    BY <1>8 DEF Changing
  <2>2. Restoring(c, e)'
    BY <1>1, <1>3, <2>1 DEF Restoring
  <2>3. QED
    BY <1>8, <2>2 DEF Changing
<1>9. QED
  BY <1>2, <1>5, <1>6, <1>7, <1>8 DEF Ops

LEMMA ChangeKept ==
  ASSUME BaseInv, NEW e \in Entries, RowStays(e), ObjectsKept(e), TrustKept(e),
         NEW c \in Slots, calls'[c] = calls[c], On(c, e), Changing(c, e)
  PROVE  Changing(c, e)'
<1>1. calls[c].at \in Pages
  BY Types, CallFields DEF On, Awaited
<1>2. Reliable(Trash)' => Reliable(Trash)
  BY DEF TrustKept, Pages
<1>3. \A ks : OnlyIn(e, ks) => OnlyIn(e, ks)'
  BY ObjectsStay
<1>4. calls[c].at \in loaded' \ raced' => calls[c].at \in loaded \ raced
  BY DEF TrustKept
<1>5. (\E t \in DOMAIN cache[calls[c].at] : t.id = e) => \E t \in DOMAIN cache'[calls[c].at] : t.id = e
  BY <1>1 DEF ObjectsKept
<1>6. QED
  BY <1>2, <1>3, <1>4, <1>5, ChangeCarried

\* A step that leaves the row, the objects and the trust in them alone, and the calls
\* on the entry but for refusing one, keeps what is known of the entry.
LEMMA EntryKept ==
  ASSUME BaseInv, NEW e \in Entries, EntryInv(e), RowStays(e), ObjectsKept(e), TrustKept(e),
         Quiet(e)' => Quiet(e),
         \A c \in Slots : On(c, e)' =>
           /\ On(c, e) /\ calls'[c].op = calls[c].op
           /\ calls'[c] = calls[c] \/ calls'[c].stage = "refused"
  PROVE  EntryInv(e)'
<1>1. Quiet(e)' => ListsRight(e)' /\ ListsAll(e)'
  BY ListsKept DEF EntryInv
<1>2. Good(e)' => Good(e) /\ ListsOnce(e)'
  BY ObjectsStay DEF EntryInv, TrustKept
<1>3. ASSUME Good(e)', NEW c \in Slots, On(c, e)' PROVE Changing(c, e)'
  <2>1. On(c, e) /\ Changing(c, e) /\ calls'[c].op = calls[c].op
    BY <1>2, <1>3 DEF EntryInv
  <2>2. calls[c].op \in Ops \ {"list"}
    BY <2>1, Types, CallFields DEF On, Awaited
  <2>3. CASE calls'[c] = calls[c]
    BY <2>1, <2>3, ChangeKept
  <2>4. CASE calls'[c].stage = "refused"
    BY <2>1, <2>2, <2>4, RefusedChanging
    DEF Changing, Adding, Renaming, Deleting, Restoring, Effective, Ops
  <2>5. QED
    BY <1>3, <2>3, <2>4
<1>4. QED
  BY <1>1, <1>2, <1>3 DEF EntryInv

\* Two changes of an entry that can be relied on are never awaited together.
LEMMA OneChange ==
  ASSUME BaseInv, NEW e \in Entries, Good(e), NEW c \in Slots, NEW d \in Slots, On(c, e), On(d, e)
  PROVE  c = d
  BY DEF BaseInv, ClashesNoted, On, Good

\* A list under way that can be relied on is of no page that an awaited change is about.
LEMMA ListApart ==
  ASSUME BaseInv, NEW d \in Slots, Awaited(d), calls[d].op = "list", calls[d].at \notin raced,
         NEW c \in Slots, Awaited(c), calls[c].op # "list"
  PROVE  calls[d].at \notin Touches(calls[c])
<1>1. c # d
  OBVIOUS
<1>2. calls[d].at \in Touches(calls[d])
  BY <1>1 DEF Touches
<1>3. Touches(calls[c]) \cap Touches(calls[d]) \subseteq raced
  BY <1>1 DEF BaseInv, ClashesNoted
<1>4. QED
  BY <1>1, <1>2, <1>3

\* What a change touches, by its name.
LEMMA TouchesOf ==
  ASSUME NEW call
  PROVE  /\ call.at \in Touches(call)
         /\ call.op \in {"delete", "restore"} => Trash \in Touches(call)
         /\ call.op = "restore" => Root \in Touches(call)
  BY DEF Touches

\* A row is on one page.
LEMMA OnePage ==
  ASSUME NEW e, NEW j, NEW k, e \in Listed(j), e \in Listed(k)
  PROVE  j = k
  BY DEF Listed

\* An awaited change that has taken effect touches the page of the row.
LEMMA ChangeTouches ==
  ASSUME BaseInv, NEW e \in Entries, NEW c \in Slots, On(c, e), Changing(c, e), Effective(c),
         NEW k, e \in Listed(k)
  PROVE  k \in Touches(calls[c])
<1>1. calls[c].op \in Ops \ {"list"} /\ calls[c].stage # "refused" /\ calls[c].stage # "sent"
  BY Types, CallFields DEF On, Awaited, Effective
<1>2. CASE calls[c].op \in {"add", "upload"}
  BY <1>2, OnePage, TouchesOf DEF Changing, Adding
<1>3. CASE calls[c].op = "rename"
  BY <1>1, <1>3, OnePage, TouchesOf DEF Changing, Renaming
<1>4. CASE calls[c].op = "delete"
  <2>1. e \in Listed(Trash)
    BY <1>4 DEF Changing, Deleting, Listed
  <2>2. QED
    BY <1>4, <2>1, OnePage, TouchesOf
<1>5. CASE calls[c].op = "restore"
  <2>1. Restoring(c, e)
    BY <1>5 DEF Changing
  <2>2. e \notin trashed /\ parent[e] \in {calls[c].at, Root}
    BY <2>1 DEF Restoring
  <2>3. k \in {calls[c].at, Root}
    BY <2>2 DEF Listed
  <2>4. QED
    BY <1>5, <2>3, TouchesOf
<1>6. QED
  BY <1>1, <1>2, <1>3, <1>4, <1>5 DEF Ops

-----------------------------------------------------------------------------
(* Pages and clicks keep what is known of an entry *)

LEMMA LoadEntry ==
  ASSUME BaseInv, NEW p \in Pages, Load(p), NEW e \in Entries
  PROVE  EntryInv(e)'
<1>1. PICK c \in Slots :
        /\ calls'[c] = Call("list", p, Null, Null)
        /\ \A d \in Slots \ {c} : Busy(d)' => calls'[d].deaf = TRUE
  BY LoadShape
<1>2. calls'[c].op = "list" /\ calls'[c].stage = "sent"
  BY <1>1, ListAsks
<1>3. \A d \in Slots : ~On(d, e)' /\ ~Brings(d)'
  BY <1>1, <1>2 DEF On, Brings, Awaited
<1>4. \A k \in Pages : DOMAIN cache'[k] = {}
  <2>1. \A k \in Pages : cache'[k] = EmptyBag
    BY DEF Load
  <2>2. QED
    BY <2>1, BagOfSet DEF EmptyBag
<1>5. loaded' = {}
  BY DEF Load
<1>6. QED
  BY <1>3, <1>4, <1>5 DEF EntryInv, ListsRight, ListsAll, ListsOnce

LEMMA OpenEntry ==
  ASSUME BaseInv, NEW p \in Pages, Open(p), NEW e \in Entries, EntryInv(e)
  PROVE  EntryInv(e)'
<1> DEFINE call == Call("list", p, Null, Null)
           gone == IF p = Trash THEN {Trash} ELSE {}
<1>1. /\ UNCHANGED <<vars, cache, doubtful>> /\ loaded' = loaded \ {Trash}
      /\ Root # Trash /\ Trash \notin Entries
  BY OpenShape, TrashAssumption
<1>2. RowStays(e) /\ ObjectsKept(e)
  BY <1>1 DEF RowStays, ObjectsKept, vars
<1>3. CASE UNCHANGED <<calls, raced>>
  <2>1. TrustKept(e)
    BY <1>1, <1>3 DEF TrustKept, Reliable, Good, Brings, Awaited, Busy
  <2>2. Quiet(e)' => Quiet(e)
    BY <1>1, <1>3 DEF Quiet, Good, On, Awaited, Busy, Effective
  <2>3. \A c \in Slots : On(c, e)' => On(c, e) /\ calls'[c] = calls[c]
    BY <1>3 DEF On, Awaited, Busy
  <2>4. QED
    BY <1>2, <2>1, <2>2, <2>3, EntryKept
<1>4. ASSUME NEW c \in Slots, ~Busy(c), calls' \in [Slots -> Calls \cup {Free}], calls'[c] = call,
             \A d \in Slots \ {c} : calls'[d] = calls[d],
             raced' = (raced \ gone) \cup Clashes(call)
      PROVE  EntryInv(e)'
  <2>1. call.op = "list" /\ call.at = p /\ call.stage = "sent" /\ Touches(call) = {p}
    BY ListAsks
  <2> HIDE DEF call
  <2>2. \A k : k \in raced /\ k # Trash => k \in raced'
    BY <1>4
  <2> HIDE DEF gone
  <2>3. \A d \in Slots \ {c} : /\ On(d, e)' => On(d, e)
                               /\ On(d, e) => On(d, e)'
                               /\ Effective(d) => Effective(d)'
    BY <1>4 DEF On, Awaited, Busy, Effective
  <2>4. ~On(c, e)' /\ ~On(c, e) /\ ~Brings(c)'
    BY <1>4, <2>1 DEF On, Awaited, Brings
  \* An answered list of the trash has met the new call.
  <2>5. ASSUME NEW d \in Slots \ {c}, Brings(d)' PROVE Brings(d)
    <3>1. calls'[d] = calls[d] /\ Awaited(d) /\ calls[d].op = "list" /\ calls[d].stage = "answered"
      BY <1>4, <2>5 DEF Brings, Awaited, Busy
    <3>2. calls[d].at \notin raced'
      BY <2>5, <3>1 DEF Brings
    <3>3. CASE calls[d].at # Trash
      BY <2>2, <3>1, <3>2, <3>3 DEF Brings
    <3>4. CASE calls[d].at = Trash
      <4>1. Touches(call) \cap Touches(calls[d]) \subseteq raced'
        BY <1>4, <2>1, <3>1, ClashesCover
      <4>2. Trash \in Touches(calls[d])
        BY <3>4, TouchesOf
      <4>3. p # Trash
        BY <2>1, <3>2, <3>4, <4>1, <4>2
      <4>4. Trash \in raced => Trash \in raced'
        BY <1>4, <4>3 DEF gone
      <4>5. QED
        BY <3>1, <3>2, <3>4, <4>4 DEF Brings
    <3>5. QED
      BY <3>3, <3>4
  <2>6. TrustKept(e)
    <3>1. \A k \in Pages : Reliable(k)' => Reliable(k)
      BY <1>1, <2>2 DEF Reliable
    <3>2. loaded' \ raced' \subseteq loaded \ raced
      BY <1>1, <2>2
    <3>3. Good(e)' => Good(e)
      BY <1>1, <2>2 DEF Good
    <3>4. QED
      BY <1>4, <2>4, <2>5, <3>1, <3>2, <3>3 DEF TrustKept
  <2>7. Quiet(e)' => Quiet(e)
    BY <2>3, <2>4, <2>6 DEF Quiet, TrustKept
  <2>8. \A d \in Slots : On(d, e)' => On(d, e) /\ calls'[d] = calls[d]
    BY <1>4, <2>3, <2>4
  <2>9. QED
    BY <1>2, <2>6, <2>7, <2>8, EntryKept
<1>5. QED
  BY <1>3, <1>4, OpenShape

\* A click changes nothing yet, and trusts no more than before.
LEMMA ClickTrust ==
  ASSUME BaseInv, NEW c \in Slots, NEW o \in Ops \ {"list"}, NEW k \in Folders \cup {Root},
         NEW f \in Entries, NEW n \in Names \cup {Null}, Asked(c, o, k, f, n), NEW e \in Entries
  PROVE  /\ RowStays(e) /\ ObjectsKept(e) /\ TrustKept(e)
         /\ Quiet(e)' => Quiet(e)
         /\ calls'[c] = Call(o, k, f, n) /\ ~On(c, e) /\ \A d \in Slots \ {c} : calls'[d] = calls[d]
         /\ \A d \in Slots \ {c} : On(d, e)' => On(d, e)
<1> DEFINE call == Call(o, k, f, n)
<1>1. call \in Calls /\ call.op = o /\ call.stage = "sent"
  <2>1. k \in Pages /\ o \in Ops /\ f \in Entries \cup {Null}
    BY DEF Pages
  <2>2. QED
    BY <2>1 DEF Call, Calls
<1> HIDE DEF call
<1>2. /\ ~Busy(c) /\ calls' = [calls EXCEPT ![c] = call] /\ raced \subseteq raced'
      /\ UNCHANGED <<vars, cache, loaded>> /\ doubtful \subseteq doubtful'
  BY DEF Asked, Ops, call
<1>3. calls'[c] = call /\ \A d \in Slots \ {c} : calls'[d] = calls[d]
  BY <1>2, Types
<1>4. RowStays(e) /\ ObjectsKept(e)
  BY <1>2 DEF RowStays, ObjectsKept, vars
<1>5. /\ \A d \in Slots \ {c} : /\ On(d, e)' => On(d, e)
                                /\ On(d, e) => On(d, e)'
                                /\ Effective(d) => Effective(d)'
      /\ ~On(c, e)
  BY <1>2, <1>3 DEF On, Awaited, Busy, Effective
<1>6. \A d \in Slots : Brings(d)' => Brings(d) /\ calls'[d] = calls[d]
  <2>1. ~Brings(c)'
    BY <1>1, <1>3 DEF Brings
  <2>2. \A d \in Slots \ {c} : Brings(d)' => Brings(d) /\ calls'[d] = calls[d]
    BY <1>2, <1>3 DEF Brings, Awaited, Busy
  <2>3. QED
    BY <2>1, <2>2
<1>7. TrustKept(e)
  BY <1>2, <1>6 DEF TrustKept, Reliable, Good
<1>8. Quiet(e)' => Quiet(e)
  BY <1>5, <1>7 DEF Quiet, TrustKept
<1>9. QED
  BY <1>3, <1>4, <1>5, <1>7, <1>8 DEF call

LEMMA RowGone ==
  ASSUME NEW e
  PROVE  /\ Row(e).parent = parent[e]
         /\ Row(e).gone => e \in trashed
         /\ e \in trashed => Row(e).gone
  BY DEF Row

\* A row the page shows, on lists that can be relied on, is the row as it is.
LEMMA ShownIsRow ==
  ASSUME BaseInv, NEW e \in Entries, Quiet(e), ListsRight(e), Reliable(here),
         NEW s \in Shown(here), s.id = e
  PROVE  s = Row(e) /\ e \in Listed(here) /\ status[e] = "completed"
<1>1. here \in Pages /\ s \in DOMAIN cache[here] /\ s.status = "completed"
  BY DEF BaseInv, StoreTypeOK, Shown, GetFiles
<1>2. Fits(s, e, here)
  BY <1>1 DEF ListsRight
<1>3. QED
  BY <1>1, <1>2 DEF Fits, Row

LEMMA ClickEntry ==
  ASSUME BaseInv, NEW c \in Slots, NEW o \in Ops \ {"list"}, NEW k \in Folders \cup {Root},
         NEW f \in Entries, NEW n \in Names \cup {Null}, Asked(c, o, k, f, n),
         NEW e \in Entries, EntryInv(e)
  PROVE  EntryInv(e)'
<1> DEFINE call == Call(o, k, f, n)
<1>1. /\ call.op = o /\ call.at = k /\ call.id = f /\ call.stage = "sent" /\ call.deaf = FALSE
      /\ call.out = {} /\ call # Free
  <2>1. k \in Pages /\ o \in Ops /\ f \in Entries \cup {Null}
    BY DEF Pages
  <2>2. call \in Calls /\ call.op = o /\ call.at = k /\ call.id = f /\ call.stage = "sent" /\ call.deaf = FALSE
        /\ call.out = {}
    BY <2>1 DEF Call, Calls
  <2> HIDE DEF call
  <2>3. QED
    BY <2>2, FreeAssumption
<1>2. calls'[c] = Call(o, k, f, n)
  BY ClickTrust
<1>3. calls'[c] = call
  BY <1>2
<1> HIDE DEF call
<1>4. /\ RowStays(e) /\ ObjectsKept(e) /\ TrustKept(e) /\ (Quiet(e)' => Quiet(e))
      /\ calls'[c] = call /\ \A d \in Slots \ {c} : calls'[d] = calls[d]
      /\ ~On(c, e) /\ \A d \in Slots \ {c} : On(d, e)' => On(d, e)
  BY <1>3, ClickTrust
<1>5. CASE ~On(c, e)'
  <2>1. \A d \in Slots : On(d, e)' => On(d, e) /\ calls'[d] = calls[d]
    BY <1>4, <1>5
  <2>2. QED
    BY <1>4, <2>1, EntryKept
<1>6. CASE On(c, e)' /\ ~Good(e)'
  BY <1>6 DEF EntryInv, Quiet
<1>7. CASE On(c, e)' /\ Good(e)'
  <2>1. f = e
    BY <1>1, <1>4, <1>7 DEF On
  <2>2. /\ raced' = raced \cup Clashes(call) /\ e \notin Clashes(call) /\ Good(e)
    BY <1>4, <1>7 DEF Asked, Good, TrustKept, call
  <2>3. Reliable(here) /\ \A d \in Slots : ~On(d, e)
    <3>1. \A d \in Slots : On(d, e) => {call.id} \cap {calls[d].id} \subseteq Clashes(call)
      BY <1>1, ClashesCover DEF On
    <3>2. ~Reliable(here) => call.id \in Clashes(call)
      BY <1>1, ClashesCover
    <3>3. QED
      BY <1>1, <2>1, <2>2, <3>1, <3>2 DEF On
  <2>4. Quiet(e) /\ ListsRight(e) /\ ListsAll(e) /\ ListsOnce(e)
    BY <2>2, <2>3 DEF Quiet, EntryInv
  <2>5. ListsRight(e)' /\ ListsAll(e)' /\ ListsOnce(e)'
    BY <1>4, <2>4, ListsKept, ObjectsStay
  <2>6. \A d \in Slots : On(d, e)' => d = c
    BY <1>4, <2>3
  <2>7. /\ status'[e] = status[e] /\ parent'[e] = parent[e] /\ trashed' = trashed
        /\ UNCHANGED <<loaded, here>>
    BY DEF Asked, vars
  <2>8. /\ \A j : e \in Listed(j) => e \in Listed(j)'
        /\ calls'[c].op = o /\ calls'[c].stage = "sent" /\ calls'[c].at = k /\ ~Effective(c)'
    BY <1>1, <1>4, RowStaysSame DEF Effective
  <2>9. ASSUME o \in {"add", "upload"} PROVE Changing(c, e)'
    BY <2>8, <2>9 DEF Changing, Adding
  <2>10. ASSUME o = "rename" PROVE Changing(c, e)'
    <3>1. here # Trash /\ \E s \in Shown(here) : s.id = e
      BY <1>7, <2>1, <2>10 DEF Asked, Good
    <3>2. k = here
      BY <2>10, <3>1 DEF Asked, FolderOf
    <3>3. e \in Listed(k) /\ status[e] = "completed"
      <4>1. PICK s \in Shown(here) : s.id = e
        BY <3>1
      <4>2. QED
        BY <2>3, <2>4, <3>2, <4>1, ShownIsRow
    <3>4. Renaming(c, e)'
      BY <2>7, <2>8, <3>3 DEF Renaming
    <3>5. QED
      BY <2>8, <2>10, <3>4 DEF Changing
  <2>11. ASSUME o = "delete" PROVE Changing(c, e)'
    <3>1. PICK s \in Shown(here) : s.id = e /\ s.parent = k /\ ~s.gone
      BY <2>1, <2>11 DEF Asked
    <3>2. s = Row(e) /\ e \in Listed(here) /\ status[e] = "completed"
      BY <2>3, <2>4, <3>1, ShownIsRow
    <3>3. e \notin trashed /\ parent[e] = k
      BY <3>1, <3>2, RowGone
    <3>4. here # Trash /\ here = k
      BY <3>2, <3>3 DEF Listed
    <3>5. ~Reliable(Trash)'
      BY <2>7, <3>4 DEF BaseInv, Reliable
    <3>6. Deleting(c, e)'
      BY <2>7, <2>8, <3>2, <3>4, <3>5 DEF Deleting
    <3>7. QED
      BY <2>8, <2>11, <3>6 DEF Changing
  <2>12. ASSUME o = "restore" PROVE Changing(c, e)'
    <3>1. PICK s \in Shown(here) : s.id = e /\ s.parent = k /\ s.gone
      BY <2>1, <2>12 DEF Asked
    <3>2. s = Row(e) /\ status[e] = "completed"
      BY <2>3, <2>4, <3>1, ShownIsRow
    <3>3. e \in trashed /\ parent[e] = k
      BY <3>1, <3>2, RowGone
    <3>4. Restoring(c, e)'
      BY <2>7, <2>8, <3>2, <3>3 DEF Restoring
    <3>5. QED
      BY <2>8, <2>12, <3>4 DEF Changing
  <2>13. Changing(c, e)'
    BY <2>9, <2>10, <2>11, <2>12 DEF Ops
  <2>14. QED
    BY <2>5, <2>6, <2>13 DEF EntryInv
<1>8. QED
  BY <1>5, <1>6, <1>7

-----------------------------------------------------------------------------
(* A step of the server keeps what is known of an entry *)

LEMMA ServeTrust ==
  ASSUME BaseInv, NEW c \in Slots, Serve(c), NEW e \in Entries
  PROVE  /\ UNCHANGED <<cache, loaded, raced>> /\ ObjectsKept(e)
         /\ \A k \in Pages : Reliable(k)' => Reliable(k)
         /\ Good(e)' => Good(e)
         /\ \A d \in Slots \ {c} :
              /\ calls'[d] = calls[d]
              /\ On(d, e)' => On(d, e)
              /\ On(d, e) => On(d, e)'
              /\ Effective(d) => Effective(d)'
              /\ Brings(d)' => Brings(d)
         /\ On(c, e)' => On(c, e)
         /\ Brings(c)' => Awaited(c) /\ calls[c].op = "list"
         /\ calls[c].op # "list" => TrustKept(e)
<1>1. /\ Busy(c) /\ UNCHANGED <<cache, loaded, raced>> /\ doubtful \subseteq doubtful'
      /\ \A d \in Slots \ {c} : calls'[d] = calls[d]
  BY ServeShape DEF pageVars, Steps
<1>2. Busy(c)' => ~calls[c].deaf /\ calls'[c].op = calls[c].op /\ calls'[c].id = calls[c].id
  BY <1>1, ServeShape DEF Steps, Busy
<1>3. ObjectsKept(e) /\ (\A k \in Pages : Reliable(k)' => Reliable(k)) /\ (Good(e)' => Good(e))
  BY <1>1 DEF ObjectsKept, Reliable, Good
<1>4. \A d \in Slots \ {c} :
              /\ On(d, e)' => On(d, e)
              /\ On(d, e) => On(d, e)'
              /\ Effective(d) => Effective(d)'
              /\ Brings(d)' => Brings(d)
  BY <1>1 DEF On, Awaited, Busy, Effective, Brings
<1>5. On(c, e)' => On(c, e)
  BY <1>1, <1>2 DEF On, Awaited
<1>6. Brings(c)' => Awaited(c) /\ calls[c].op = "list"
  BY <1>1, <1>2 DEF Brings, Awaited
<1>7. calls[c].op # "list" => TrustKept(e)
  BY <1>1, <1>3, <1>4, <1>6 DEF TrustKept
<1>8. QED
  BY <1>1, <1>3, <1>4, <1>5, <1>6, <1>7

\* A step of a call on another entry; one that does nothing and refuses; one nobody
\* awaits that leaves the row alone.
LEMMA ServeAside ==
  ASSUME BaseInv, NEW c \in Slots, Serve(c), calls[c].op # "list",
         NEW e \in Entries, EntryInv(e), RowStays(e),
         On(c, e) => ~Effective(c) /\ calls'[c].stage = "refused"
  PROVE  EntryInv(e)'
<1>1. TrustKept(e) /\ ObjectsKept(e)
  BY ServeTrust
<1>2. Quiet(e)' => Quiet(e)
  BY ServeTrust DEF Quiet
<1>3. On(c, e) => calls'[c].op = calls[c].op
  BY ServeShape DEF On, Awaited, Steps
<1>4. \A d \in Slots : On(d, e)' =>
           /\ On(d, e) /\ calls'[d].op = calls[d].op
           /\ calls'[d] = calls[d] \/ calls'[d].stage = "refused"
  <2>1. ASSUME NEW d \in Slots \ {c}, On(d, e)' PROVE On(d, e) /\ calls'[d] = calls[d]
    BY <2>1, ServeTrust
  <2>2. ASSUME On(c, e)' PROVE On(c, e) /\ calls'[c].op = calls[c].op /\ calls'[c].stage = "refused"
    BY <1>3, <2>2, ServeTrust
  <2>3. QED
    BY <2>1, <2>2
<1>5. QED
  BY <1>1, <1>2, <1>4, EntryKept

\* The answer to a list call holds the rows as they are; a change that has taken
\* effect meanwhile is of another page, or the list cannot be relied on.
LEMMA ServeListEntry ==
  ASSUME BaseInv, NEW c \in Slots, Serve(c), calls[c].op = "list", NEW e \in Entries, EntryInv(e)
  PROVE  EntryInv(e)'
<1>1. /\ UNCHANGED <<cache, loaded, raced>> /\ ObjectsKept(e) /\ RowStays(e)
      /\ \A k \in Pages : Reliable(k)' => Reliable(k)
      /\ Good(e)' => Good(e)
  BY ServeTrust, ServeTable
<1>2. \A d \in Slots \ {c} :
              /\ calls'[d] = calls[d]
              /\ On(d, e)' => On(d, e)
              /\ On(d, e) => On(d, e)'
              /\ Effective(d) => Effective(d)'
              /\ Brings(d)' => Brings(d)
  BY ServeTrust
<1>3. ~On(c, e) /\ ~On(c, e)'
  BY ServeTrust DEF On
<1>4. ASSUME Brings(c)'
      PROVE  /\ Awaited(c) /\ calls[c].at \notin raced /\ calls'[c].at = calls[c].at
             /\ calls'[c].out = ListOf(calls[c].at)
  <2>1. Awaited(c) /\ calls'[c].stage = "answered" /\ calls'[c].at \notin raced'
    BY <1>4, ServeTrust DEF Brings
  <2>2. calls'[c].at = calls[c].at /\ calls'[c].out = ListOf(calls[c].at)
    BY <2>1, ServeShape DEF Steps, Awaited
  <2>3. QED
    BY <1>1, <2>1, <2>2
<1>5. /\ Row(e)' = Row(e) /\ status'[e] = status[e]
      /\ \A k : e \in Listed(k)' => e \in Listed(k)
      /\ \A k : e \in Listed(k) => e \in Listed(k)'
  BY <1>1, RowStaysSame DEF RowStays
<1>6. \A k : \A t \in ListOf(k) : t.id = e => t = Row(e) /\ e \in Listed(k)
  BY DEF ListOf, Row
<1>7. \A k : e \in Listed(k) => Row(e) \in ListOf(k)
  BY DEF ListOf
<1>8. Quiet(e)' => Quiet(e)
  BY <1>1, <1>2, <1>3 DEF Quiet
<1>9. ASSUME Quiet(e)' PROVE ListsRight(e)' /\ ListsAll(e)'
  <2>1. ListsRight(e) /\ ListsAll(e)
    BY <1>8, <1>9 DEF EntryInv
  <2>2. ASSUME NEW k \in Pages, Reliable(k)', NEW t \in DOMAIN cache'[k], t.id = e PROVE Fits(t, e, k)'
    <3>1. Fits(t, e, k)
      BY <1>1, <2>1, <2>2 DEF ListsRight
    <3>2. QED
      BY <1>5, <3>1 DEF Fits
  <2>3. ASSUME NEW d \in Slots, Brings(d)', NEW t \in calls'[d].out, t.id = e
        PROVE  Fits(t, e, calls[d].at)'
    <3>1. CASE d # c
      <4>1. Fits(t, e, calls[d].at) /\ calls'[d] = calls[d]
        BY <1>2, <2>1, <2>3, <3>1 DEF ListsRight
      <4>2. QED
        BY <1>5, <4>1 DEF Fits
    <3>2. CASE d = c
      <4>1. t = Row(e) /\ e \in Listed(calls[c].at) /\ calls'[c].at = calls[c].at
        BY <1>4, <1>6, <2>3, <3>2
      <4>2. QED
        BY <1>5, <3>2, <4>1 DEF Fits
    <3>3. QED
      BY <3>1, <3>2
  <2>4. ASSUME status'[e] = "completed", NEW k \in loaded' \ raced', (e \in Listed(k))'
        PROVE  Row(e)' \in DOMAIN cache'[k]
    BY <1>1, <1>5, <2>1, <2>4 DEF ListsAll
  <2>5. ASSUME status'[e] = "completed", NEW d \in Slots, Brings(d)', (e \in Listed(calls[d].at))'
        PROVE  Row(e)' \in calls'[d].out
    <3>1. CASE d # c
      BY <1>2, <1>5, <2>1, <2>5, <3>1 DEF ListsAll
    <3>2. CASE d = c
      <4>1. e \in Listed(calls[c].at) /\ calls'[c].out = ListOf(calls[c].at)
        BY <1>4, <1>5, <2>5, <3>2
      <4>2. QED
        BY <1>5, <1>7, <3>2, <4>1
    <3>3. QED
      BY <3>1, <3>2
  <2>6. QED
    BY <2>2, <2>3, <2>4, <2>5 DEF ListsRight, ListsAll
<1>10. ASSUME Good(e)' PROVE ListsOnce(e)'
  <2>1. ListsOnce(e)
    BY <1>1, <1>10 DEF EntryInv
  <2>2. QED
    BY <1>1, <2>1 DEF ListsOnce
<1>11. ASSUME Good(e)', NEW d \in Slots, On(d, e)' PROVE Changing(d, e)'
  <2>1. On(d, e) /\ Changing(d, e) /\ calls'[d] = calls[d] /\ d # c
    BY <1>1, <1>2, <1>3, <1>11 DEF EntryInv
  <2>2. ASSUME Effective(d), NEW ks, OnlyIn(e, ks) PROVE OnlyIn(e, ks)'
    <3>1. ASSUME Brings(c)', NEW t \in calls'[c].out PROVE t.id # e
      <4>1. calls[c].at \notin Touches(calls[d])
        BY <1>4, <2>1, <3>1, ListApart DEF On
      <4>2. e \notin Listed(calls[c].at)
        BY <2>1, <2>2, <4>1, ChangeTouches
      <4>3. QED
        BY <1>4, <1>6, <3>1, <4>2
    <3>2. \A f \in Slots : Brings(f)' => \A t \in calls'[f].out : t.id # e
      BY <1>2, <2>2, <3>1 DEF OnlyIn
    <3>3. \A k \in Pages \ ks : Reliable(k)' => \A t \in DOMAIN cache'[k] : t.id # e
      BY <1>1, <2>2 DEF OnlyIn
    <3>4. QED
      BY <3>2, <3>3 DEF OnlyIn
  <2>3. Reliable(Trash)' => Reliable(Trash)
    BY <1>1 DEF Pages
  <2>4. QED
    BY <1>1, <2>1, <2>2, <2>3, ChangeCarried
<1>12. QED
  BY <1>9, <1>10, <1>11 DEF EntryInv

\* An entry changed by a call that is awaited: only that call matters.
LEMMA ServeOwn ==
  ASSUME BaseInv, NEW c \in Slots, Serve(c), NEW e \in Entries, EntryInv(e), On(c, e),
         Good(e)' => /\ Changing(c, e)'
                     /\ Effective(c)' \/ (ListsRight(e)' /\ ListsAll(e)')
  PROVE  EntryInv(e)'
<1>1. TrustKept(e) /\ ObjectsKept(e)
  BY ServeTrust DEF On
<1>2. CASE ~Good(e)'
  BY <1>2 DEF EntryInv, Quiet
<1>3. CASE Good(e)'
  <2>1. Good(e) /\ ListsOnce(e)
    BY <1>1, <1>3 DEF TrustKept, EntryInv
  <2>2. ListsOnce(e)'
    BY <1>1, <2>1, ObjectsStay
  <2>3. \A d \in Slots : On(d, e)' => d = c
    BY <2>1, ServeTrust, OneChange
  <2>4. On(c, e)'
    BY ServeShape, FreeAssumption DEF On, Awaited, Busy, Steps
  <2>5. QED
    BY <1>3, <2>2, <2>3, <2>4 DEF EntryInv, Quiet
<1>4. QED
  BY <1>2, <1>3

\* Before it is served, a change has nothing to tell the lists.
LEMMA SentQuiet ==
  ASSUME BaseInv, NEW c \in Slots, NEW e \in Entries, EntryInv(e), On(c, e), Good(e), calls[c].stage = "sent"
  PROVE  Quiet(e) /\ ListsRight(e) /\ ListsAll(e) /\ Changing(c, e)
<1>1. \A d \in Slots : On(d, e) => d = c
  BY OneChange
<1>2. Quiet(e)
  BY <1>1 DEF Quiet, Effective
<1>3. QED
  BY <1>2 DEF EntryInv

\* Lists that are right have the entry on its page only.
LEMMA RightOnly ==
  ASSUME BaseInv, NEW c \in Slots, NEW e \in Entries, On(c, e), ListsRight(e),
         NEW p \in Touches(calls[c]), e \in Listed(p)
  PROVE  OnlyIn(e, {p})
<1>1. ASSUME NEW k \in Pages \ {p}, Reliable(k), NEW t \in DOMAIN cache[k] PROVE t.id # e
  BY <1>1, OnePage DEF ListsRight, Fits
<1>2. ASSUME NEW d \in Slots, Brings(d), NEW t \in calls[d].out PROVE t.id # e
  <2>1. calls[d].at # p
    BY <1>2, ListApart DEF Brings, On
  <2>2. QED
    BY <1>2, <2>1, OnePage DEF ListsRight, Fits
<1>3. QED
  BY <1>1, <1>2 DEF OnlyIn

LEMMA NewRowIs ==
  ASSUME NEW c, NEW e, calls[c].id = e, status'[e] = "completed", name'[e] = calls[c].name,
         parent'[e] = calls[c].at, e \notin trashed'
  PROVE  NewRow(c) = Row(e)'
<1>1. (e \in trashed') = FALSE
  OBVIOUS
<1>2. Row(e)' = [id |-> e, name |-> name'[e], parent |-> parent'[e], gone |-> e \in trashed', status |-> status'[e]]
  BY DEF Row
<1>3. Row(e)' = [id |-> e, name |-> name'[e], parent |-> parent'[e], gone |-> FALSE, status |-> status'[e]]
  BY <1>1, <1>2, Zenon
<1>4. QED
  BY <1>3 DEF NewRow

\* The row AddFile makes, which no list has an object of, and no other call is about.
LEMMA AddedRow ==
  ASSUME BaseInv, NEW c \in Slots, Makes(c), calls[c].stage = "sent",
         NEW e \in Entries, calls[c].id = e, NEW s \in {"pending", "completed"},
         AddFile(e, calls[c].name, calls[c].at, s)
  PROVE  /\ status'[e] = s /\ name'[e] = calls[c].name
         /\ parent'[e] = calls[c].at /\ e \notin trashed'
         /\ e \in Inserted'
         /\ OnlyIn(e, {})
         /\ \A d \in Slots \ {c} : ~On(d, e)
<1>1. e \notin Inserted
  BY Types DEF Makes, BaseInv, CallsOK
<1>2. TypeOK
  BY DEF BaseInv, FormerTable
<1>3. /\ status'[e] = s /\ name'[e] = calls[c].name
      /\ parent'[e] = calls[c].at /\ e \notin trashed'
  BY <1>1, <1>2 DEF AddFile, TypeOK
<1>4. Inserted' = {f \in Entries : status'[f] # "none"}
  BY DEF Inserted
<1>5. e \in Inserted'
  BY <1>1, <1>3, <1>4
<1>6. OnlyIn(e, {})
  BY <1>1 DEF OnlyIn, Brings, Awaited, BaseInv, Known
<1>7. ASSUME NEW d \in Slots \ {c}, On(d, e) PROVE FALSE
  <2>1. CASE Makes(d)
    BY <1>7, <2>1 DEF On, BaseInv, CallsOK
  <2>2. CASE ~Makes(d)
    BY <1>1, <1>7, <2>2 DEF On, Awaited, BaseInv, CallsOK
  <2>3. QED
    BY <2>1, <2>2
<1>8. QED
  BY <1>3, <1>5, <1>6, <1>7

LEMMA ServeAddEntry ==
  ASSUME BaseInv, NEW c \in Slots, ServeAdd(c), NEW e \in Entries, calls[c].id = e, EntryInv(e)
  PROVE  EntryInv(e)'
<1>1. Serve(c) /\ Busy(c) /\ calls[c].op = "add" /\ calls[c].stage = "sent" /\ Makes(c)
  BY DEF Serve, ServeAdd, Asks, Makes
<1>2. calls[c].at # Trash /\ calls[c].at \in Pages
  BY <1>1, Types, CallFields
<1>3. /\ status'[e] = "completed" /\ name'[e] = calls[c].name
      /\ parent'[e] = calls[c].at /\ e \notin trashed' /\ e \in Inserted'
      /\ OnlyIn(e, {})
  BY <1>1, AddedRow DEF ServeAdd, PostAddFolder
<1>4. CASE calls[c].deaf
  BY <1>4 DEF ServeAdd, Changed, EntryInv, Quiet, Good
<1>5. CASE ~calls[c].deaf
  <2>1. On(c, e)
    BY <1>1, <1>5 DEF On, Awaited
  <2>2. calls'[c].stage = "answered"
    <3>1. Answer(c, {NewRow(c)}) /\ {NewRow(c)} \in SUBSET Snapshots
      BY <1>1, NewRows DEF ServeAdd
    <3>2. QED
      BY <1>1, <1>5, <3>1, CallSteps
  <2>3. /\ calls'[c].out = {NewRow(c)} /\ calls'[c].op = "add"
        /\ calls'[c].at = calls[c].at /\ calls'[c].name = calls[c].name
    BY <1>1, <1>5, <2>2, ServeShape DEF Steps
  <2>4. NewRow(c) = Row(e)'
    BY <1>3, NewRowIs
  <2>5. OnlyIn(e, {})'
    BY <1>1, <1>2, <1>3, ServeTrust, ObjectsStay
  <2>6. (e \in Listed(calls[c].at))'
    BY <1>2, <1>3, <2>3 DEF Listed
  <2>7. Adding(c, e)'
    BY <1>3, <2>3, <2>4, <2>5, <2>6 DEF Adding
  <2>8. Changing(c, e)' /\ Effective(c)'
    BY <2>2, <2>3, <2>7 DEF Changing, Effective
  <2>9. QED
    BY <1>1, <1>2, <2>1, <2>8, ServeOwn
<1>6. QED
  BY <1>4, <1>5

LEMMA ServeGenerateEntry ==
  ASSUME BaseInv, NEW c \in Slots, ServeGenerate(c), NEW e \in Entries, calls[c].id = e, EntryInv(e)
  PROVE  EntryInv(e)'
<1>1. Serve(c) /\ Busy(c) /\ calls[c].op = "upload" /\ calls[c].stage = "sent" /\ Makes(c) /\ Written(c)
  BY DEF Serve, ServeGenerate, Asks, Makes
<1>2. calls[c].at # Trash
  BY <1>1, Types
<1>3. /\ status'[e] = "pending" /\ name'[e] = calls[c].name
      /\ parent'[e] = calls[c].at /\ e \notin trashed' /\ e \in Inserted'
      /\ OnlyIn(e, {}) /\ \A d \in Slots \ {c} : ~On(d, e)
  BY <1>1, AddedRow DEF ServeGenerate, UploadGenerateId
<1>4. OnlyIn(e, {})'
  BY <1>1, <1>3, ServeTrust, ObjectsStay
\* Nobody awaits the file: it stays pending, and no list has it.
<1>5. CASE calls[c].deaf
  <2>1. ~On(c, e)
    BY <1>5 DEF On, Awaited
  <2>2. \A d \in Slots : ~On(d, e)'
    BY <1>1, <1>3, <2>1, ServeTrust
  <2>3. QED
    BY <1>3, <1>4, <2>2 DEF EntryInv, OnlyIn, ListsRight, ListsAll, ListsOnce
<1>6. CASE ~calls[c].deaf
  <2>1. On(c, e)
    BY <1>1, <1>6 DEF On, Awaited
  <2>2. /\ calls'[c].stage = "written" /\ calls'[c].op = "upload"
        /\ calls'[c].at = calls[c].at /\ calls'[c].name = calls[c].name
    BY <1>1, <1>6, CallSteps DEF Steps
  <2>3. (e \in Listed(calls[c].at))'
    BY <1>2, <1>3, <2>2 DEF Listed
  <2>4. Adding(c, e)'
    BY <1>3, <1>4, <2>2, <2>3 DEF Adding
  <2>5. Changing(c, e)' /\ Effective(c)'
    BY <2>2, <2>4 DEF Changing, Effective
  <2>6. QED
    BY <1>1, <2>1, <2>5, ServeOwn
<1>7. QED
  BY <1>5, <1>6

\* The upload ends badly: no list has shown the file.
LEMMA ServeFailedEntry ==
  ASSUME BaseInv, NEW c \in Slots, Serve(c), Busy(c), calls[c].op = "upload", calls[c].stage = "written",
         UploadFailed(calls[c].id), Refuse(c), NEW e \in Entries, calls[c].id = e, EntryInv(e)
  PROVE  EntryInv(e)'
<1>1. TypeOK /\ Makes(c) /\ status[e] = "pending" /\ e \in Inserted
  BY DEF BaseInv, FormerTable, CallsOK, Makes, Effective
<1>2. status'[e] = "failed" /\ UNCHANGED <<name, parent, trashed>>
  BY <1>1 DEF UploadFailed, TypeOK
<1>3. Inserted' = Inserted
  <2>1. Inserted' = {f \in Entries : status'[f] # "none"}
    BY DEF Inserted
  <2>2. \A f \in Entries : status'[f] = status[f] \/ (f = e /\ status'[f] = "failed")
    BY <1>1 DEF UploadFailed, TypeOK
  <2>3. QED
    BY <1>1, <2>1, <2>2 DEF Inserted
<1>4. TrustKept(e) /\ ObjectsKept(e)
  BY ServeTrust
<1>5. ASSUME NEW k, e \in Listed(k) PROVE (e \in Listed(k))'
  BY <1>2, <1>3, <1>5 DEF Listed
<1>6. CASE calls[c].deaf
  <2>1. ~On(c, e)
    BY <1>6 DEF On, Awaited
  <2>2. ASSUME Good(e), NEW d \in Slots, On(d, e) PROVE calls[d].stage = "refused" /\ calls[d].op \in Ops \ {"list"}
    <3>1. Changing(d, e) /\ d # c
      BY <2>1, <2>2 DEF EntryInv
    <3>2. ~Makes(d)
      BY <1>1, <2>2, <3>1 DEF On, BaseInv, CallsOK
    <3>3. calls[d].op \in {"rename", "delete", "restore"}
      BY <2>2, <3>2, Types, CallFields DEF On, Awaited, Makes, Ops
    <3>4. QED
      BY <1>1, <3>1, <3>3 DEF Changing, Renaming, Deleting, Restoring, Ops
  <2>3. ASSUME Good(e)' PROVE Good(e) /\ ListsRight(e) /\ ListsOnce(e)'
    <3>1. Good(e)
      BY <1>4, <2>3 DEF TrustKept
    <3>2. Quiet(e)
      BY <2>2, <3>1 DEF Quiet, Effective
    <3>3. QED
      BY <1>4, <3>1, <3>2, ObjectsStay DEF EntryInv
  <2>4. ASSUME Good(e)' PROVE ListsRight(e)' /\ ListsAll(e)'
    <3>1. ASSUME NEW k \in Pages, Reliable(k)', NEW t \in DOMAIN cache'[k], t.id = e PROVE Fits(t, e, k)'
      <4>1. Fits(t, e, k)
        BY <1>4, <2>3, <2>4, <3>1 DEF ListsRight, TrustKept, ObjectsKept
      <4>2. t.status # "completed"
        BY <1>1, <4>1 DEF Fits, Row
      <4>3. QED
        BY <1>2, <1>5, <4>1, <4>2 DEF Fits
    <3>2. ASSUME NEW d \in Slots, Brings(d)', NEW t \in calls'[d].out, t.id = e
          PROVE  Fits(t, e, calls[d].at)'
      <4>1. Fits(t, e, calls[d].at) /\ calls'[d] = calls[d]
        BY <1>4, <2>3, <2>4, <3>2 DEF ListsRight, TrustKept
      <4>2. t.status # "completed"
        BY <1>1, <4>1 DEF Fits, Row
      <4>3. QED
        BY <1>2, <1>5, <4>1, <4>2 DEF Fits
    <3>3. QED
      BY <1>2, <3>1, <3>2 DEF ListsRight, ListsAll
  <2>5. ASSUME Good(e)', NEW d \in Slots, On(d, e)' PROVE Changing(d, e)'
    <3>1. d # c /\ On(d, e) /\ calls'[d] = calls[d]
      BY <2>1, <2>5, ServeTrust
    <3>2. calls'[d].stage = "refused" /\ calls'[d].op \in Ops \ {"list"}
      BY <2>2, <2>3, <2>5, <3>1
    <3>3. QED
      BY <3>2 DEF Changing, Adding, Renaming, Deleting, Restoring, Effective, Ops
  <2>6. QED
    BY <2>3, <2>4, <2>5 DEF EntryInv, Quiet
<1>7. CASE ~calls[c].deaf
  <2>1. On(c, e) /\ Effective(c)
    BY <1>7 DEF On, Awaited, Effective
  <2>2. calls'[c].stage = "refused" /\ calls'[c].op = "upload"
    BY <1>7, CallSteps DEF Steps
  <2>3. Changing(c, e)'
    BY <2>2 DEF Changing, Adding, Effective
  <2>4. ASSUME Good(e) PROVE ListsRight(e)' /\ ListsAll(e)'
    <3>1. OnlyIn(e, {})
      BY <2>1, <2>4 DEF EntryInv, Changing, Adding
    <3>2. OnlyIn(e, {})'
      BY <1>4, <3>1, ObjectsStay
    <3>3. QED
      BY <1>2, <3>2 DEF OnlyIn, ListsRight, ListsAll
  <2>5. QED
    BY <1>4, <2>1, <2>3, <2>4, ServeOwn DEF TrustKept
<1>8. QED
  BY <1>6, <1>7

LEMMA ServeUploadEntry ==
  ASSUME BaseInv, NEW c \in Slots, ServeUpload(c), NEW e \in Entries, calls[c].id = e, EntryInv(e)
  PROVE  EntryInv(e)'
<1>1. Serve(c) /\ Busy(c) /\ calls[c].op = "upload" /\ calls[c].stage = "written" /\ Makes(c)
  BY DEF Serve, ServeUpload, Makes
<1>2. /\ calls[c].at # Trash /\ calls[c].deaf \in BOOLEAN
      /\ TypeOK /\ status[e] = "pending" /\ e \in Inserted
  BY <1>1, Types, CallFields DEF BaseInv, FormerTable, CallsOK, Effective
<1>3. TrustKept(e) /\ ObjectsKept(e)
  BY <1>1, ServeTrust
<1>4. ASSUME e \in doubtful' PROVE EntryInv(e)'
  BY <1>4 DEF EntryInv, Quiet, Good
<1>5. ASSUME UploadCompleted(e), Answer(c, {NewRow(c)}), Changed(c) PROVE EntryInv(e)'
  <2>1. CASE calls[c].deaf
    BY <1>4, <1>5, <2>1 DEF Changed
  <2>2. CASE ~calls[c].deaf
    <3>1. On(c, e) /\ Effective(c)
      BY <1>1, <2>2 DEF On, Awaited, Effective
    <3>2. calls'[c].stage = "answered" /\ calls'[c].out = {NewRow(c)}
      <4>1. {NewRow(c)} \in SUBSET Snapshots
        BY <1>1, NewRows
      <4>2. QED
        BY <1>1, <1>5, <2>2, <4>1, CallSteps
    <3>3. /\ calls'[c].op = "upload" /\ calls'[c].at = calls[c].at /\ calls'[c].name = calls[c].name
      BY <1>1, <2>2, ServeShape DEF Steps
    <3>4. status'[e] = "completed" /\ UNCHANGED <<name, parent, trashed>>
      BY <1>2, <1>5 DEF UploadCompleted, TypeOK
    <3>5. ASSUME Good(e) PROVE Changing(c, e)'
      <4>1. Adding(c, e)
        BY <1>1, <3>1, <3>5 DEF EntryInv, Changing
      <4>2. e \in Listed(calls[c].at) /\ OnlyIn(e, {}) /\ name[e] = calls[c].name
        BY <3>1, <4>1 DEF Adding
      <4>3. e \notin trashed /\ parent[e] = calls[c].at
        BY <1>2, <4>2 DEF Listed
      <4>4. NewRow(c) = Row(e)'
        BY <3>4, <4>2, <4>3, NewRowIs
      <4>5. OnlyIn(e, {})'
        BY <1>3, <4>2, ObjectsStay
      <4>6. e \in Inserted'
        <5>1. Inserted' = {f \in Entries : status'[f] # "none"}
          BY DEF Inserted
        <5>2. QED
          BY <3>4, <5>1
      <4>7. (e \in Listed(calls[c].at))'
        BY <1>2, <3>3, <3>4, <4>3, <4>6 DEF Listed
      <4>8. Adding(c, e)'
        BY <3>2, <3>3, <3>4, <4>2, <4>4, <4>5, <4>7 DEF Adding
      <4>9. QED
        BY <3>3, <4>8 DEF Changing
    <3>6. Effective(c)'
      BY <3>2 DEF Effective
    <3>7. QED
      BY <1>1, <1>3, <3>1, <3>5, <3>6, ServeOwn DEF TrustKept
  <2>3. QED
    BY <2>1, <2>2
<1>6. ASSUME UNCHANGED vars, Refuse(c) PROVE EntryInv(e)'
  <2>1. RowStays(e)
    BY <1>6 DEF vars, RowStays
  <2>2. CASE calls[c].deaf
    <3>1. ~On(c, e)
      BY <2>2 DEF On, Awaited
    <3>2. QED
      BY <1>1, <2>1, <3>1, ServeAside
  <2>3. CASE ~calls[c].deaf
    <3>1. On(c, e) /\ Effective(c)
      BY <1>1, <2>3 DEF On, Awaited, Effective
    <3>2. calls'[c].stage = "refused" /\ calls'[c].op = "upload"
      BY <1>1, <1>6, <2>3, CallSteps DEF Steps
    <3>3. Changing(c, e)'
      BY <3>2 DEF Changing, Adding, Effective
    <3>4. ASSUME Good(e) PROVE ListsRight(e)' /\ ListsAll(e)'
      <4>1. OnlyIn(e, {})
        BY <1>1, <3>1, <3>4 DEF EntryInv, Changing, Adding
      <4>2. OnlyIn(e, {})' /\ status'[e] = "pending"
        BY <1>2, <1>3, <1>6, <4>1, ObjectsStay DEF vars
      <4>3. QED
        BY <4>2 DEF OnlyIn, ListsRight, ListsAll
    <3>5. QED
      BY <1>1, <1>3, <3>1, <3>3, <3>4, ServeOwn DEF TrustKept
  <2>4. QED
    BY <2>2, <2>3
<1>7. ASSUME UploadFailed(e), Refuse(c) PROVE EntryInv(e)'
  BY <1>1, <1>7, ServeFailedEntry
<1>8. Misreport(c) => e \in doubtful'
  BY DEF Misreport
<1>9. QED
  BY <1>4, <1>5, <1>6, <1>7, <1>8 DEF ServeUpload

LEMMA ServeRenameEntry ==
  ASSUME BaseInv, NEW c \in Slots, ServeRename(c), NEW e \in Entries, calls[c].id = e, EntryInv(e)
  PROVE  EntryInv(e)'
<1>1. /\ Serve(c) /\ Busy(c) /\ calls[c].op = "rename" /\ calls[c].stage = "sent"
      /\ Written(c) /\ Changed(c) /\ RenameFile(e, calls[c].name)
  BY DEF Serve, ServeRename, Asks
<1>2. TrustKept(e) /\ ObjectsKept(e) /\ UNCHANGED <<cache, loaded, raced>>
  BY <1>1, ServeTrust
<1>3. CASE calls[c].deaf
  BY <1>1, <1>3 DEF Changed, EntryInv, Quiet, Good
<1>4. CASE ~calls[c].deaf
  <2>1. On(c, e)
    BY <1>1, <1>4 DEF On, Awaited
  <2>2. calls'[c].stage = "written" /\ calls'[c].op = "rename" /\ calls'[c].at = calls[c].at
    BY <1>1, <1>4, CallSteps DEF Steps
  <2>3. ASSUME Good(e) PROVE Changing(c, e)'
    <3>1. ListsRight(e) /\ ListsAll(e) /\ Changing(c, e)
      BY <1>1, <2>1, <2>3, SentQuiet
    <3>2. e \in Listed(calls[c].at) /\ status[e] = "completed"
      BY <1>1, <3>1 DEF Changing, Renaming
    <3>3. OnlyIn(e, {calls[c].at})
      BY <2>1, <3>1, <3>2, RightOnly, TouchesOf
    <3>4. OnlyIn(e, {calls[c].at})'
      BY <1>2, <2>2, <3>3 DEF OnlyIn, TrustKept, ObjectsKept
    <3>5. calls[c].at \in loaded \ raced => \E t \in DOMAIN cache[calls[c].at] : t.id = e
      BY <3>1, <3>2 DEF ListsAll, Row
    <3>6. (e \in Listed(calls[c].at))' /\ status'[e] = "completed"
      <4>1. UNCHANGED <<status, parent, trashed>>
        BY <1>1 DEF RenameFile
      <4>2. QED
        BY <2>2, <3>2, <4>1 DEF Listed, Inserted
    <3>7. Renaming(c, e)'
      BY <1>2, <2>2, <3>4, <3>5, <3>6 DEF Renaming
    <3>8. QED
      BY <2>2, <3>7 DEF Changing
  <2>4. Effective(c)'
    BY <2>2 DEF Effective
  <2>5. QED
    BY <1>1, <1>2, <2>1, <2>3, <2>4, ServeOwn DEF TrustKept
<1>5. QED
  BY <1>3, <1>4

LEMMA ServeRestoreEntry ==
  ASSUME BaseInv, NEW c \in Slots, ServeRestore(c), NEW e \in Entries, calls[c].id = e, EntryInv(e)
  PROVE  EntryInv(e)'
<1>1. /\ Serve(c) /\ Busy(c) /\ calls[c].op = "restore" /\ calls[c].stage = "sent"
      /\ RestoreDeletedFiles(e)
  BY DEF Serve, ServeRestore, Asks
<1>2. TrustKept(e) /\ ObjectsKept(e) /\ UNCHANGED <<cache, loaded, raced>>
  BY <1>1, ServeTrust
<1>3. ASSUME UNCHANGED vars, Refuse(c) PROVE EntryInv(e)'
  <2>1. RowStays(e)
    BY <1>3 DEF vars, RowStays
  <2>2. On(c, e) => ~Effective(c) /\ calls'[c].stage = "refused"
    BY <1>1, <1>3, CallSteps DEF On, Awaited, Effective
  <2>3. QED
    BY <1>1, <2>1, <2>2, ServeAside
<1>4. ASSUME Written(c), Changed(c), calls[c].deaf PROVE EntryInv(e)'
  BY <1>4 DEF Changed, EntryInv, Quiet, Good
<1>5. ASSUME Written(c), ~calls[c].deaf PROVE EntryInv(e)'
  <2>1. On(c, e)
    BY <1>1, <1>5 DEF On, Awaited
  <2>2. calls'[c].stage = "written" /\ calls'[c].op = "restore" /\ calls'[c].at = calls[c].at
    BY <1>1, <1>5, CallSteps DEF Steps
  <2>3. ASSUME Good(e) PROVE Changing(c, e)'
    <3>1. ListsRight(e) /\ Changing(c, e)
      BY <1>1, <2>1, <2>3, SentQuiet
    <3>2. e \in trashed /\ parent[e] = calls[c].at /\ status[e] = "completed"
      BY <1>1, <3>1 DEF Changing, Restoring
    <3>3. OnlyIn(e, {Trash})
      <4>1. e \in Listed(Trash)
        BY <3>2 DEF Listed
      <4>2. QED
        BY <1>1, <2>1, <3>1, <4>1, RightOnly, TouchesOf
    <3>4. OnlyIn(e, {Trash})'
      BY <1>2, <3>3, ObjectsStay
    <3>5. /\ status'[e] = "completed" /\ e \notin trashed'
          /\ parent'[e] \in {calls[c].at, Root}
      BY <1>1, <3>2 DEF RestoreDeletedFiles, LiveParent, BaseInv, FormerTable, TypeOK
    <3>6. Restoring(c, e)'
      BY <2>2, <3>4, <3>5 DEF Restoring
    <3>7. QED
      BY <2>2, <3>6 DEF Changing
  <2>4. Effective(c)'
    BY <2>2 DEF Effective
  <2>5. QED
    BY <1>1, <1>2, <2>1, <2>3, <2>4, ServeOwn DEF TrustKept
<1>6. QED
  BY <1>3, <1>4, <1>5 DEF ServeRestore

\* The answer is the row read after the statement: it is the row still.
LEMMA ServeReadBackEntry ==
  ASSUME BaseInv, NEW c \in Slots, ServeReadBack(c), NEW e \in Entries, calls[c].id = e, EntryInv(e)
  PROVE  EntryInv(e)'
<1>1. /\ Serve(c) /\ Busy(c) /\ calls[c].op \in {"rename", "restore"} /\ calls[c].stage = "written"
      /\ UNCHANGED vars
  BY DEF Serve, ServeReadBack
<1>2. TrustKept(e) /\ ObjectsKept(e) /\ UNCHANGED <<cache, loaded, raced>> /\ RowStays(e)
  BY <1>1, ServeTrust DEF vars, RowStays
<1>3. CASE calls[c].deaf
  <2>1. ~On(c, e)
    BY <1>3 DEF On, Awaited
  <2>2. QED
    BY <1>1, <1>2, <2>1, ServeAside
<1>4. CASE e \in doubtful'
  BY <1>4 DEF EntryInv, Quiet, Good
<1>5. ASSUME ~calls[c].deaf, Answer(c, {Row(e)}) PROVE EntryInv(e)'
  <2>1. On(c, e) /\ Effective(c)
    BY <1>1, <1>5 DEF On, Awaited, Effective
  <2>2. /\ calls'[c].stage = "answered" /\ calls'[c].op = calls[c].op /\ calls'[c].at = calls[c].at
        /\ calls'[c].out = {Row(e)} /\ Effective(c)'
    <3>1. Row(e) \in Snapshots
      BY <1>1, Rows DEF BaseInv, FormerTable, CallsOK, Makes
    <3>2. QED
      BY <1>1, <1>5, <3>1, CallSteps DEF Steps, Effective
  <2>3. Row(e)' = Row(e) /\ status'[e] = status[e] /\ parent'[e] = parent[e] /\ trashed' = trashed
    BY <1>1 DEF vars, Row
  <2>4. \A k : e \in Listed(k) => e \in Listed(k)'
    BY <1>2, RowStaysSame
  <2>5. ASSUME Good(e) PROVE Changing(c, e)'
    <3>1. Changing(c, e)
      BY <2>1, <2>5 DEF EntryInv
    <3>2. \A ks : OnlyIn(e, ks) => OnlyIn(e, ks)'
      BY <1>2, ObjectsStay
    <3>3. CASE calls[c].op = "rename"
      <4>1. Renaming(c, e)
        BY <3>1, <3>3 DEF Changing
      <4>2. Renaming(c, e)'
        BY <1>1, <1>2, <2>1, <2>2, <2>3, <2>4, <3>2, <4>1 DEF Renaming
      <4>3. QED
        BY <2>2, <3>3, <4>2 DEF Changing
    <3>4. CASE calls[c].op = "restore"
      <4>1. Restoring(c, e)
        BY <3>1, <3>4 DEF Changing
      <4>2. Restoring(c, e)'
        BY <1>1, <1>2, <2>1, <2>2, <2>3, <3>2, <4>1 DEF Restoring
      <4>3. QED
        BY <2>2, <3>4, <4>2 DEF Changing
    <3>5. QED
      BY <1>1, <3>3, <3>4
  <2>6. QED
    BY <1>1, <1>2, <2>1, <2>2, <2>5, ServeOwn DEF TrustKept
<1>6. QED
  BY <1>3, <1>4, <1>5 DEF ServeReadBack, Misreport

LEMMA ServeDeleteEntry ==
  ASSUME BaseInv, NEW c \in Slots, ServeDelete(c), NEW e \in Entries, calls[c].id = e, EntryInv(e)
  PROVE  EntryInv(e)'
<1>1. /\ Serve(c) /\ Busy(c) /\ calls[c].op = "delete" /\ calls[c].stage = "sent" /\ Changed(c)
      /\ DeleteFile(e) /\ (Answer(c, {}) \/ (vars' = vars /\ Refuse(c)))
  BY DEF Serve, ServeDelete, Asks
<1>2. TrustKept(e) /\ ObjectsKept(e) /\ UNCHANGED <<cache, loaded, raced>>
  BY <1>1, ServeTrust
<1>3. CASE calls[c].deaf
  BY <1>1, <1>3 DEF Changed, EntryInv, Quiet, Good
<1>4. ASSUME ~calls[c].deaf, vars' = vars, Refuse(c) PROVE EntryInv(e)'
  <2>1. RowStays(e)
    BY <1>4 DEF vars, RowStays
  <2>2. ~Effective(c) /\ calls'[c].stage = "refused"
    BY <1>1, <1>4, CallSteps DEF Effective
  <2>3. QED
    BY <1>1, <2>1, <2>2, ServeAside
<1>5. ASSUME ~calls[c].deaf, Answer(c, {}) PROVE EntryInv(e)'
  <2>1. On(c, e)
    BY <1>1, <1>5 DEF On, Awaited
  <2>2. calls'[c].stage = "answered" /\ calls'[c].op = "delete" /\ calls'[c].at = calls[c].at
    <3>1. {} \in SUBSET Snapshots
      OBVIOUS
    <3>2. QED
      BY <1>1, <1>5, <3>1, CallSteps DEF Steps
  <2>3. ASSUME Good(e) PROVE Changing(c, e)'
    <3>1. ListsRight(e) /\ Changing(c, e)
      BY <1>1, <2>1, <2>3, SentQuiet
    <3>2. ~Reliable(Trash) /\ e \in Listed(calls[c].at) /\ status[e] = "completed"
      BY <1>1, <3>1 DEF Changing, Deleting
    <3>3. OnlyIn(e, {calls[c].at})
      BY <2>1, <3>1, <3>2, RightOnly, TouchesOf
    <3>4. OnlyIn(e, {calls[c].at})'
      BY <1>2, <2>2, <3>3 DEF OnlyIn, TrustKept, ObjectsKept
    <3>5. status'[e] = "completed" /\ e \in trashed' /\ ~Reliable(Trash)'
      BY <1>1, <1>2, <3>2 DEF DeleteFile, Reliable
    <3>6. Deleting(c, e)'
      BY <2>2, <3>4, <3>5 DEF Deleting
    <3>7. QED
      BY <2>2, <3>6 DEF Changing
  <2>4. Effective(c)'
    BY <2>2 DEF Effective
  <2>5. QED
    BY <1>1, <1>2, <2>1, <2>3, <2>4, ServeOwn DEF TrustKept
<1>6. QED
  BY <1>1, <1>3, <1>4, <1>5

LEMMA ServeErrorEntry ==
  ASSUME BaseInv, NEW c \in Slots, ServeError(c), calls[c].op # "list", NEW e \in Entries, EntryInv(e)
  PROVE  EntryInv(e)'
<1>1. Serve(c) /\ Busy(c) /\ calls[c].stage = "sent" /\ Refuse(c) /\ UNCHANGED vars
  BY DEF Serve, ServeError
<1>2. RowStays(e)
  BY <1>1 DEF vars, RowStays
<1>3. On(c, e) => ~Effective(c) /\ calls'[c].stage = "refused"
  BY <1>1, CallSteps DEF On, Awaited, Effective
<1>4. QED
  BY <1>1, <1>2, <1>3, ServeAside

LEMMA ServeEntry ==
  ASSUME BaseInv, NEW c \in Slots, Serve(c), NEW e \in Entries, EntryInv(e)
  PROVE  EntryInv(e)'
<1>1. CASE calls[c].op = "list"
  BY <1>1, ServeListEntry
<1>2. CASE calls[c].op # "list" /\ calls[c].id # e
  <2>1. RowStays(e) /\ ~On(c, e)
    BY <1>2, ServeTable DEF On
  <2>2. QED
    BY <1>2, <2>1, ServeAside
<1>3. CASE calls[c].op # "list" /\ calls[c].id = e
  <2>1. ~ServeList(c)
    BY <1>3 DEF ServeList, Asks
  <2>2. QED
    BY <1>3, <2>1, ServeErrorEntry, ServeAddEntry, ServeGenerateEntry, ServeUploadEntry, ServeRenameEntry,
       ServeRestoreEntry, ServeReadBackEntry, ServeDeleteEntry DEF Serve
<1>4. QED
  BY <1>1, <1>2, <1>3

-----------------------------------------------------------------------------
(* What the page does with an answer keeps what is known of an entry *)

LEMMA ReceiveTrust ==
  ASSUME BaseInv, NEW c \in Slots, Receive(c), NEW e \in Entries
  PROVE  /\ UNCHANGED <<vars, raced, here>> /\ RowStays(e)
         /\ Good(e)' => Good(e)
         /\ \A d \in Slots \ {c} :
              /\ calls'[d] = calls[d]
              /\ On(d, e)' => On(d, e)
              /\ On(d, e) => On(d, e)'
              /\ Effective(d) => Effective(d)'
              /\ Brings(d)' => Brings(d)
         /\ ~On(c, e)' /\ ~Brings(c)'
         /\ calls[c].op # "list" => TrustKept(e) /\ loaded' = loaded
<1>1. /\ UNCHANGED <<vars, raced, here>> /\ doubtful \subseteq doubtful'
      /\ \A d \in Slots \ {c} : calls'[d] = calls[d]
      /\ Busy(c)' => calls'[c].deaf = TRUE
  BY ReceiveShape DEF Busy
<1>2. RowStays(e) /\ (Good(e)' => Good(e))
  BY <1>1 DEF RowStays, vars, Good
<1>3. \A d \in Slots \ {c} :
              /\ On(d, e)' => On(d, e)
              /\ On(d, e) => On(d, e)'
              /\ Effective(d) => Effective(d)'
              /\ Brings(d)' => Brings(d)
  BY <1>1 DEF On, Awaited, Busy, Effective, Brings
<1>4. ~On(c, e)' /\ ~Brings(c)'
  BY <1>1 DEF On, Awaited, Brings
<1>5. calls[c].op # "list" => TrustKept(e) /\ loaded' = loaded
  <2>1. calls[c].op # "list" => loaded' = loaded
    BY ReceiveLists
  <2>2. QED
    BY <1>1, <1>2, <1>3, <1>4, <2>1 DEF TrustKept, Reliable
<1>6. QED
  BY <1>1, <1>2, <1>3, <1>4, <1>5

\* The answer is about another entry; or nothing is done with it, and the change has
\* not taken effect.
LEMMA ReceiveAside ==
  ASSUME BaseInv, NEW c \in Slots, Receive(c), calls[c].op # "list",
         NEW e \in Entries, EntryInv(e), ObjectsKept(e), On(c, e) => ~Effective(c)
  PROVE  EntryInv(e)'
<1>1. RowStays(e) /\ TrustKept(e)
  BY ReceiveTrust
<1>2. Quiet(e)' => Quiet(e)
  BY ReceiveTrust DEF Quiet
<1>3. \A d \in Slots : On(d, e)' => On(d, e) /\ calls'[d] = calls[d]
  BY ReceiveTrust
<1>4. QED
  BY <1>1, <1>2, <1>3, EntryKept

\* The answer is about e, whose row is on page p: the lists end up with the row as
\* it is, there only.
LEMMA ReceiveOwn ==
  ASSUME BaseInv, NEW c \in Slots, Receive(c), calls[c].op # "list",
         NEW e \in Entries, EntryInv(e), On(c, e), Effective(c), NEW p \in Pages, e \in Listed(p),
         Good(e) =>
           /\ \A d \in Slots : Brings(d) => \A t \in calls[d].out : t.id # e
           /\ \A k \in Pages : Reliable(k) => \A t \in DOMAIN cache'[k] :
                t.id = e => k = p /\ t = Row(e) /\ cache'[k][t] = 1
           /\ p \in loaded \ raced => Row(e) \in DOMAIN cache'[p]
  PROVE  EntryInv(e)'
<1>1. CASE ~Good(e)'
  BY <1>1 DEF EntryInv, Quiet
<1>2. CASE Good(e)'
  <2>1. Good(e) /\ Changing(c, e) /\ TrustKept(e) /\ loaded' = loaded /\ raced' = raced
    BY <1>2, ReceiveTrust DEF EntryInv
  <2>2. \A d \in Slots : ~On(d, e)'
    BY <2>1, ReceiveTrust, OneChange
  <2>3. /\ Row(e)' = Row(e) /\ e \in Listed(p)'
        /\ \A k : e \in Listed(k)' => k = p
    BY ReceiveTrust, RowStaysSame, OnePage
  <2>4. \A k \in Pages : Reliable(k)' => Reliable(k)
    BY <2>1 DEF TrustKept
  <2>5. ASSUME NEW d \in Slots, Brings(d)'
        PROVE  /\ calls'[d] = calls[d] /\ calls[d].at # p /\ \A t \in calls'[d].out : t.id # e
    <3>1. Brings(d) /\ calls'[d] = calls[d]
      BY <2>1, <2>5 DEF TrustKept
    <3>2. calls[d].at \notin Touches(calls[c])
      BY <3>1, ListApart DEF Brings, On
    <3>3. p \in Touches(calls[c])
      BY <2>1, ChangeTouches
    <3>4. QED
      BY <2>1, <3>1, <3>2, <3>3
  <2>6. ListsRight(e)'
    BY <2>1, <2>3, <2>4, <2>5 DEF ListsRight, Fits
  <2>7. ListsAll(e)'
    BY <2>1, <2>3, <2>5 DEF ListsAll
  <2>8. ListsOnce(e)'
    BY <2>1, <2>4 DEF ListsOnce
  <2>9. QED
    BY <2>2, <2>6, <2>7, <2>8 DEF EntryInv
<1>3. QED
  BY <1>1, <1>2

LEMMA ReceiveAddedEntry ==
  ASSUME BaseInv, NEW c \in Slots, ReceiveAdded(c), NEW e \in Entries, calls[c].id = e, EntryInv(e)
  PROVE  EntryInv(e)'
<1> DEFINE k == calls[c].at
<1>1. /\ Receive(c) /\ Busy(c) /\ calls[c].stage = "answered" /\ calls[c].op \in {"add", "upload"}
      /\ \E s \in calls[c].out : cache' = Added(cache, s, k)
  BY DEF Receive, ReceiveAdded, Arrived
<1>2. On(c, e) /\ Effective(c) /\ k \in Pages /\ k # Trash /\ Lists(cache)
  BY <1>1, Types, CallFields DEF On, Awaited, Effective, BaseInv, CallsOK, StoreTypeOK, Lists
<1>3. ASSUME Good(e)
      PROVE  /\ e \in Listed(k) /\ OnlyIn(e, {}) /\ Row(e).id = e
             /\ cache' = Added(cache, Row(e), k)
  <2>1. Adding(c, e)
    BY <1>1, <1>2, <1>3 DEF EntryInv, Changing
  <2>2. QED
    BY <1>1, <1>2, <2>1 DEF Adding, Row
<1> HIDE DEF k
<1>4. ASSUME Good(e)
      PROVE  /\ \A d \in Slots : Brings(d) => \A t \in calls[d].out : t.id # e
             /\ \A j \in Pages : Reliable(j) => \A t \in DOMAIN cache'[j] :
                  t.id = e => j = k /\ t = Row(e) /\ cache'[j][t] = 1
             /\ Row(e) \in DOMAIN cache'[k]
  <2>1. /\ \A j \in Pages \ {k} : cache'[j] = cache[j]
        /\ DOMAIN cache'[k] = DOMAIN cache[k] \cup {Row(e)}
        /\ Row(e) \notin DOMAIN cache[k] => cache'[k][Row(e)] = 1
    BY <1>2, <1>3, <1>4, AddedLists
  <2>2. QED
    BY <1>2, <1>3, <1>4, <2>1 DEF OnlyIn
<1>5. CASE Good(e)
  BY <1>1, <1>2, <1>3, <1>4, <1>5, ReceiveOwn
<1>6. CASE ~Good(e)
  BY <1>1, <1>6, ReceiveTrust DEF EntryInv, Quiet
<1>7. QED
  BY <1>5, <1>6

LEMMA ReceiveRenamedEntry ==
  ASSUME BaseInv, NEW c \in Slots, ReceiveRenamed(c), NEW e \in Entries, calls[c].id = e, EntryInv(e)
  PROVE  EntryInv(e)'
<1> DEFINE k == calls[c].at
<1>1. /\ Receive(c) /\ Busy(c) /\ calls[c].stage = "answered" /\ calls[c].op = "rename"
      /\ \E s \in calls[c].out : ReplaceFile(s, k)
  BY DEF Receive, ReceiveRenamed, Arrived
<1>2. /\ On(c, e) /\ Effective(c) /\ k \in Pages /\ Lists(cache)
      /\ k \notin arrays => cache[k] = EmptyBag
  BY <1>1, Types, CallFields DEF On, Awaited, Effective, BaseInv, CallsOK, StoreTypeOK, Lists
<1>3. ASSUME Good(e)
      PROVE  /\ e \in Listed(k) /\ OnlyIn(e, {k}) /\ Row(e).id = e /\ ListsOnce(e)
             /\ k \in loaded \ raced => \E t \in DOMAIN cache[k] : t.id = e
             /\ ReplaceFile(Row(e), k)
  <2>1. Renaming(c, e) /\ ListsOnce(e)
    BY <1>1, <1>2, <1>3 DEF EntryInv, Changing
  <2>2. QED
    BY <1>1, <1>2, <2>1 DEF Renaming, Row
<1> HIDE DEF k
<1>4. ASSUME Good(e)
      PROVE  /\ \A d \in Slots : Brings(d) => \A t \in calls[d].out : t.id # e
             /\ \A j \in Pages : Reliable(j) => \A t \in DOMAIN cache'[j] :
                  t.id = e => j = k /\ t = Row(e) /\ cache'[j][t] = 1
             /\ k \in loaded \ raced => Row(e) \in DOMAIN cache'[k]
  <2>1. /\ \A j \in Pages \ {k} : cache'[j] = cache[j]
        /\ k \notin arrays => cache' = cache
        /\ k \in arrays => Row(e) \in DOMAIN cache'[k]
    BY <1>2, <1>3, <1>4, ReplacedLists
  <2>2. (\A t, x \in DOMAIN cache[k] : t.id = e /\ x.id = e => t = x /\ cache[k][t] = 1)
          => \A t \in DOMAIN cache'[k] : t.id = e /\ k \in arrays => t = Row(e) /\ cache'[k][t] = 1
    BY <1>2, <1>3, <1>4, ReplacedLists
  <2>3. k \notin arrays => DOMAIN cache[k] = {}
    BY <1>2, BagOfSet DEF EmptyBag
  <2>4. Reliable(k) => \A t, x \in DOMAIN cache[k] : t.id = e /\ x.id = e => t = x /\ cache[k][t] = 1
    BY <1>2, <1>3, <1>4 DEF ListsOnce
  <2>5. QED
    BY <1>2, <1>3, <1>4, <2>1, <2>2, <2>3, <2>4 DEF OnlyIn
<1>5. CASE Good(e)
  BY <1>1, <1>2, <1>3, <1>4, <1>5, ReceiveOwn
<1>6. CASE ~Good(e)
  BY <1>1, <1>6, ReceiveTrust DEF EntryInv, Quiet
<1>7. QED
  BY <1>5, <1>6

LEMMA ReceiveDeletedEntry ==
  ASSUME BaseInv, NEW c \in Slots, ReceiveDeleted(c), NEW e \in Entries, calls[c].id = e, EntryInv(e)
  PROVE  EntryInv(e)'
<1> DEFINE k == calls[c].at
<1>1. /\ Receive(c) /\ Busy(c) /\ calls[c].stage = "answered" /\ calls[c].op = "delete"
      /\ cache' = Removed(e, k)
  BY DEF Receive, ReceiveDeleted, Arrived
<1>2. On(c, e) /\ Effective(c) /\ k \in Pages /\ Lists(cache) /\ Trash \in Pages
  BY <1>1, Types, CallFields DEF On, Awaited, Effective, BaseInv, CallsOK, StoreTypeOK, Lists, Pages
<1>3. ASSUME Good(e) PROVE e \in Listed(Trash) /\ OnlyIn(e, {k}) /\ ~Reliable(Trash)
  <2>1. Deleting(c, e)
    BY <1>1, <1>2, <1>3 DEF EntryInv, Changing
  <2>2. QED
    BY <1>1, <1>2, <2>1 DEF Deleting, Listed
<1> HIDE DEF k
<1>4. ASSUME Good(e)
      PROVE  /\ \A d \in Slots : Brings(d) => \A t \in calls[d].out : t.id # e
             /\ \A j \in Pages : Reliable(j) => \A t \in DOMAIN cache'[j] : t.id # e
             /\ Trash \notin loaded \ raced
  <2>1. /\ \A j \in Pages \ {k} : cache'[j] = cache[j]
        /\ DOMAIN cache'[k] = {t \in DOMAIN cache[k] : t.id # e}
    BY <1>1, <1>2, RemovedLists
  <2>2. QED
    BY <1>2, <1>3, <1>4, <2>1 DEF OnlyIn, Reliable
<1>5. CASE Good(e)
  BY <1>1, <1>2, <1>3, <1>4, <1>5, ReceiveOwn
<1>6. CASE ~Good(e)
  BY <1>1, <1>6, ReceiveTrust DEF EntryInv, Quiet
<1>7. QED
  BY <1>5, <1>6

LEMMA ReceiveRestoredEntry ==
  ASSUME BaseInv, NEW c \in Slots, ReceiveRestored(c), NEW e \in Entries, calls[c].id = e, EntryInv(e)
  PROVE  EntryInv(e)'
<1>1. /\ Receive(c) /\ Busy(c) /\ calls[c].stage = "answered" /\ calls[c].op = "restore"
      /\ \E s \in calls[c].out : cache' = Added(Removed(e, Trash), s, s.parent)
  BY DEF Receive, ReceiveRestored, RestoredToParent, Arrived
<1>2. On(c, e) /\ Effective(c) /\ calls[c].at \in Pages /\ Lists(cache) /\ Trash \in Pages /\ e \in Inserted
  BY <1>1, Types, CallFields DEF On, Awaited, Effective, BaseInv, CallsOK, StoreTypeOK, Lists, Pages
<1>3. CASE Good(e)
  <2> DEFINE k == parent[e]
  <2>1. Restoring(c, e)
    BY <1>1, <1>2, <1>3 DEF EntryInv, Changing
  <2>2. /\ e \notin trashed /\ k \in {calls[c].at, Root} /\ OnlyIn(e, {Trash})
        /\ cache' = Added(Removed(e, Trash), Row(e), k) /\ Row(e).id = e
    BY <1>1, <1>2, <2>1 DEF Restoring, Row
  <2>3. k \in Pages /\ k # Trash /\ e \in Listed(k)
    BY <1>1, <1>2, <2>2, Types, TrashAssumption DEF Pages, Listed
  <2> HIDE DEF k
  <2> DEFINE R == Removed(e, Trash)
  <2>4. /\ Lists(R) /\ \A j \in Pages \ {Trash} : R[j] = cache[j]
        /\ DOMAIN R[Trash] = {t \in DOMAIN cache[Trash] : t.id # e}
    BY <1>2, RemovedLists
  <2>5. cache' = Added(R, Row(e), k)
    BY <2>2
  <2> HIDE DEF R
  <2>6. /\ \A j \in Pages \ {k} : cache'[j] = R[j]
        /\ DOMAIN cache'[k] = DOMAIN R[k] \cup {Row(e)}
        /\ Row(e) \notin DOMAIN R[k] => cache'[k][Row(e)] = 1
    BY <2>3, <2>4, <2>5, AddedLists
  <2>7. \A d \in Slots : Brings(d) => \A t \in calls[d].out : t.id # e
    BY <2>2 DEF OnlyIn
  <2>8. \A j \in Pages : Reliable(j) => \A t \in DOMAIN R[j] : t.id # e
    BY <2>2, <2>4 DEF OnlyIn
  <2>9. \A j \in Pages : Reliable(j) => \A t \in DOMAIN cache'[j] :
                  t.id = e => j = k /\ t = Row(e) /\ cache'[j][t] = 1
    BY <2>2, <2>6, <2>8
  <2>10. Row(e) \in DOMAIN cache'[k]
    BY <2>6
  <2>11. QED
    BY <1>1, <1>2, <2>3, <2>7, <2>9, <2>10, ReceiveOwn
<1>4. CASE ~Good(e)
  BY <1>1, <1>4, ReceiveTrust DEF EntryInv, Quiet
<1>5. QED
  BY <1>3, <1>4

LEMMA ReceiveErrorEntry ==
  ASSUME BaseInv, NEW c \in Slots, ReceiveError(c) \/ LoseRequest(c), calls[c].op # "list",
         NEW e \in Entries, EntryInv(e)
  PROVE  EntryInv(e)'
<1>1. Receive(c) /\ UNCHANGED cache
  BY DEF Receive, ReceiveError, LoseRequest, pageVars
<1>2. ObjectsKept(e)
  BY <1>1 DEF ObjectsKept
<1>3. On(c, e) => ~Effective(c)
  BY DEF ReceiveError, LoseRequest, Arrived, On, Awaited, Effective
<1>4. QED
  BY <1>1, <1>2, <1>3, ReceiveAside

\* The connection breaks before the answer: either the call has had no effect yet,
\* or the entry is doubtful, or it is a file that is pending still.
LEMMA GiveUpEntry ==
  ASSUME BaseInv, NEW c \in Slots, GiveUp(c), calls[c].op # "list",
         NEW e \in Entries, calls[c].id = e, EntryInv(e)
  PROVE  EntryInv(e)'
<1>1. Receive(c) /\ UNCHANGED cache /\ Awaited(c) /\ calls[c] \in Calls
  BY Types DEF Receive, GiveUp, pageVars, Awaited
<1>2. ObjectsKept(e) /\ On(c, e) /\ TrustKept(e)
  BY <1>1, ReceiveTrust DEF ObjectsKept, On
<1>3. CASE ~Effective(c)
  BY <1>1, <1>2, <1>3, ReceiveAside
<1>4. CASE Effective(c) /\ Left(c) = Free
  <2>1. e \in doubtful'
    BY <1>4 DEF GiveUp, Effective
  <2>2. QED
    BY <2>1 DEF EntryInv, Quiet, Good
<1>5. CASE Effective(c) /\ Left(c) # Free
  <2>1. calls[c].op = "upload" /\ calls[c].stage = "written"
    BY <1>5 DEF Left, Effective
  <2>2. status'[e] = "pending"
    BY <1>1, <2>1, ReceiveTrust DEF BaseInv, CallsOK, Awaited, vars
  <2>3. ASSUME Good(e)' PROVE OnlyIn(e, {})' /\ ListsOnce(e)' /\ \A d \in Slots : ~On(d, e)'
    <3>1. Good(e) /\ Changing(c, e) /\ ListsOnce(e)
      BY <1>2, <2>3 DEF EntryInv, TrustKept
    <3>2. OnlyIn(e, {})
      BY <1>5, <2>1, <3>1 DEF Changing, Adding
    <3>3. OnlyIn(e, {})' /\ ListsOnce(e)'
      BY <1>2, <3>1, <3>2, ObjectsStay
    <3>4. \A d \in Slots : ~On(d, e)'
      BY <1>1, <1>2, <3>1, ReceiveTrust, OneChange
    <3>5. QED
      BY <3>3, <3>4
  <2>4. QED
    BY <2>2, <2>3 DEF EntryInv, Quiet, OnlyIn, ListsRight, ListsAll
<1>6. QED
  BY <1>3, <1>4, <1>5

\* A list that arrives replaces what its page had; a change that is awaited and has
\* taken effect is of another page, or the page cannot be relied on.
LEMMA ReceiveListEntry ==
  ASSUME BaseInv, NEW c \in Slots, ReceiveList(c), NEW e \in Entries, EntryInv(e)
  PROVE  EntryInv(e)'
<1> PICK k, out : calls[c].at = k /\ calls[c].out = out
  OBVIOUS
<1>1. /\ Receive(c) /\ Busy(c) /\ calls[c].op = "list" /\ calls[c].stage \in {"answered", "refused"}
      /\ cache' = [cache EXCEPT ![k] = SetToBag(out)]
      /\ loaded' = IF calls[c].stage = "answered" /\ (k = Trash => here = Trash)
                     THEN loaded \cup {k} ELSE loaded \ {k}
  BY DEF Receive, ReceiveList, Arrived
<1>2. /\ UNCHANGED raced /\ RowStays(e) /\ (Good(e)' => Good(e)) /\ ~On(c, e)' /\ ~Brings(c)'
      /\ \A d \in Slots \ {c} :
              /\ calls'[d] = calls[d]
              /\ On(d, e)' => On(d, e)
              /\ On(d, e) => On(d, e)'
              /\ Effective(d) => Effective(d)'
              /\ Brings(d)' => Brings(d)
  BY <1>1, ReceiveTrust
<1>3. /\ k \in Pages /\ Awaited(c) /\ DOMAIN cache = Pages
      /\ calls[c].stage # "answered" => out = {}
      /\ \A s, t \in out : s.id = t.id => s = t
  BY <1>1, Types, CallFields DEF BaseInv, StoreTypeOK, CallsOK, Awaited
<1>4. ~On(c, e)
  BY <1>1 DEF On
<1>5. calls[c].stage = "answered" /\ k \notin raced => Brings(c)
  BY <1>1, <1>3 DEF Brings
<1>6. \A d \in Slots : On(d, e) /\ k \notin raced => k \notin Touches(calls[d])
  BY <1>1, <1>3, ListApart DEF On
<1>7. /\ \A j \in Pages \ {k} : cache'[j] = cache[j]
      /\ DOMAIN cache'[k] = out /\ \A t \in out : cache'[k][t] = 1
  <2>1. DOMAIN SetToBag(out) = out /\ \A t \in out : SetToBag(out)[t] = 1
    BY BagOfSet
  <2>2. cache'[k] = SetToBag(out) /\ \A j \in Pages \ {k} : cache'[j] = cache[j]
    BY <1>1, <1>3
  <2>3. QED
    BY <2>1, <2>2
<1>8. \A j \in Pages \ {k} : Reliable(j)' => Reliable(j)
  BY <1>1, <1>2 DEF Reliable
<1>9. k \in raced \/ out = {} \/ (Brings(c) /\ calls[c].at = k /\ calls[c].out = out)
  BY <1>3, <1>5
<1>10. k \in loaded' \ raced' => Brings(c) /\ calls[c].at = k /\ calls[c].out = out
  BY <1>1, <1>2, <1>5
<1>11. /\ Row(e)' = Row(e) /\ status'[e] = status[e]
       /\ \A j : e \in Listed(j)' => e \in Listed(j)
       /\ \A j : e \in Listed(j) => e \in Listed(j)'
  BY <1>2, RowStaysSame DEF RowStays
<1>12. Quiet(e)' => Quiet(e)
  BY <1>2, <1>4 DEF Quiet
<1>13. Reliable(k)' => k \notin raced
  BY <1>2 DEF Reliable
<1>14. ASSUME Quiet(e)' PROVE ListsRight(e)' /\ ListsAll(e)'
  <2>1. ListsRight(e) /\ ListsAll(e)
    BY <1>12, <1>14 DEF EntryInv
  <2>2. ASSUME NEW j \in Pages, Reliable(j)', NEW t \in DOMAIN cache'[j], t.id = e PROVE Fits(t, e, j)'
    <3>1. Fits(t, e, j)
      <4>1. CASE j = k
        BY <1>7, <1>9, <1>13, <2>1, <2>2, <4>1 DEF ListsRight
      <4>2. CASE j # k
        BY <1>7, <1>8, <2>1, <2>2, <4>2 DEF ListsRight
      <4>3. QED
        BY <4>1, <4>2
    <3>2. QED
      BY <1>11, <3>1 DEF Fits
  <2>3. ASSUME NEW d \in Slots, Brings(d)', NEW t \in calls'[d].out, t.id = e
        PROVE  Fits(t, e, calls[d].at)'
    <3>1. Fits(t, e, calls[d].at) /\ calls'[d] = calls[d]
      BY <1>2, <2>1, <2>3 DEF ListsRight
    <3>2. QED
      BY <1>11, <3>1 DEF Fits
  <2>4. ASSUME status'[e] = "completed", NEW j \in loaded' \ raced', (e \in Listed(j))'
        PROVE  Row(e)' \in DOMAIN cache'[j]
    <3>1. CASE j = k
      BY <1>7, <1>10, <1>11, <2>1, <2>4, <3>1 DEF ListsAll
    <3>2. CASE j # k
      <4>1. j \in loaded \ raced /\ j \in Pages
        BY <1>1, <1>2, <2>4, <3>2 DEF BaseInv, StoreTypeOK
      <4>2. QED
        BY <1>7, <1>11, <2>1, <2>4, <3>2, <4>1 DEF ListsAll
    <3>3. QED
      BY <3>1, <3>2
  <2>5. ASSUME status'[e] = "completed", NEW d \in Slots, Brings(d)', (e \in Listed(calls[d].at))'
        PROVE  Row(e)' \in calls'[d].out
    BY <1>2, <1>11, <2>1, <2>5 DEF ListsAll
  <2>6. QED
    BY <2>2, <2>3, <2>4, <2>5 DEF ListsRight, ListsAll
<1>15. ASSUME Good(e)' PROVE ListsOnce(e)'
  <2>1. ListsOnce(e)
    BY <1>2, <1>15 DEF EntryInv
  <2>2. ASSUME NEW j \in Pages, Reliable(j)', NEW s \in DOMAIN cache'[j], NEW t \in DOMAIN cache'[j],
               s.id = e, t.id = e
        PROVE  s = t /\ cache'[j][s] = 1
    <3>1. CASE j = k
      BY <1>3, <1>7, <2>2, <3>1
    <3>2. CASE j # k
      BY <1>7, <1>8, <2>1, <2>2, <3>2 DEF ListsOnce
    <3>3. QED
      BY <3>1, <3>2
  <2>3. QED
    BY <2>2 DEF ListsOnce
<1>16. ASSUME Good(e)', NEW d \in Slots, On(d, e)' PROVE Changing(d, e)'
  <2>1. On(d, e) /\ Changing(d, e) /\ calls'[d] = calls[d]
    BY <1>2, <1>16 DEF EntryInv
  <2>2. ASSUME NEW ks, OnlyIn(e, ks) PROVE OnlyIn(e, ks)'
    <3>1. \A f \in Slots : Brings(f)' => \A t \in calls'[f].out : t.id # e
      BY <1>2, <2>2 DEF OnlyIn
    <3>2. ASSUME NEW j \in Pages \ ks, Reliable(j)' PROVE \A t \in DOMAIN cache'[j] : t.id # e
      <4>1. CASE j = k
        BY <1>7, <1>9, <1>13, <2>2, <3>2, <4>1 DEF OnlyIn
      <4>2. CASE j # k
        BY <1>7, <1>8, <2>2, <3>2, <4>2 DEF OnlyIn
      <4>3. QED
        BY <4>1, <4>2
    <3>3. QED
      BY <3>1, <3>2 DEF OnlyIn
  <2>3. calls[d].at \in Touches(calls[d]) /\ calls[d].at \in Pages
    BY <2>1, Types, CallFields, TouchesOf DEF On, Awaited
  <2>4. calls[d].at \in loaded' \ raced' => calls[d].at \in loaded \ raced /\ calls[d].at # k
    BY <1>1, <1>2, <1>6, <2>1, <2>3
  <2>5. calls[d].op = "delete" => (Reliable(Trash)' => Reliable(Trash))
    <3>1. Trash \in Pages /\ (calls[d].op = "delete" => Trash \in Touches(calls[d]))
      BY TouchesOf DEF Pages
    <3>2. QED
      BY <1>6, <1>8, <1>13, <2>1, <3>1
  <2>6. QED
    BY <1>2, <1>7, <2>1, <2>2, <2>3, <2>4, <2>5, ChangeCarried
<1>17. QED
  BY <1>14, <1>15, <1>16 DEF EntryInv

LEMMA ReceiveEntry ==
  ASSUME BaseInv, NEW c \in Slots, Receive(c), NEW e \in Entries, EntryInv(e)
  PROVE  EntryInv(e)'
<1>1. CASE calls[c].op = "list" /\ ReceiveList(c)
  BY <1>1, ReceiveListEntry
\* A list call that is given up, or that nobody awaits, brings nothing.
<1>2. CASE calls[c].op = "list" /\ ~ReceiveList(c)
  <2>1. GiveUp(c) \/ LoseRequest(c)
    BY <1>2 DEF Receive, ReceiveError, ReceiveAdded, ReceiveRenamed, ReceiveDeleted, ReceiveRestored, Arrived
  <2>2. UNCHANGED <<cache, loaded, raced>>
    BY <2>1 DEF GiveUp, LoseRequest, pageVars
  <2>3. TrustKept(e) /\ ObjectsKept(e) /\ RowStays(e)
    BY <2>2, ReceiveTrust DEF TrustKept, ObjectsKept, Reliable
  <2>4. ~On(c, e)
    BY <1>2 DEF On
  <2>5. Quiet(e)' => Quiet(e)
    BY <2>4, ReceiveTrust DEF Quiet
  <2>6. \A d \in Slots : On(d, e)' => On(d, e) /\ calls'[d] = calls[d]
    BY ReceiveTrust
  <2>7. QED
    BY <2>3, <2>5, <2>6, EntryKept
<1>3. CASE calls[c].op # "list" /\ calls[c].id # e
  <2>1. ObjectsKept(e) /\ ~On(c, e)
    BY <1>3, ReceiveLists DEF ObjectsKept, On
  <2>2. QED
    BY <1>3, <2>1, ReceiveAside
<1>4. CASE calls[c].op # "list" /\ calls[c].id = e
  <2>1. ~ReceiveList(c)
    BY <1>4 DEF ReceiveList, Arrived
  <2>2. QED
    BY <1>4, <2>1, ReceiveErrorEntry, ReceiveAddedEntry, ReceiveRenamedEntry, ReceiveDeletedEntry,
       ReceiveRestoredEntry, GiveUpEntry DEF Receive
<1>5. QED
  BY <1>1, <1>2, <1>3, <1>4

-----------------------------------------------------------------------------
(* The theorems *)

LEMMA StoreStarts ==
  ASSUME FormerTable, StoreInit
  PROVE  StoreInv
<1>1. IsABag(EmptyBag) /\ DOMAIN EmptyBag = {}
  BY BagOfSet DEF EmptyBag
<1>2. /\ loaded = {} /\ \A k \in Pages : DOMAIN cache[k] = {}
      /\ \A c \in Slots : ~Busy(c)
  BY <1>1 DEF StoreInit, Busy
<1>3. \A e \in Entries : EntryInv(e)
  BY <1>2 DEF EntryInv, ListsRight, ListsAll, ListsOnce, Brings, On, Awaited
<1>4. QED
  BY <1>3, BaseStarts DEF StoreInv

LEMMA StoreStep ==
  ASSUME StoreInv, [DriveNext]_driveVars
  PROVE  StoreInv'
<1>1. BaseInv /\ BaseInv'
  BY BaseStep DEF StoreInv
<1>2. ASSUME NEW e \in Entries PROVE EntryInv(e)'
  <2>1. EntryInv(e)
    BY DEF StoreInv
  <2>2. ASSUME NEW p \in Pages, Load(p) PROVE EntryInv(e)'
    BY <1>1, <2>2, LoadEntry
  <2>3. ASSUME NEW p \in Pages, Open(p) PROVE EntryInv(e)'
    BY <1>1, <2>1, <2>3, OpenEntry
  <2>4. ASSUME NEW c \in Slots, Click(c) PROVE EntryInv(e)'
    <3>1. PICK o \in Ops \ {"list"}, k \in Folders \cup {Root}, f \in Entries, n \in Names \cup {Null} :
            Asked(c, o, k, f, n)
      BY <1>1, <2>4, ClickShape
    <3>2. QED
      BY <1>1, <2>1, <3>1, ClickEntry
  <2>5. ASSUME NEW c \in Slots, Serve(c) PROVE EntryInv(e)'
    BY <1>1, <2>1, <2>5, ServeEntry
  <2>6. ASSUME NEW c \in Slots, Receive(c) PROVE EntryInv(e)'
    BY <1>1, <2>1, <2>6, ReceiveEntry
  \* The rename form opens or closes, or nothing happens.
  <2>7. ASSUME \/ \E s \in Shown(here) : OpenRename(s)
               \/ CloseRename
               \/ UNCHANGED driveVars
        PROVE  EntryInv(e)'
    <3>1. UNCHANGED <<vars, cache, calls, loaded, raced, doubtful>>
      BY <2>7 DEF driveVars, storeVars, OpenRename, CloseRename
    <3>2. \A c \in Slots : /\ On(c, e)' => On(c, e)
                           /\ On(c, e) => On(c, e)'
                           /\ Effective(c) => Effective(c)'
                           /\ Brings(c)' => Brings(c)
      BY <3>1 DEF On, Awaited, Busy, Effective, Brings
    <3>3. RowStays(e) /\ ObjectsKept(e) /\ TrustKept(e)
      BY <3>1, <3>2 DEF vars, RowStays, ObjectsKept, TrustKept, Reliable, Good
    <3>4. Quiet(e)' => Quiet(e)
      BY <3>2, <3>3 DEF Quiet, TrustKept
    <3>5. \A c \in Slots : On(c, e)' => On(c, e) /\ calls'[c] = calls[c]
      BY <3>1, <3>2
    <3>6. QED
      BY <1>1, <2>1, <3>3, <3>4, <3>5, EntryKept
  <2>8. QED
    BY <2>2, <2>3, <2>4, <2>5, <2>6, <2>7 DEF DriveNext
<1>3. QED
  BY <1>1, <1>2 DEF StoreInv

\* The invariants hold from any table former calls have left.
LEMMA StoreAlways == FormerSpec => []StoreInv
<1>1. FormerTable /\ StoreInit => StoreInv
  BY StoreStarts
<1>2. StoreInv /\ [DriveNext]_driveVars => StoreInv'
  BY StoreStep
<1>3. QED
  BY <1>1, <1>2, PTL DEF FormerSpec

LEMMA SettledQuiet ==
  ASSUME StoreInv, NEW e \in Entries, Settled(e)
  PROVE  Good(e) /\ ListsRight(e) /\ ListsAll(e) /\ ListsOnce(e)
<1>1. Quiet(e)
  BY DEF Settled, Quiet, Good, On, Awaited
<1>2. QED
  BY <1>1 DEF Quiet, StoreInv, EntryInv

LEMMA ShownThere ==
  ASSUME StoreInv, NEW k \in Pages, NEW s \in Shown(k)
  PROVE  s \in DOMAIN cache[k] /\ s.id \in Entries /\ s.status = "completed"
  BY DEF StoreInv, BaseInv, StoreTypeOK, Shown, GetFiles, Snapshots

\* Every completed entry of a folder whose list was fetched is shown there under its
\* present name: no answer edits another list than the one its row has moved to.
THEOREM ShowsAll == FormerSpec => []LoadedShowsAll
<1>1. ASSUME StoreInv, NEW k \in loaded \ raced, NEW e \in Listed(k), status[e] = "completed", Settled(e)
      PROVE  \E s \in Shown(k) : s.id = e /\ s.name = name[e]
  <2>1. e \in Entries
    BY <1>1 DEF Listed, Inserted, StoreInv, BaseInv, FormerTable, TypeOK
  <2>2. Row(e) \in DOMAIN cache[k]
    BY <1>1, <2>1, SettledQuiet DEF ListsAll
  <2>3. Row(e) \in Shown(k) /\ Row(e).id = e /\ Row(e).name = name[e]
    BY <1>1, <2>2 DEF Shown, GetFiles, Row
  <2>4. QED
    BY <2>3
<1>2. StoreInv => LoadedShowsAll
  BY <1>1 DEF LoadedShowsAll
<1>3. QED
  BY <1>2, StoreAlways, PTL

\* And what a page shows, also of a folder that was never fetched, is a completed row
\* of that folder under its present name.
THEOREM ShowsRows == FormerSpec => []ShownIsThere
<1>1. ASSUME StoreInv, NEW k \in Pages, Reliable(k), NEW s \in Shown(k), Settled(s.id)
      PROVE  s.id \in Listed(k) /\ status[s.id] = "completed" /\ name[s.id] = s.name
  <2>1. s \in DOMAIN cache[k] /\ s.id \in Entries /\ s.status = "completed"
    BY <1>1, ShownThere
  <2>2. Fits(s, s.id, k)
    BY <1>1, <2>1, SettledQuiet DEF ListsRight
  <2>3. s.id \in Listed(k) /\ s = Row(s.id)
    BY <2>1, <2>2 DEF Fits
  <2>4. s.status = status[s.id] /\ s.name = name[s.id]
    BY <2>3 DEF Row
  <2>5. QED
    BY <2>1, <2>3, <2>4
<1>2. StoreInv => ShownIsThere
  BY <1>1 DEF ShownIsThere
<1>3. QED
  BY <1>2, StoreAlways, PTL

\* addFileResponse pushes without looking for the id: still no page shows an entry
\* twice.
THEOREM ShowsOnce == FormerSpec => []NothingShownTwice
<1>1. ASSUME StoreInv, NEW k \in Pages, Reliable(k), NEW s \in Shown(k), NEW t \in Shown(k),
             s.id = t.id, Settled(s.id)
      PROVE  s = t /\ GetFiles(k)[s] = 1
  <2>1. s \in DOMAIN cache[k] /\ t \in DOMAIN cache[k] /\ s.id \in Entries
    BY <1>1, ShownThere
  <2>2. QED
    BY <1>1, <2>1, SettledQuiet DEF ListsOnce, GetFiles
<1>2. StoreInv => NothingShownTwice
  BY <1>1 DEF NothingShownTwice
<1>3. QED
  BY <1>2, StoreAlways, PTL
=============================================================================
