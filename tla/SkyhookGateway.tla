--------------------------- MODULE SkyhookGateway ---------------------------
(***************************************************************************)
(* The TVDB order cache (skyhook_gateway.py) over its client's outage      *)
(* latch (skyhook_client.py), leg after leg: the due series are fetched    *)
(* one at a time, the official order first and then each other order its   *)
(* reply lists, and a series' record is stored whole or not at all.        *)
(***************************************************************************)
EXTENDS Naturals

CONSTANTS
  Series,
  Orders,        \* the orders other than the official one
  MaxPrefetches  \* bound on the legs

VARIABLES
  stored,    \* the series' records in cache.db: their orders, those with rows, the leg that fetched them
  read,      \* the records the leg goes by
  skyLeg, skyOutage, skyPreview,
  due,       \* the series still to fetch
  fetching,
  got,       \* of the series being fetched: the orders fetched, those with rows, those its official reply lists
  heard      \* history: every reply, of which series and order and in which leg

skyVars == <<stored, read, skyLeg, skyOutage, skyPreview, due, fetching, got, heard>>

Official == "official"
NoSeries == "none"

ASSUME SkyhookAssumption == MaxPrefetches \in Nat /\ NoSeries \notin Series

NoRecord == [orders |-> {}, rows |-> {}, leg |-> 0]
Nothing  == [orders |-> {}, rows |-> {}, lists |-> {}]
HasRecord(r) == r.leg > 0

\* What a reply lists; one that does not validate, is another series', or leaves out the
\* order asked for is taken for a reply without rows that lists nothing.
Listings == {{}} \cup {{Official} \cup others : others \in SUBSET Orders}

SkyhookInit ==
  /\ stored = [s \in Series |-> NoRecord] /\ read = stored
  /\ skyLeg = 0 /\ skyOutage = FALSE /\ skyPreview = FALSE
  /\ due = {} /\ fetching = NoSeries /\ got = Nothing /\ heard = {}

\* A leg begins over what cache.db holds; the one before it ended or was cut short.
\* Besides the missing series, those past fresh_until or with other counts are due.
OrdersLeg ==
  /\ skyLeg < MaxPrefetches /\ skyLeg' = skyLeg + 1
  /\ read' = stored /\ skyOutage' = FALSE /\ skyPreview' \in BOOLEAN
  /\ due' \in SUBSET Series /\ \A s \in Series : ~HasRecord(stored[s]) => s \in due'
  /\ fetching' = NoSeries /\ got' = Nothing
  /\ UNCHANGED <<stored, heard>>

Pick(s) ==
  /\ fetching = NoSeries /\ s \in due /\ ~skyOutage
  /\ fetching' = s /\ got' = Nothing /\ due' = due \ {s}
  /\ UNCHANGED <<stored, read, skyLeg, skyOutage, skyPreview, heard>>

\* The official order, then each order its reply lists, whether or not it had rows.
NextOrder == IF Official \notin got.orders THEN {Official} ELSE got.lists \ got.orders

Hears(s, o, reply, lists) ==
  heard' = heard \cup {[series |-> s, leg |-> skyLeg, order |-> o, reply |-> reply, lists |-> lists]}

\* One order's reply.  Any failed row empties it but for the orders it lists, and SkyHook's
\* 404 for a further order is an order without rows.
Fetched(s, o, rows, lists) ==
  /\ fetching = s /\ o \in NextOrder
  /\ (o = Official /\ rows) => Official \in lists
  /\ got' = [orders |-> got.orders \cup {o}, rows |-> got.rows \cup (IF rows THEN {o} ELSE {}),
             lists |-> IF o = Official THEN lists ELSE got.lists]
  /\ Hears(s, o, IF rows THEN "rows" ELSE "empty", lists)
  /\ UNCHANGED <<stored, read, skyLeg, skyOutage, skyPreview, due, fetching>>

Record == [orders |-> got.orders, rows |-> got.rows, leg |-> skyLeg]
Writes(s) ==
  /\ read' = [read EXCEPT ![s] = Record]
  /\ stored' = IF skyPreview THEN stored ELSE [stored EXCEPT ![s] = Record]
  /\ fetching' = NoSeries /\ got' = Nothing

\* Every order the official reply listed is in: the record is written and saved at once.
Complete(s) ==
  /\ fetching = s /\ NextOrder = {} /\ Writes(s)
  /\ UNCHANGED <<skyLeg, skyOutage, skyPreview, due, heard>>

\* SkyHook says it has no such series: the record has no orders.
NotFound(s) ==
  /\ fetching = s /\ Official \notin got.orders
  /\ Hears(s, Official, "unknown", {}) /\ Writes(s)
  /\ UNCHANGED <<skyLeg, skyOutage, skyPreview, due>>

\* Mutant: an outage between two orders stores the ones before it.
OutageStoring(s) ==
  /\ fetching = s /\ NextOrder # {} /\ skyOutage' = TRUE
  /\ IF Official \in got.orders THEN Writes(s)
     ELSE fetching' = NoSeries /\ got' = Nothing /\ UNCHANGED <<stored, read>>
  /\ UNCHANGED <<skyLeg, skyPreview, due, heard>>

\* A request fails, or is answered with a status that says nothing of the series: the
\* series keeps its old record, the rest are left for the next run.
Outage(s) ==
  /\ fetching = s /\ NextOrder # {} /\ skyOutage' = TRUE
  /\ fetching' = NoSeries /\ got' = Nothing
  /\ UNCHANGED <<stored, read, skyLeg, skyPreview, due, heard>>

SkyhookNext ==
  \/ OrdersLeg
  \/ \E s \in Series :
       \/ Pick(s) \/ Complete(s) \/ NotFound(s) \/ Outage(s)
       \/ \E o \in {Official} \cup Orders, rows \in BOOLEAN, lists \in Listings :
            (o # Official => lists = {}) /\ Fetched(s, o, rows, lists)

SkyhookSpec == SkyhookInit /\ [][SkyhookNext]_skyVars

\* The official reply `h` calls for these orders of its series.
CalledFor(h) == IF h.reply = "unknown" THEN {} ELSE {Official} \cup h.lists

\* What leg n heard of s.
Heard(s, n) == {h \in heard : h.series = s /\ h.leg = n}

\* A reading of a series: the orders its official reply called for, and the rows sent.
WholeOf(told, r) ==
  /\ \E h \in told : h.order = Official /\ r.orders = CalledFor(h)
  /\ r.rows = {h.order : h \in {h \in told : h.reply = "rows"}}

\* A series' record is one complete reading of it, by the leg it was fetched in: every
\* order that leg's official reply listed, had it rows or not, and of each the rows it was
\* sent.  So neither a host that goes down between two orders, nor a leg cut short there,
\* leaves a part of a reading, and an old record is never mixed with a new one
\* (SkyHookGateway.prefetch, _fetch_series of skyhook_gateway.py:55-65, 100-124).
RecordsAreWhole ==
  \A s \in Series : \A r \in {stored[s], read[s]} : HasRecord(r) => WholeOf(Heard(s, r.leg), r)

\* A record in the making belongs to the series being fetched.
SkyhookTypeOK ==
  /\ skyLeg \in 0..MaxPrefetches /\ skyOutage \in BOOLEAN /\ skyPreview \in BOOLEAN
  /\ due \subseteq Series /\ fetching \in Series \cup {NoSeries}
  /\ \A s \in Series : {stored[s], read[s]} \subseteq
       [orders : SUBSET ({Official} \cup Orders), rows : SUBSET ({Official} \cup Orders), leg : 0..MaxPrefetches]
  /\ got \in [orders : SUBSET ({Official} \cup Orders), rows : SUBSET ({Official} \cup Orders), lists : Listings]
  /\ fetching = NoSeries => got = Nothing
=============================================================================
