--------------------------- MODULE ArrCategories ---------------------------
(* The torrent categories of one leg (arr_categories.py): each is the one    *)
(* the config names, or else that of the arr's own qBittorrent client, which *)
(* is fetched when first needed, kept once fetched and tried again after a   *)
(* failure.  Meanwhile the operator may edit the client in the arr.          *)
EXTENDS Naturals, FiniteSets

CONSTANTS
  Categories,    \* category names, the blank one aside
  MaxClientEdits \* bound

VARIABLES
  configured,   \* per category: "absent", or its value, which may be blank
  reachable,    \* there is an arr handle to ask
  client,       \* the categories of the arr's preferred client now
  fetchedPair,  \* _fetched, or Unfetched
  taken,        \* history: per category, the values torrents were given
  edits

catVars == <<configured, reachable, client, fetchedPair, taken, edits>>

Uses      == {"grab", "post_import"}
Blank     == "blank"
Values    == Categories \cup {Blank}
Unfetched == [u \in Uses |-> "unfetched"]
Blanks    == [u \in Uses |-> Blank]

CategoriesInit ==
  /\ configured \in [Uses -> Values \cup {"absent"}]
  /\ reachable \in BOOLEAN
  /\ client \in [Uses -> Values]
  /\ fetchedPair = Unfetched
  /\ taken = [u \in Uses |-> {}]
  /\ edits = 0

\* Mutant: nothing is kept, every decision asks again.
ClientPairUnkept(pair, kept) ==
  /\ pair \in IF reachable THEN {client, Blanks} ELSE {Blanks}
  /\ kept = Unfetched

\* _client_pair: the pair a decision sees, and what is kept of it.
ClientPair(pair, kept) ==
  \/ fetchedPair # Unfetched /\ pair = fetchedPair /\ kept = fetchedPair
  \/ fetchedPair = Unfetched /\ ~reachable /\ pair = Blanks /\ kept = Unfetched
  \/ fetchedPair = Unfetched /\ reachable /\ pair = client /\ kept = client
  \/ fetchedPair = Unfetched /\ reachable /\ pair = Blanks /\ kept = Unfetched \* the fetch failed

\* grab, post_import: a configured value is used without asking.
TakeCategory(u) ==
  /\ \/ /\ configured[u] # "absent"
        /\ taken' = [taken EXCEPT ![u] = @ \cup {configured[u]}]
        /\ UNCHANGED fetchedPair
     \/ /\ configured[u] = "absent"
        /\ \E pair \in {fetchedPair, client, Blanks}, kept \in {fetchedPair, client, Unfetched} :
             /\ ClientPair(pair, kept)
             /\ taken' = [taken EXCEPT ![u] = @ \cup {pair[u]}]
             /\ fetchedPair' = kept
  /\ UNCHANGED <<configured, reachable, client, edits>>

\* move_untracks asks even where the config names both categories; its answer is not modelled.
AskUntracks ==
  /\ \E pair \in {fetchedPair, client, Blanks}, kept \in {fetchedPair, client, Unfetched} :
       /\ ClientPair(pair, kept)
       /\ fetchedPair' = kept
  /\ UNCHANGED <<configured, reachable, client, taken, edits>>

EditClient ==
  /\ edits < MaxClientEdits /\ edits' = edits + 1
  /\ client' \in [Uses -> Values]
  /\ UNCHANGED <<configured, reachable, fetchedPair, taken>>

CategoriesNext ==
  \/ \E u \in Uses : TakeCategory(u)
  \/ AskUntracks \/ EditClient

CategoriesSpec == CategoriesInit /\ [][CategoriesNext]_catVars

\* One leg never spreads its torrents over two categories, a fetch failure's
\* blank aside, and what it takes from the client is one client's pair
\* (ArrCategoryResolver._client_pair).
CategoriesSettle ==
  /\ \A u \in Uses : Cardinality(taken[u] \ {Blank}) <= 1
  /\ fetchedPair # Unfetched => \A u \in Uses :
       taken[u] \subseteq {Blank, configured[u], fetchedPair[u]}

\* What is kept is a pair some client had; a value taken is a name or blank.
CategoriesTypeOK ==
  /\ configured \in [Uses -> Values \cup {"absent"}] /\ reachable \in BOOLEAN
  /\ client \in [Uses -> Values] /\ fetchedPair \in [Uses -> Values] \cup {Unfetched}
  /\ taken \in [Uses -> SUBSET Values] /\ edits \in 0..MaxClientEdits
=============================================================================
