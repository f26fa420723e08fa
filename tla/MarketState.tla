---------------------------- MODULE MarketState ----------------------------
(***************************************************************************)
(* What the probe knows of the market: three Hyperliquid books that come   *)
(* over two websockets, each with its delays and its reconnects, the quotes *)
(* of the other venues, and the questions that decisions ask of them.      *)
(* A book is its top: 0 stands for a side without levels.  Times count in  *)
(* steps of now, on the monotonic clock.  The frames are open: a websocket *)
(* may deliver any top of book at any time, or nothing.                    *)
(***************************************************************************)
EXTENDS Integers

CONSTANTS
    Quotes,            \* tops of book that the exchange shows, [bid, ask]
    Venues,            \* the other venues
    Freshness,         \* probe.market_freshness_ms
    DefaultFreshness,  \* probe.default_l2_freshness_ms
    MaxTime            \* bound: the monotonic clock

ASSUME MarketAssumption ==
    /\ Quotes \subseteq [bid : Nat, ask : Nat]
    /\ Freshness \in Nat \ {0} /\ DefaultFreshness \in Nat \ {0}
    /\ MaxTime \in Nat

\* In the order of freshest_hl_book.
Feeds == <<"hl_bbo", "hl_fast_l2", "hl_default_l2">>
FeedNames == {"hl_bbo", "hl_fast_l2", "hl_default_l2"}

\* The feeds of each websocket.
Sockets == {{"hl_bbo", "hl_default_l2"}, {"hl_fast_l2"}}

\* BookState::default(); `at' is received_monotonic_ns, 0 for never.
NoBook == [bid |-> 0, ask |-> 0, at |-> 0]

VARIABLES
    now,     \* monotonic_ns()
    books,   \* hl_bbo, hl_fast_l2, hl_default_l2
    quoted   \* venues with a valid quote

market == <<now, books, quoted>>

MarketInit ==
    /\ now = 1
    /\ books = [f \in FeedNames |-> NoBook]
    /\ quoted = {}

-----------------------------------------------------------------------------
(* BookState and MarketState                                               *)

\* midpoint().is_some()
HasMidpoint(b) == b.bid > 0 /\ b.ask >= b.bid

\* Twice the midpoint.
TwiceMid(b) == b.bid + b.ask

\* A book and the receive time of its feed are set and cleared together.
FeedFresh(f, freshness) == books[f].at > 0 /\ now - books[f].at <= freshness

Usable(f, freshness) == HasMidpoint(books[f]) /\ FeedFresh(f, freshness)

RequiredQuotesFresh ==
    /\ Usable("hl_bbo", Freshness) \/ Usable("hl_fast_l2", Freshness)
    /\ \/ Usable("hl_fast_l2", Freshness)
       \/ Usable("hl_default_l2", DefaultFreshness)
    /\ quoted = Venues

\* Mutant: the first book of the list that has a midpoint.
FirstWithMidpoint ==
    {i \in 1 .. 3 : /\ HasMidpoint(books[Feeds[i]])
                    /\ \A j \in 1 .. i - 1 : ~HasMidpoint(books[Feeds[j]])}

\* max_by_key over the books with a midpoint: of those received last, the last
\* in the list.  The set of its index, empty for None.
Freshest ==
    {i \in 1 .. 3 :
        /\ HasMidpoint(books[Feeds[i]])
        /\ \A j \in 1 .. 3 : HasMidpoint(books[Feeds[j]]) =>
             \/ books[Feeds[j]].at < books[Feeds[i]].at
             \/ books[Feeds[j]].at = books[Feeds[i]].at /\ j <= i}

FreshestBook == {books[Feeds[i]] : i \in Freshest}

-----------------------------------------------------------------------------
(* Frames, reconnects, time                                                *)

Pass ==
    /\ now < MaxTime
    /\ now' = now + 1
    /\ UNCHANGED <<books, quoted>>

\* process_public_frame: a bbo or an l2Book frame.
BookFrame(f) ==
    /\ \E q \in Quotes :
         books' = [books EXCEPT ![f] = [bid |-> q.bid, ask |-> q.ask, at |-> now]]
    /\ UNCHANGED <<now, quoted>>

\* process_public_frame: a bbo of another venue, valid or not.
VenueFrame(v) ==
    /\ \E S \in {quoted \cup {v}, quoted \ {v}} : quoted' = S
    /\ UNCHANGED <<now, books>>

\* connect_feed: clear_reconnecting_feed forgets the books of that websocket.
Reconnect(socket) ==
    /\ books' = [f \in FeedNames |-> IF f \in socket THEN NoBook ELSE books[f]]
    /\ UNCHANGED <<now, quoted>>

ReconnectVenue(v) ==
    /\ quoted' = quoted \ {v}
    /\ UNCHANGED <<now, books>>

MarketNext ==
    \/ Pass
    \/ \E f \in FeedNames : BookFrame(f)
    \/ \E socket \in Sockets : Reconnect(socket)
    \/ \E v \in Venues : VenueFrame(v) \/ ReconnectVenue(v)

-----------------------------------------------------------------------------
BookRecords == [bid : Nat, ask : Nat, at : Nat]

MarketTypeOK ==
    /\ now \in Nat /\ quoted \subseteq Venues
    /\ books \in [FeedNames -> BookRecords]
=============================================================================
