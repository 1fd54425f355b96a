------------------------------ MODULE ReadDir ------------------------------
(***************************************************************************)
(* READDIR in pages (nfs.c, readdir.c).  Every page lists the iRODS        *)
(* collection again into the mirror and returns the entries from the       *)
(* position in the client's cookie on.  The upper half of a cookie tells   *)
(* rcookie, which REMOVE, RMDIR and RENAME change, so that a client with a *)
(* cookie from before starts over.                                         *)
(*                                                                         *)
(* One client lists one directory; others change it through this server,   *)
(* other iRODS clients behind its back.  The entries "." and ".." are like *)
(* any others.  The order of a listing is the order of the mirror, which   *)
(* is the same for the same names.  The server is not restarted: a restart *)
(* sets rcookie back to 0, and cookies of the first epoch are taken again. *)
(***************************************************************************)
EXTENDS Integers, Sequences, FiniteSets

CONSTANTS
    Names,
    NAME_SIZE,      \* name -> bytes in the reply
    RESOK_SIZE,     \* bytes of a reply without entries, 104 in the code
    ENTRY_SIZE,     \* bytes of an entry without its name, 24
    MAX_ENTRIES,    \* room for entries, 143
    MaxCount,       \* most bytes in a reply, 4096
    Counts,         \* sizes clients ask for
    CookieEpochs,   \* values of the upper half of a cookie, 2^32
    MaxChanges      \* bound: changes of the collection

ASSUME ReadDirAssumption ==
    /\ NAME_SIZE \in [Names -> Nat]
    /\ {RESOK_SIZE, ENTRY_SIZE, MAX_ENTRIES, MaxCount, MaxChanges} \subseteq Nat
    /\ CookieEpochs \in Nat /\ CookieEpochs > MaxChanges
    /\ Counts \subseteq Nat /\ IsFiniteSet(Names)

VARIABLES
    coll,      \* the collection, in the order of listings
    rcookie,   \* the upper half of rcookie; its lower half is always 0
    client,    \* [cookie, count, got, eof]: the listing under way
    page,      \* the entries of the last reply
    stale,     \* the client's handle of the directory leads nowhere
    present,   \* history: names there since the listing began
    unseen,    \* history: since then, names went without the server's doing,
               \* or a listing of iRODS broke off
    quiet,     \* history: since then nothing changed at all
    changes

vars == <<coll, rcookie, client, page, stale, present, unseen, quiet, changes>>

Elements(s) == {s[i] : i \in DOMAIN s}
NoCookie == [upper |-> 0, pos |-> 0]
Start(count) == [cookie |-> NoCookie, count |-> count, got |-> <<>>, eof |-> FALSE]

Init ==
    /\ coll \in {s \in UNION {[1..n -> Names] : n \in 0..Cardinality(Names)} :
                    Cardinality(Elements(s)) = Len(s)}
    /\ rcookie = 0
    /\ client \in {Start(count) : count \in Counts}
    /\ page = <<>>
    /\ stale = FALSE
    /\ present = Elements(coll)
    /\ unseen = FALSE
    /\ quiet = TRUE
    /\ changes = 0

----------------------------------------------------------------------------
(* read_dir *)

\* Mutant: an old cookie is taken at its word.
TrustOldCookie(cookie) == cookie.pos

\* The position to go on from: 0 if the cookie is of another epoch.
first_entry(cookie) ==
    IF cookie # NoCookie /\ cookie.upper # rcookie THEN 0 ELSE cookie.pos

\* real_count after n entries.
real_count(entries) ==
    LET r[n \in 0..Len(entries)] ==
            IF n = 0 THEN RESOK_SIZE ELSE r[n - 1] + ENTRY_SIZE + NAME_SIZE[entries[n]]
    IN  r

\* Mutant: the first entry, too, is dropped if it does not fit.
FirstDroppedToo(entries, n, count) ==
    n > 0 => n <= MAX_ENTRIES /\ real_count(entries)[n] <= count

\* n entries are taken: there is room when each is looked at, and every one but
\* the first is dropped again if it does not fit.
Takes(entries, n, count) ==
    n > 0 => /\ n <= MAX_ENTRIES
             /\ real_count(entries)[n - 1] < count
             /\ n > 1 => real_count(entries)[n] <= count

\* Mutant: the cookie of an entry leads back to it.
SameEntryAgain(pos, n) == pos + n - 1

\* The position after the n-th entry of a page.
entry_cookie(pos, n) == pos + n

\* The reply for a directory that holds listing.
read_dir(listing, cookie, asked) ==
    LET pos == first_entry(cookie)
        count == IF asked > MaxCount THEN MaxCount ELSE asked
        rest == SubSeq(listing, pos + 1, Len(listing))
        sizes == {n \in 0..Len(rest) : Takes(rest, n, count)}
        size == CHOOSE n \in sizes : \A m \in sizes : m <= n
    IN  [entries |-> SubSeq(rest, 1, size),
         cookie |-> IF size = 0 THEN cookie
                    ELSE [upper |-> rcookie, pos |-> entry_cookie(pos, size)],
         eof |-> size = Len(rest)]

change_readdir_cookie == rcookie' = (rcookie + 1) % CookieEpochs

----------------------------------------------------------------------------
(* Requests.  The listing of iRODS may break off: its status is ignored.  A    *)
(* READDIR that fails altogether changes nothing here; the client asks again. *)
(* Every other one removes the directory and makes it anew, and unless the new *)
(* one has the inode of the old one the client's next request is refused.     *)

Listings == {coll} \cup {SubSeq(coll, 1, n) : n \in 0..Len(coll)}

PageOf(listing) ==
    LET reply == read_dir(listing, client.cookie, client.count) IN
    /\ client' = [client EXCEPT !.cookie = reply.cookie, !.eof = reply.eof,
                                !.got = @ \o reply.entries]
    /\ page' = reply.entries
    /\ stale' \in BOOLEAN
    /\ unseen' = (unseen \/ listing # coll)
    /\ quiet' = (quiet /\ listing = coll)
    /\ UNCHANGED <<coll, rcookie, present, changes>>

READDIR ==
    /\ ~client.eof /\ ~stale
    /\ \E listing \in Listings : PageOf(listing)

\* Refused with STALE, the client looks the directory up again and keeps its
\* cookie.
LOOKUP ==
    /\ stale
    /\ stale' = FALSE
    /\ UNCHANGED <<coll, rcookie, client, page, present, unseen, quiet, changes>>

\* The client lists the directory again.
NewListing ==
    /\ client.eof
    /\ client' \in {Start(count) : count \in Counts}
    /\ page' = <<>>
    /\ present' = Elements(coll)
    /\ unseen' = FALSE
    /\ quiet' = TRUE
    /\ UNCHANGED <<coll, rcookie, stale, changes>>

Change ==
    /\ changes < MaxChanges
    /\ changes' = changes + 1
    /\ quiet' = FALSE
    /\ UNCHANGED <<client, page, stale>>

InsertAt(s, i, x) == SubSeq(s, 1, i - 1) \o <<x>> \o SubSeq(s, i, Len(s))
RemoveAt(s, i) == SubSeq(s, 1, i - 1) \o SubSeq(s, i + 1, Len(s))

\* CREATE, MKDIR, or another iRODS client: rcookie stays.
Add ==
    /\ Change
    /\ \E n \in Names \ Elements(coll), i \in 1..(Len(coll) + 1) : coll' = InsertAt(coll, i, n)
    /\ UNCHANGED <<rcookie, present, unseen>>

\* REMOVE and RMDIR change rcookie first; the removal itself may fail.
Remove ==
    /\ Change
    /\ change_readdir_cookie
    /\ \/ \E i \in DOMAIN coll : coll' = RemoveAt(coll, i) /\ present' = present \ {coll[i]}
       \/ UNCHANGED <<coll, present>>
    /\ UNCHANGED unseen

\* RENAME within the directory: the name may get another place in the order.
Rename ==
    /\ Change
    /\ change_readdir_cookie
    /\ \E i \in DOMAIN coll, n \in Names \ Elements(coll), k \in DOMAIN coll :
         /\ coll' = InsertAt(RemoveAt(coll, i), k, n)
         /\ present' = present \ {coll[i]}
    /\ UNCHANGED unseen

\* Another iRODS client removes an object, or this server does for a client of
\* a read-only export: rcookie stays.
RemoveUnseen ==
    /\ Change
    /\ \E i \in DOMAIN coll : coll' = RemoveAt(coll, i) /\ present' = present \ {coll[i]}
    /\ unseen' = TRUE
    /\ UNCHANGED rcookie

Next ==
    \/ READDIR \/ LOOKUP \/ NewListing
    \/ Add \/ Remove \/ Rename \/ RemoveUnseen

Spec == Init /\ [][Next]_vars

\* The client goes on to ask, and after STALE looks the directory up and asks for
\* the same page; the server answers; and of the listings that go on for ever not
\* every one breaks off.  Fairness on the page is strong because a page that
\* broke off may leave a stale handle, too.
FairSpec ==
    Spec /\ WF_vars(LOOKUP) /\ SF_vars(~client.eof /\ ~stale /\ PageOf(coll))

----------------------------------------------------------------------------
(* Properties *)

\* A cookie never points behind the end of what the directory can hold.
TypeOK ==
    /\ Elements(coll) \subseteq Names /\ Cardinality(Elements(coll)) = Len(coll)
    /\ rcookie \in 0..(CookieEpochs - 1)
    /\ client.cookie \in [upper : 0..(CookieEpochs - 1), pos : 0..Cardinality(Names)]
    /\ Elements(page) \subseteq Names
    /\ stale \in BOOLEAN

\* Whoever adds, removes and renames through the server between two pages, a
\* client that has read to the end has got every name that was there all the
\* time: removals make it start over, additions only repeat a name.  (A name
\* that goes without the server's doing makes the positions shift unnoticed.)
Complete == client.eof /\ ~unseen => present \subseteq Elements(client.got)

\* In a directory that does not change the pages put together are a prefix of
\* the listing: nothing twice, nothing left out, wherever pages end.
PagesJoin ==
    quiet => /\ client.got = SubSeq(coll, 1, Len(client.got))
             /\ client.eof => client.got = coll

\* A client that asks for more than the reply's header gets to the end of the
\* directory, however often it has to start over and though every page may cost
\* it its handle, once changes have stopped: provided it looks the directory up
\* again and goes on with its cookie.  (A client that begins a new listing after
\* each STALE gets to the end only if an inode comes back often enough.)
ListingEnds == client.count > RESOK_SIZE ~> client.eof
=============================================================================
