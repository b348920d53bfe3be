------------------------------- MODULE Servers -------------------------------
(***************************************************************************)
(* The two extension servers of the repository, the platform's sample in   *)
(* Go and the venue's in TypeScript, each on its own.                      *)
(***************************************************************************)
EXTENDS ExtensionServer, Sequences

CONSTANTS
    VenueRequests,   \* requests to the server of the venue
    VenueKind(_)

VARIABLES book, cleared, queue, at, local, answer, rejected, up

venueVars == <<book, cleared, queue, at, local, answer, rejected, up>>

Venue == INSTANCE HandlerQueue
            WITH Requests <- VenueRequests, Kind <- VenueKind, pc <- at

\* The venue's handlers have the effect of one step each
\* (HandlerQueue!HandlersAreAtomic).
HandlersAreAtomic == Venue!HandlersAreAtomic
=============================================================================
