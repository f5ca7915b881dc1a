------------------------------- MODULE Channel -------------------------------
(***************************************************************************)
(* siren::net::Channel and what EPollPoller does with it, for one channel: *)
(* the events it wants (events_) and its standing with the poller (index_).*)
(* The kernel watches its descriptor exactly while index_ is kAdded, and   *)
(* reports EPOLLHUP and EPOLLERR whatever events_ is.                      *)
(***************************************************************************)

kNew == "kNew"
kAdded == "kAdded"
kDeleted == "kDeleted"
Indices == {kNew, kAdded, kDeleted}

\* events_, as the set of what it contains: kReadEvent, kWriteEvent
Events == {"in", "out"}

\* EPollPoller::updateChannel(): the index after update() with these events.
\* A channel that is not watched is added even when it wants no event.
Updated(index, events) ==
  IF index = kAdded /\ events = {} THEN kDeleted ELSE kAdded

\* The assertions of Channel::remove() and EPollPoller::removeChannel()
Removable(index, events) == events = {} /\ index # kNew
=============================================================================
