\* Launch after launch of the example application with one chat whose SDK
\* item changes at any time; at most two notifications queued.
CONSTANTS c1 = c1  Chats <- OneChat  MaxQueue = 2
CONSTANTS Extras <- CheckedExtras
SPECIFICATION FairSpecApp
VIEW QtAppView
INVARIANT TypeOKApp
INVARIANT OneRequestInFlight
INVARIANT NotStranded
INVARIANT ListFiltered
INVARIANT ControllersCurrent
PROPERTY SessionSettles
