CONSTANTS
    Queue <- MCQueue
    Consumer <- MCConsumer
    Implemented <- MCImplemented
    Boots <- MCBoots
    Deleted = "deleted"
    Pusher <- MCPusher
    To <- MCTo
    Reloader = {r1, r2}
    Listener = {"l1", "l2"}
    MaxFailures = 1
SPECIFICATION Spec
INVARIANTS TypeOK OneListener
PROPERTIES KnownQueuesServed QueuesFollowStore PushesEnd
CHECK_DEADLOCK FALSE
