---------------------------- MODULE MCEventLoop ----------------------------
EXTENDS EventLoop

FromEvents  == {{"event"}}
FromThreads == {{"thread"}}
FromAnywhere == {{"upcall"}, {"upcall", "event"}, {"timer", "thread"}}
=============================================================================
