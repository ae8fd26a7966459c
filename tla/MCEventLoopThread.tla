-------------------------- MODULE MCEventLoopThread --------------------------
EXTENDS EventLoopThread
=============================================================================
