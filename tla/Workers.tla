------------------------------ MODULE Workers -------------------------------
\* The channel threads of engpc (server/chnl/CChnlThread.cpp), as the modules
\* they call see them.
CONSTANT Threads
=============================================================================
