------------------------ MODULE MCThreadPoolExecutor ------------------------
\* Two workers; a client and a stranger of another pool that post, a client that
\* shuts down, and tasks that post tasks: see the configurations.
EXTENDS ThreadPoolExecutor
=============================================================================
