\* Three handlers whose setups can fail, once the library has its helpers.
CONSTANTS
  Handler = {h1, h2, h3}
  NULL = NULL
  CanFail = {"setup"}
SPECIFICATION Spec
INVARIANTS CodeIsLoaded UsersAlive
PROPERTIES DosListPromise LockHandlerPromise
