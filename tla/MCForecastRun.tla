--------------------------- MODULE MCForecastRun ---------------------------
EXTENDS ForecastRun

MCAdminClosures == {{}, {1}}
MCNoAdminClosures == {{}}
=============================================================================
