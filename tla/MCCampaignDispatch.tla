-------------------------- MODULE MCCampaignDispatch --------------------------
\* Small instances of the campaign dispatcher; the bounds are explained in README.md.
EXTENDS CampaignDispatch
=============================================================================
